----------------------------- MODULE JsonPrint -----------------------------
(***************************************************************************)
(* source/json/cJSON.c: printing documents.  A text is a sequence of       *)
(* units: a character is the unit of its code, and a literal, a number and *)
(* the four hexadecimal digits of an escape are one unit each.  Width is   *)
(* how many bytes a unit takes; what the functions reserve and how far     *)
(* they write is counted in bytes.                                         *)
(*                                                                         *)
(* A function that prints an item asks again and again for some bytes of   *)
(* the buffer and writes what may be less.  What it asks for and writes    *)
(* depends on the item, its depth and the format alone, and here is the    *)
(* sequence of these requests; the buffer meets them one after the other.  *)
(***************************************************************************)
EXTENDS JsonList, SequencesExt

Literal == [null |-> 301, false |-> 302, true |-> 303]
Hex(code) == 1000 + code          \* %04x
Number(n) == 100000 + n           \* of one digit
IsHex(u) == 1000 <= u /\ u < 66536
IsNumber(u) == u >= 100000

Width(u) == IF u \in {301, 303} \/ IsHex(u) THEN 4 ELSE IF u = 302 THEN 5 ELSE 1
Bytes(units) ==
  LET sum[k \in 0 .. Len(units)] == IF k = 0 THEN 0 ELSE sum[k - 1] + Width(units[k])
  IN sum[Len(units)]

Quote == 34
Backslash == 92
Comma == 44
Colon == 58
EndOfText == 0

-----------------------------------------------------------------------------
(* What an item is printed as                                              *)

\* Needed bytes are reserved, and the units written, with a NUL if nul is 1.
Request(needed, units, nul) == [refused |-> FALSE, needed |-> needed, units |-> units, nul |-> nul]
Refusal == [refused |-> TRUE, needed |-> 0, units |-> <<>>, nul |-> 0]

\* The letters of the escape sequences.
EscapeOf(c) == CASE c = 34 -> 34 [] c = 92 -> 92 [] c = 8 -> 98 [] c = 12 -> 102
                 [] c = 10 -> 110 [] c = 13 -> 114 [] c = 9 -> 116 [] OTHER -> 0
Escape(c) == IF EscapeOf(c) # 0 THEN <<Backslash, EscapeOf(c)>>
             ELSE IF c < 32 THEN <<Backslash, 117, Hex(c)>>
             ELSE <<c>>

print_string_ptr(s) ==
  LET Quoted(units) == Request(Bytes(units) + 3, <<Quote>> \o units \o <<Quote>>, 1)
  IN Quoted(FlattenSeq([k \in DOMAIN s |-> Escape(s[k])]))

print_number(n) == Request(Width(Number(n)) + 1, <<Number(n)>>, 1)

Tabs(n) == [k \in 1 .. n |-> 9]

\* The children c of an array or of an object, what is in which is printed as
\* the function printed says.
print_array_Mutant(c, printed, format) ==
  LET comma == IF format THEN <<Comma, 32>> ELSE <<Comma>>
      Element(k) == printed[c[k]] \o (IF k = Len(c) THEN <<>> ELSE <<Request(1, comma, 1)>>)
  IN <<Request(1, <<91>>, 0)>> \o FlattenSeq([k \in DOMAIN c |-> Element(k)]) \o <<Request(2, <<93>>, 1)>>

print_array(c, printed, format) ==
  LET comma == IF format THEN <<Comma, 32>> ELSE <<Comma>>
      Element(k) == printed[c[k]] \o (IF k = Len(c) THEN <<>> ELSE <<Request(Len(comma) + 1, comma, 1)>>)
  IN <<Request(1, <<91>>, 0)>> \o FlattenSeq([k \in DOMAIN c |-> Element(k)]) \o <<Request(2, <<93>>, 1)>>

print_object(h, c, printed, depth, format) ==
  LET f == IF format THEN 1 ELSE 0
      newline == IF format THEN <<10>> ELSE <<>>
      indentation == IF format THEN <<Request(depth, Tabs(depth), 0)>> ELSE <<>>
      End(comma) == Request(Len(comma) + f + 1, comma \o newline, 1)
      Member(k) ==
        indentation \o <<print_string_ptr(h[c[k]].name), Request(1 + f, <<Colon>> \o Tabs(f), 0)>>
          \o printed[c[k]] \o <<End(IF k = Len(c) THEN <<>> ELSE <<Comma>>)>>
      close == Request(IF format THEN depth + 1 ELSE 2, Tabs(f * (depth - 1)) \o <<125>>, 1)
  IN <<Request(f + 2, <<123>> \o newline, 0)>> \o FlattenSeq([k \in DOMAIN c |-> Member(k)]) \o <<close>>

\* An item at a depth, what is below it is printed as the function printed says.
ItemPrinted(h, i, printed, depth, format) ==
  LET type == h[i].type
      value == h[i].value
  IN CASE i = Null -> <<Refusal>>
       [] i # Null /\ type \in DOMAIN Literal -> <<Request(Width(Literal[type]) + 1, <<Literal[type]>>, 1)>>
       [] i # Null /\ type = "number" -> <<print_number(value[1])>>
       [] i # Null /\ type = "raw" -> <<Request(Bytes(value) + 1, value, 1)>>
       [] i # Null /\ type = "string" -> <<print_string_ptr(value)>>
       [] i # Null /\ type = "array" -> print_array(Children(h, i), printed, format)
       [] i # Null /\ type = "object" -> print_object(h, Children(h, i), printed, depth + 1, format)
       [] OTHER -> <<Refusal>>

\* No document is deeper than there are nodes.
print_value(h, item, format) ==
  LET levels == Cardinality(DOMAIN h)
      printed[n \in 0 .. levels] ==   \* with n levels to go
        [i \in DOMAIN h |-> IF n = 0 THEN <<Refusal>>
                            ELSE ItemPrinted(h, i, printed[n - 1], levels - n, format)]
  IN printed[levels][item]

-----------------------------------------------------------------------------
(* The buffer.  It holds out; beyond says that a write went past its       *)
(* length.                                                                 *)

Buffer(length, noalloc) ==
  [length |-> length, offset |-> 0, noalloc |-> noalloc, out |-> <<>>, ok |-> TRUE, beyond |-> FALSE]

ensure(b, needed) ==
  LET Grown(need) == IF need <= b.length THEN b
                     ELSE IF b.noalloc THEN [b EXCEPT !.ok = FALSE]
                     ELSE [b EXCEPT !.length = 2 * need]
  IN IF b.length > 0 /\ b.offset >= b.length THEN [b EXCEPT !.ok = FALSE] ELSE Grown(needed + b.offset + 1)

Write(b, r) ==
  LET Copied(e, end) == [e EXCEPT !.offset = end, !.out = @ \o r.units, !.beyond = @ \/ end + r.nul > e.length]
      In(e) == IF e.ok THEN Copied(e, b.offset + Bytes(r.units)) ELSE e
  IN IF ~b.ok THEN b ELSE IF r.refused THEN [b EXCEPT !.ok = FALSE] ELSE In(ensure(b, r.needed))

Written(b, requests) ==
  LET written[k \in 0 .. Len(requests)] == IF k = 0 THEN b ELSE Write(written[k - 1], requests[k])
  IN written[Len(requests)]

\* What cJSON_Print does with a buffer of its own, too.
cJSON_PrintBuffered(h, item, prebuffer, format) == Written(Buffer(prebuffer, FALSE), print_value(h, item, format))
cJSON_PrintPreallocated(h, item, length, format) == Written(Buffer(length, TRUE), print_value(h, item, format))
=============================================================================
