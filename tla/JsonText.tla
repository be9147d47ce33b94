------------------------------ MODULE JsonText ------------------------------
(***************************************************************************)
(* source/json/cJSON.c: parsing and minifying texts, of the units of       *)
(* JsonPrint.                                                              *)
(***************************************************************************)
EXTENDS JsonTree, JsonString

CONSTANTS
  NestingLimit,         \* CJSON_NESTING_LIMIT
  DefaultBufferSize     \* default_buffer_size of print

ASSUME TextAssumption == NestingLimit \in Nat /\ DefaultBufferSize \in Nat \ {0}

\* cJSON_Print and cJSON_PrintUnformatted.
print(h, item, format) == cJSON_PrintBuffered(h, item, DefaultBufferSize, format)

-----------------------------------------------------------------------------
(* Parsing                                                                 *)

Input(h, text) == [heap |-> h, text |-> text, offset |-> 0, depth |-> 0, ok |-> TRUE, beyond |-> FALSE]

\* Everything up to a space is skipped, the NUL too, but not past the end.
buffer_skip_whitespace(s) ==
  LET Skip(k) == [s EXCEPT !.offset = IF k = Length(s) THEN k - 1 ELSE k]
  IN IF can_access(s) THEN Skip(Min({k \in s.offset .. Length(s) : k = Length(s) \/ s.text[k + 1] > 32})) ELSE s

skip_utf8_bom(s) ==
  IF Length(s) > 4 /\ SubSeq(s.text, 1, 3) = <<239, 187, 191>> THEN Advance(s, 3) ELSE s

parse_number(s, item) ==
  [Advance(s, 1) EXCEPT !.heap[item].type = "number", !.heap[item].value = <<Here(s) - 100000>>]

RECURSIVE parse_value(_, _)
RECURSIVE parse_elements(_, _, _, _, _)

parse_fail(s, head) == [Stop(s) EXCEPT !.heap = cJSON_Delete(@, head)]

\* The name of the member item and the colon after it.
parse_name(s, item) ==
  LET Coloned(p) == IF Here(p) = Colon THEN buffer_skip_whitespace(Advance(p, 1)) ELSE Stop(p)
      Named(p) ==
        IF p.ok THEN Coloned(buffer_skip_whitespace([p EXCEPT !.heap[item].name = p.heap[item].value,
                                                             !.heap[item].value = <<>>]))
        ELSE p
  IN Named(parse_string(s, item))

\* The elements of an array, or the members of an object, one after the other.
parse_elements(s, item, type, head, last) ==
  LET close == IF type = "array" THEN 93 ELSE 125
      Linked(h, new) == IF head = Null THEN h ELSE suffix_object(h, last, new)
      Next(p, list, new) ==
        CASE Here(p) = Comma -> parse_elements(p, item, type, list, new)
          [] Here(p) = close ->
               [Advance(p, 1) EXCEPT
                  !.depth = @ - 1,
                  !.heap = Put(Put(Put(@, list, "prev", new), item, "type", type), item, "child", list)]
          [] OTHER -> parse_fail(p, list)
      Valued(p, list, new) == IF p.ok THEN Next(buffer_skip_whitespace(p), list, new) ELSE parse_fail(p, list)
      Named(p, list, new) == IF p.ok THEN Valued(parse_value(p, new), list, new) ELSE parse_fail(p, list)
      At(p, list, new) == Named(IF type = "array" THEN p ELSE parse_name(p, new), list, new)
      With(made, new) ==
        IF new = Null THEN parse_fail(s, head)
        ELSE At(buffer_skip_whitespace(Advance([s EXCEPT !.heap = Linked(made, new)], 1)),
                IF head = Null THEN new ELSE head, new)
      From(made) == With(made.heap, made.item)
  IN From(Create(s.heap, "invalid", <<>>))

parse_list(s, item, type) ==
  LET Open(p) ==
        IF ~can_access(p) THEN Stop(s)
        ELSE IF Here(p) = (IF type = "array" THEN 93 ELSE 125)
        THEN [Advance(p, 1) EXCEPT !.depth = @ - 1, !.heap[item].type = type]
        ELSE parse_elements(Advance(p, -1), item, type, Null, Null)
  IN IF s.depth >= NestingLimit THEN Stop(s)
     ELSE Open(buffer_skip_whitespace(Advance([s EXCEPT !.depth = @ + 1], 1)))

parse_array(s, item) == parse_list(s, item, "array")
parse_object(s, item) == parse_list(s, item, "object")

parse_value(s, item) ==
  LET Is(L) == [Advance(s, 1) EXCEPT !.heap[item].type = CHOOSE t \in L : TRUE]
  IN CASE Here(s) \in {301, 302, 303} -> Is({t \in DOMAIN Literal : Literal[t] = Here(s)})
       [] Here(s) = Quote -> parse_string(s, item)
       [] IsNumber(Here(s)) -> parse_number(s, item)
       [] Here(s) = 91 -> parse_array(s, item)
       [] Here(s) = 123 -> parse_object(s, item)
       [] OTHER -> Stop(s)

\* The heap after it, and the item, NULL if the text was refused.
cJSON_ParseWithLengthOpts(h, text, require_null_terminated) ==
  LET Refused(s, item) == [heap |-> cJSON_Delete(s.heap, item), item |-> Null, beyond |-> s.beyond]
      Ended(s, item) ==
        IF ~s.ok \/ (require_null_terminated /\ Here(buffer_skip_whitespace(s)) # EndOfText)
        THEN Refused(s, item) ELSE [heap |-> s.heap, item |-> item, beyond |-> s.beyond]
      From(made) ==
        IF made.item = Null THEN [heap |-> h, item |-> Null, beyond |-> FALSE]
        ELSE Ended(parse_value(buffer_skip_whitespace(skip_utf8_bom(Input(made.heap, text))), made.item), made.item)
  IN IF text = <<>> THEN [heap |-> h, item |-> Null, beyond |-> FALSE] ELSE From(Create(h, "invalid", <<>>))

cJSON_ParseWithOpts(h, value, require_null_terminated) ==
  cJSON_ParseWithLengthOpts(h, Append(value, EndOfText), require_null_terminated)

-----------------------------------------------------------------------------
(* Minifying                                                               *)

\* The places where a comment and a string end.
CommentEnd(t, k) ==
  LET E == {j \in k + 2 .. Len(t) : t[j] = 10} IN IF E = {} THEN Len(t) + 1 ELSE Min(E) + 1
MultilineEnd(t, k) ==
  LET E == {j \in k + 2 .. Len(t) - 1 : t[j] = 42 /\ t[j + 1] = 47}
  IN IF E = {} THEN Len(t) + 1 ELSE Min(E) + 2

\* A backslash before a quote escapes it, even one that is escaped itself.
RECURSIVE minify_string(_, _)
minify_string(t, k) ==
  IF k > Len(t) THEN k
  ELSE IF t[k] = Quote THEN k + 1
  ELSE IF t[k] = Backslash /\ k < Len(t) /\ t[k + 1] = Quote THEN minify_string(t, k + 2)
  ELSE minify_string(t, k + 1)

RECURSIVE MinifyFrom(_, _)
MinifyFrom(t, k) ==
  LET second == IF k < Len(t) THEN t[k + 1] ELSE EndOfText
      end == minify_string(t, k + 1)
  IN IF k > Len(t) THEN <<>>
     ELSE IF t[k] \in {32, 9, 13, 10} THEN MinifyFrom(t, k + 1)
     ELSE IF t[k] = 47
          THEN MinifyFrom(t, CASE second = 47 -> CommentEnd(t, k) [] second = 42 -> MultilineEnd(t, k)
                               [] OTHER -> k + 1)
     ELSE IF t[k] = Quote THEN SubSeq(t, k, end - 1) \o MinifyFrom(t, end)
     ELSE <<t[k]>> \o MinifyFrom(t, k + 1)

cJSON_Minify(t) == MinifyFrom(t, 1)
=============================================================================
