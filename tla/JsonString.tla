----------------------------- MODULE JsonString -----------------------------
(***************************************************************************)
(* source/json/cJSON.c: parsing the strings of a text.  The state s of the *)
(* parser has the text and the place in it, its offset, and the heap; what *)
(* an output overran is in beyond.  A loop over a string is the sequence   *)
(* of its turns, which no text has more of than units.                     *)
(***************************************************************************)
EXTENDS JsonPrint

Length(s) == Len(s.text)
can_access(s) == s.offset < Length(s)
UnitAt(s, k) == IF k < Length(s) THEN s.text[k + 1] ELSE -1
Here(s) == UnitAt(s, s.offset)
Advance(s, n) == [s EXCEPT !.offset = @ + n]
Stop(s) == [s EXCEPT !.ok = FALSE]

\* What the letters of the escape sequences stand for.
EscapedBy(c) == CASE c \in {34, 92, 47} -> c [] c = 98 -> 8 [] c = 102 -> 12
                  [] c = 110 -> 10 [] c = 114 -> 13 [] c = 116 -> 9 [] OTHER -> 0

\* The bytes of a code point: 64 is 2 to the 6th.
Utf8(c) ==
  LET Rest(n) == 128 + ((c \div n) % 64)
  IN CASE c < 128 -> <<c>>
       [] 128 <= c /\ c < 2048 -> <<192 + c \div 64, Rest(1)>>
       [] 2048 <= c /\ c < 65536 -> <<224 + c \div 4096, Rest(64), Rest(1)>>
       [] c >= 65536 -> <<240 + c \div 262144, Rest(4096), Rest(64), Rest(1)>>

FirstSurrogate(u) == 55296 <= u /\ u < 56320
SecondSurrogate(u) == 56320 <= u /\ u < 57344

\* What \uXXXX at position k stands for, if the string ends at end, and how
\* many units it takes; none if it is wrong.  It has four digits unless the
\* string ends before them.
utf16_literal_to_utf8(s, k, end) ==
  LET HexAt(j) == IF j + 2 < end /\ IsHex(UnitAt(s, j + 2)) THEN UnitAt(s, j + 2) - 1000 ELSE -1
      None == [out |-> <<>>, units |-> 0]
      Second(first, second) ==
        IF ~SecondSurrogate(second) THEN None
        ELSE [out |-> Utf8(65536 + 1024 * (first % 1024) + (second % 1024)), units |-> 6]
      First(first) ==
        IF first = -1 \/ SecondSurrogate(first) THEN None
        ELSE IF ~FirstSurrogate(first) THEN [out |-> Utf8(first), units |-> 3]
        ELSE IF UnitAt(s, k + 3) = Backslash /\ UnitAt(s, k + 4) = 117 THEN Second(first, HexAt(k + 3))
        ELSE None
  IN First(HexAt(k))

\* From the quote on, the next one that is not escaped is the end; a byte less
\* is allocated for each escape sequence.
Scanned(s, start) ==
  LET Turn(f) ==
        IF f.at >= Length(s) \/ UnitAt(s, f.at) = Quote THEN f
        ELSE IF UnitAt(s, f.at) = Backslash THEN [at |-> f.at + 2, skipped |-> f.skipped + 1]
        ELSE [f EXCEPT !.at = @ + 1]
      scan[n \in 0 .. Length(s)] == IF n = 0 THEN [at |-> start, skipped |-> 0] ELSE Turn(scan[n - 1])
  IN scan[Length(s)]

\* What the escape sequence at position k stands for.
Sequence(s, k, end) ==
  LET c == UnitAt(s, k + 1)
  IN CASE c = 117 -> utf16_literal_to_utf8(s, k, end)
       [] c # 117 /\ EscapedBy(c) # 0 -> [out |-> <<EscapedBy(c)>>, units |-> 2]
       [] OTHER -> [out |-> <<>>, units |-> 0]

\* The string without its escape sequences, unless one of them is wrong.
Unescaped(s, start, end) ==
  LET Joined(u, part) ==
        IF part.units = 0 THEN [u EXCEPT !.ok = FALSE]
        ELSE [u EXCEPT !.at = @ + part.units, !.out = @ \o part.out]
      Turn(u) ==
        IF ~u.ok \/ u.at >= end THEN u
        ELSE Joined(u, IF UnitAt(s, u.at) = Backslash THEN Sequence(s, u.at, end)
                       ELSE [out |-> <<UnitAt(s, u.at)>>, units |-> 1])
      loop[n \in 0 .. Length(s)] == IF n = 0 THEN [at |-> start, out |-> <<>>, ok |-> TRUE] ELSE Turn(loop[n - 1])
  IN loop[Length(s)]

parse_string(s, item) ==
  LET start == s.offset + 1
      Copied(u, end, allocated) ==
        IF ~u.ok THEN Stop(s)
        ELSE [s EXCEPT !.heap[item].type = "string", !.heap[item].value = u.out, !.offset = end + 1,
                       !.beyond = @ \/ Bytes(u.out) + 1 > allocated]
      To(f) ==
        IF f.at >= Length(s) THEN Stop(s)
        ELSE Copied(Unescaped(s, start, f.at), f.at, (Bytes(SubSeq(s.text, start + 1, f.at)) + 2) - f.skipped)
  IN IF Here(s) = Quote THEN To(Scanned(s, start)) ELSE Stop(s)
=============================================================================
