------------------------------- MODULE MCJson -------------------------------
(***************************************************************************)
(* Json on small documents.  The names are a, A, b and a/b; the texts are  *)
(* put together here.                                                      *)
(***************************************************************************)
EXTENDS Json

a == <<97>>
bigA == <<65>>
b == <<98>>
slashed == <<97, 47, 98>>

Join(parts) == FlattenSeq([k \in DOMAIN parts |-> IF k = 1 THEN parts[k] ELSE <<Comma>> \o parts[k]])
Text(s) == <<Quote>> \o s \o <<Quote>>
Array(parts) == <<91>> \o Join(parts) \o <<93>>
Object(members) == <<123>> \o Join([k \in DOMAIN members |->
                     Text(members[k][1]) \o <<Colon>> \o members[k][2]]) \o <<125>>
One == <<Number(1)>>
Two == <<Number(2)>>
NullText == <<Literal["null"]>>

Pair == Object(<< <<b, One>>, <<a, Two>> >>)
Nested == Object(<< <<a, Array(<<One, Two>>)>>, <<b, Text(<<Backslash, 116, Backslash, Backslash>>)>> >>)
Inner == Object(<< <<a, Object(<< <<b, One>> >>)>> >>)
List == Array(<<One, Two, One>>)

Start(n, texts) == [calls |-> n, documents |-> texts]

MCStarts == {
  Start(3, <<Object(<< <<b, One>>, <<a, Two>> >>)>>),
  Start(2, <<Array(<<One, Object(<<>>)>>)>>),
  Start(2, <<Pair, List>>),
  Start(2, <<Nested, Nested, Object(<< <<b, Array(<<>>)>>, <<a, Array(<<One>>)>> >>)>>),
  Start(2, <<Inner, Inner, Object(<< <<a, Object(<< <<a, NullText>> >>)>>, <<slashed, One>> >>)>>),
  Start(2, <<List, Array(<<Two, One>>)>>),
  Start(2, <<Object(<< <<a, One>>, <<bigA, Two>> >>), Object(<< <<slashed, NullText>>, <<bigA, One>> >>)>>) }

\* Texts as they come, and what they stand for.
Leaf(type, value) == D!Leaf(type, value)
Number1 == Leaf("number", <<1>>)
Items(type, items) == [D!Leaf(type, <<>>) EXCEPT !.items = items]
Given(units, doc) == [units |-> units, meaning |-> [doc |-> doc, commented |-> FALSE], calls |-> 3]
Commented(units, doc) == [units |-> units, meaning |-> [doc |-> doc, commented |-> TRUE], calls |-> 3]
u(code) == <<Backslash, 117, Hex(code)>>

MCTexts == {
  Given(<<239, 187, 191, 32, 91, 10, Number(1), 32, 13, 93>>, Items("array", <<Number1>>)),
  Given(Text(u(9) \o u(233) \o u(8364) \o u(55357) \o u(56832) \o <<Backslash, 47>>),
        Leaf("string", <<9, 195, 169, 226, 130, 172, 240, 159, 152, 128, 47>>)),
  Given(Text(u(55357) \o <<97>>), D!Nowhere),
  Given(Text(u(56832)), D!Nowhere),
  Given(Text(<<Backslash, 97>>), D!Nowhere),
  Given(<<91, Number(1), Comma, 93>>, D!Nowhere),
  Given(<<123>> \o Text(a) \o One \o <<125>>, D!Nowhere),
  Given(Array(<<Array(<<Array(<<Array(<<>>)>>)>>)>>),
        Items("array", <<Items("array", <<Items("array", <<Items("array", <<>>)>>)>>)>>)),
  Given(Object(<< <<a, Array(<<Array(<<NullText>>)>>)>> >>),
        Items("object", <<D!Named(Items("array", <<Items("array", <<Leaf("null", <<>>)>>)>>), a)>>)),
  Commented(<<47, 42, 34, 42, 47, 123, 9>> \o Text(<<32, Backslash, Quote>>) \o <<Colon, 32, 47, 47, 34, 10>> \o One \o <<125>>,
            Items("object", <<D!Named(Number1, <<32, Quote>>)>>)),
  Given(Array(<<Text(<<Backslash, Backslash>>), <<32, 34, 32, 34>> >>),
        Items("array", <<Leaf("string", <<Backslash>>), Leaf("string", <<32>>)>>)) }

MCNewItems == { Leaf("null", <<>>), Leaf("raw", One), Items("array", <<Number1, Number1>>) }

MCNames == {a, bigA}

\* Patches, those with regard to case apart.
Patch(op, path, from) == [op |-> op, path |-> path, from |-> from, sensitive |-> FALSE]
Sensitive(op, path, from) == [op |-> op, path |-> path, from |-> from, sensitive |-> TRUE]
MCPatches == {
  Sensitive("add", <<Slash>> \o a, NoName), Patch("add", <<Slash>> \o bigA, NoName), Patch("add", <<Slash, 49>>, NoName),
  Patch("add", <<Slash>> \o a \o <<Slash, 45>>, NoName), Patch("add", <<>>, NoName),
  Sensitive("replace", <<Slash>> \o a, NoName), Patch("replace", <<Slash, 48>>, NoName),
  Patch("remove", <<>>, NoName), Patch("remove", <<Slash>> \o bigA, NoName),
  Sensitive("remove", <<Slash>> \o a \o <<Slash>> \o b, NoName),
  Sensitive("copy", <<Slash>> \o b, <<Slash>> \o a), Sensitive("move", <<Slash>> \o a, <<Slash>> \o b),
  Patch("move", <<Slash>> \o a \o <<Slash>> \o b, <<Slash>> \o a), Patch("move", <<Slash, 51>>, <<Slash, 48>>),
  Sensitive("test", <<Slash>> \o a, NoName), Patch("test", <<>>, NoName) }
=============================================================================
