----------------------------- MODULE Documents -----------------------------
(***************************************************************************)
(* What the functions of cJSON.h and cJSON_Utils.h promise, said of the    *)
(* documents themselves: no nodes, no pointers, no sharing, no text.  docs *)
(* holds the documents that the application owns, each under the node that *)
(* is its root; meaning is what the text at hand stands for; call is the   *)
(* last call and its result.  A call has the effect given here, or, if it  *)
(* is excused, any.                                                        *)
(***************************************************************************)
EXTENDS Integers, Sequences, FiniteSets, SequencesExt

CONSTANTS Capacity, NestingLimit

VARIABLES docs, meaning, call

Null == 0
NoName == <<0>>

\* A document: its name is that of a member of an object; what is shared takes
\* the memory of one node.
Leaf(type, value) == [type |-> type, value |-> value, name |-> NoName, shared |-> FALSE, items |-> <<>>]
Named(t, name) == [t EXCEPT !.name = name]
IsObject(t) == t.type = "object"
IsContainer(t) == t.type \in {"array", "object"}

RECURSIVE Size(_)
Size(t) == IF t.shared THEN 1 ELSE 1 + FoldLeft(LAMBDA n, s : n + Size(s), 0, t.items)

RECURSIVE Depth(_)
Depth(t) == IF IsContainer(t) THEN 1 + Max({0} \cup {Depth(t.items[k]) : k \in DOMAIN t.items}) ELSE 0

\* All that lies in a document.
RECURSIVE Parts(_)
Parts(t) == {t} \cup UNION {Parts(t.items[k]) : k \in DOMAIN t.items}

RECURSIVE Unshared(_)
Unshared(t) == [t EXCEPT !.shared = FALSE, !.items = [k \in DOMAIN t.items |-> Unshared(t.items[k])]]

\* A piece of text given as it is stands for a number here.
RECURSIVE Printed(_)
Printed(t) == [Unshared(t) EXCEPT !.type = IF t.type = "raw" THEN "number" ELSE t.type,
                                  !.value = IF t.type = "raw" THEN <<t.value[1] - 100000>> ELSE t.value,
                                  !.items = [k \in DOMAIN t.items |-> Printed(t.items[k])]]

Lower(s) == [k \in DOMAIN s |-> IF s[k] \in 65 .. 90 THEN s[k] + 32 ELSE s[k]]
Case(name, sensitive) == IF sensitive THEN name ELSE Lower(name)

\* Two documents are the same if these are: the order of members does not matter.
RECURSIVE Value(_, _)
Value(t, sensitive) ==
  [type |-> t.type, value |-> t.value,
   items |-> {<<IF IsObject(t) THEN Case(t.items[k].name, sensitive) ELSE <<k>>,
                Value(t.items[k], sensitive)>> : k \in DOMAIN t.items}]
Same(t, u) == Value(t, TRUE) = Value(u, TRUE)

Free == Capacity - FoldLeft(LAMBDA n, r : n + Size(docs[r]), 0, SetToSeq(DOMAIN docs))

-----------------------------------------------------------------------------
(* Documents for which the promises are made                               *)

Members(t, name, sensitive) == {k \in DOMAIN t.items : Case(t.items[k].name, sensitive) = Case(name, sensitive)}
Distinct(t) ==   \* no two members have the same name, whatever their case
  \A s \in Parts(t) : IsObject(s) => \A k \in DOMAIN s.items : Members(s, s.items[k].name, FALSE) = {k}
NoCapitals(t) == \A s \in Parts(t) : Lower(s.name) = s.name
NoEscapes(t) == \A s \in Parts(t) : ToSet(s.name) \cap {47, 126} = {}
NoNulls(t) == \A s \in Parts(t) : IsObject(s) => \A k \in DOMAIN s.items : s.items[k].type # "null"
NoRaw(t) == \A s \in Parts(t) : s.type # "raw"
Valid(t) == \A s \in Parts(t) : s.type # "invalid"
Backslashed(s) == s # <<>> /\ Last(s) = 92
NoBackslash(t) == \A s \in Parts(t) : ~Backslashed(s.name) /\ ~(s.type = "string" /\ Backslashed(s.value))

-----------------------------------------------------------------------------
(* Edits                                                                   *)

At(t, path) == FoldLeft(LAMBDA s, k : s.items[k], t, path)

RECURSIVE Put(_, _, _)
Put(t, path, new) ==
  IF path = <<>> THEN new ELSE [t EXCEPT !.items[Head(path)] = Put(@, Tail(path), new)]

\* The members or elements of the container at path become items.
SetItems(t, path, items) == Put(t, path, [At(t, path) EXCEPT !.items = items])

\* The place an index or, if there is none, a name is at; 0 if nothing is there.
Place(t, index, name, sensitive) ==
  LET First(M) == IF M = {} THEN 0 ELSE Min(M)
  IN IF index = -1 THEN First(Members(t, name, sensitive))
     ELSE IF index < Len(t.items) THEN index + 1 ELSE 0

-----------------------------------------------------------------------------
(* JSON pointers and patches: RFC 6901 and RFC 6902                        *)

\* A path without its escapes, as a sequence of names.
Tokens(path) ==
  LET token(s, c) ==
        IF c = 47 THEN [s EXCEPT !.tokens = Append(@, <<>>)]
        ELSE IF s.tokens = <<>> THEN [s EXCEPT !.tokens = << <<c>> >>]
        ELSE LET t == Last(s.tokens)
                 add(u) == [s EXCEPT !.tokens[Len(s.tokens)] = u]
             IN IF t # <<>> /\ Last(t) = 126 /\ c = 48 THEN s
                ELSE IF t # <<>> /\ Last(t) = 126 /\ c = 49 THEN add(Append(Front(t), 47))
                ELSE add(Append(t, c))
  IN FoldLeft(token, [tokens |-> <<>>], path).tokens

IsIndex(token) ==
  /\ token # <<>> /\ ToSet(token) \subseteq 48 .. 57
  /\ Len(token) > 1 => token[1] # 48
IndexOf(token) == FoldLeft(LAMBDA n, c : 10 * n + (c - 48), 0, token)

StepTo(t, token, sensitive) ==
  IF IsObject(t) THEN Place(t, -1, token, sensitive)
  ELSE IF t.type = "array" /\ IsIndex(token) THEN Place(t, IndexOf(token), NoName, sensitive)
  ELSE 0

\* Where the tokens lead; <<0>> is nowhere.
RECURSIVE Resolve(_, _, _)
Resolve(t, tokens, sensitive) ==
  LET Below(k, rest) == IF rest = <<0>> THEN rest ELSE <<k>> \o rest
      From(k) == IF k = 0 THEN <<0>> ELSE Below(k, Resolve(t.items[k], Tail(tokens), sensitive))
  IN IF tokens = <<>> THEN <<>> ELSE From(StepTo(t, Head(tokens), sensitive))

Nowhere == Leaf("nowhere", <<>>)

Find(t, tokens, sensitive) ==
  LET To(path) == IF path = <<0>> THEN Nowhere ELSE At(t, path)
  IN To(Resolve(t, tokens, sensitive))

\* The document t without what lies at the path.
Cut(t, path) ==
  CASE path = <<0>> -> Nowhere
    [] path = <<>> -> Leaf("invalid", <<>>)
    [] OTHER -> SetItems(t, Front(path), RemoveAt(At(t, Front(path)).items, Last(path)))

Without(t, tokens, sensitive) == Cut(t, Resolve(t, tokens, sensitive))

\* The items of the container c once new is put at the token; <<Nowhere>> if it cannot be.
ItemsWith(c, token, new, sensitive) ==
  LET Set(old) == Append(IF old = 0 THEN c.items ELSE RemoveAt(c.items, old), Named(new, token))
  IN CASE IsObject(c) -> Set(Place(c, -1, token, sensitive))
       [] c.type = "array" /\ token = <<45>> -> Append(c.items, Named(new, NoName))
       [] c.type = "array" /\ IsIndex(token) /\ IndexOf(token) <= Len(c.items) ->
            InsertAt(c.items, IndexOf(token) + 1, Named(new, NoName))
       [] OTHER -> <<Nowhere>>

With(t, tokens, new, sensitive) ==
  LET Into(parent, items) == IF items = <<Nowhere>> THEN Nowhere ELSE SetItems(t, parent, items)
      To(parent) == IF parent = <<0>> THEN Nowhere
                    ELSE Into(parent, ItemsWith(At(t, parent), Last(tokens), new, sensitive))
  IN IF tokens = <<>> THEN new ELSE To(Resolve(t, Front(tokens), sensitive))

\* The document after the patch, or Nowhere if it does not apply.
Patched(t, p, value, sensitive) ==
  LET path == Tokens(p.path)
      from == Tokens(p.from)
      there == Find(t, IF p.op \in {"copy", "move"} THEN from ELSE path, sensitive)
      base == CASE p.op = "replace" -> Without(t, path, sensitive)
                [] p.op = "move" -> Without(t, from, sensitive)
                [] OTHER -> t
      new == CASE p.op = "copy" -> Unshared(there) [] p.op = "move" -> there [] OTHER -> value
  IN CASE p.op # "add" /\ there = Nowhere -> Nowhere
       [] p.op = "move" /\ IsStrictPrefix(from, path) -> Nowhere
       [] p.op = "test" /\ there # Nowhere ->
            IF Value(there, sensitive) = Value(value, sensitive) THEN t ELSE Nowhere
       [] p.op = "remove" /\ there # Nowhere -> Without(t, path, sensitive)
       [] OTHER -> With(base, path, new, sensitive)

\* RFC 7396.
RECURSIVE Merged(_, _, _)
Merged(t, p, sensitive) ==
  LET Set(s, m, old, rest) ==
        [s EXCEPT !.items = IF m.type = "null" THEN rest
                            ELSE Append(rest, Named(Merged(old, m, sensitive), m.name))]
      Member(s, m, k) == IF k = 0 THEN Set(s, m, Nowhere, s.items) ELSE Set(s, m, s.items[k], RemoveAt(s.items, k))
      Step(s, m) == Member(s, m, Place(s, -1, m.name, sensitive))
  IN IF IsObject(p) THEN FoldLeft(Step, IF IsObject(t) THEN t ELSE Leaf("object", <<>>), p.items)
     ELSE Unshared(p)

-----------------------------------------------------------------------------
(* The effect of each call                                                 *)

Others(R) == [r \in DOMAIN docs \ R |-> docs[r]]
Becomes(R, new) == docs' = new @@ Others(R)
Unchanged == docs' = docs

\* A new document, which there is unless there is no memory for it.
Makes(new, tree) ==
  \/ new \notin {Null} \cup DOMAIN docs /\ Becomes({}, new :> tree)
  \/ new = Null /\ Free < Size(tree) /\ Unchanged

Parses(c) ==
  IF c.cut \/ meaning.doc.type = "nowhere" \/ meaning.commented \/ Depth(meaning.doc) > NestingLimit
  THEN c.new = Null /\ Unchanged
  ELSE Makes(c.new, meaning.doc)

Container(c) == At(docs[c.root], c.at)
ItemFor(c, t) == Named(t, IF IsObject(Container(c)) THEN c.name ELSE NoName)
NowHolds(c, items) == c.root :> SetItems(docs[c.root], c.at, items)

Adds(c) == Becomes({c.root, c.item}, NowHolds(c, Append(Container(c).items, ItemFor(c, docs[c.item]))))
AddsIfFree(c, item) ==
  \/ c.ok /\ Becomes({c.root}, NowHolds(c, Append(Container(c).items, ItemFor(c, item))))
  \/ ~c.ok /\ Free < 1 /\ Unchanged
Inserts(c) ==
  LET items == Container(c).items
      k == IF c.index < Len(items) THEN c.index + 1 ELSE Len(items) + 1
  IN Becomes({c.root, c.item}, NowHolds(c, InsertAt(items, k, ItemFor(c, docs[c.item]))))

Replaces(c) ==
  LET From(k) == IF k = 0 THEN ~c.ok /\ Unchanged
                ELSE c.ok /\ Becomes({c.root, c.item},
                                     NowHolds(c, ReplaceAt(Container(c).items, k, ItemFor(c, docs[c.item]))))
  IN From(Place(Container(c), c.index, c.name, c.sensitive))

Detaches(c) ==
  LET rest(k) == NowHolds(c, RemoveAt(Container(c).items, k))
      item(k) == Named(Container(c).items[k], NoName)
      From(k) == IF k = 0 THEN c.new = Null /\ Unchanged
                 ELSE IF c.delete THEN Becomes({c.root}, rest(k))
                 ELSE c.new \notin {Null} \cup DOMAIN docs /\ Becomes({c.root}, rest(k) @@ c.new :> item(k))
  IN From(Place(Container(c), c.index, c.name, c.sensitive))

Duplicates(c) ==
  LET t == docs[c.root] IN Makes(c.new, Unshared(IF c.recurse THEN t ELSE [t EXCEPT !.items = <<>>]))

\* The documents in R hold what they held, in whatever order.
SameButForOrder(R) ==
  \A r \in R : Distinct(docs[r]) => Same(docs'[r], docs[r])

Sorts(c) == Others({c.root}) = [r \in DOMAIN docs' \ {c.root} |-> docs'[r]] /\ SameButForOrder({c.root})

Compares(c) ==
  /\ Unchanged
  /\ Distinct(docs[c.root]) /\ Distinct(docs[c.item]) /\ Valid(docs[c.root]) /\ Valid(docs[c.item]) =>
       c.same = (Value(docs[c.root], c.sensitive) = Value(docs[c.item], c.sensitive))

Finds(c) == Unchanged /\ (Distinct(docs[c.root]) => c.found = c.at)

\* A failed patch may have taken away what it was to replace or to move.
Patches(c) ==
  LET t == docs[c.root]
      value == IF c.item = Null THEN Nowhere ELSE docs[c.item]
      Exact ==
        /\ Distinct(t) /\ NoEscapes(t) /\ ToSet(c.patch.path) \cap {126} = {}
        /\ c.sensitive => NoCapitals(t) /\ ToSet(c.patch.path \o c.patch.from) \cap 65 .. 90 = {}
      left == {t} \cup {Without(t, Tokens(path), FALSE) : path \in {c.patch.path, c.patch.from}}
      Ends(new) ==
        \/ c.status = 0 /\ new # Nowhere /\ Same(docs'[c.root], new)
        \/ /\ c.status # 0 /\ (new = Nowhere \/ Free < Size(value) \/ Free < Size(t))
           /\ \E u \in left \ {Nowhere} : Same(docs'[c.root], u)
  IN /\ DOMAIN docs' = DOMAIN docs
     /\ \A r \in DOMAIN docs \ {c.root} : docs'[r] = docs[r] \/ (r = c.item /\ SameButForOrder({r}))
     /\ Exact => Ends(Patched(t, c.patch, value, c.sensitive))

\* What leads from one document to another leads there.
Diffs(c) ==
  LET promised == /\ \A r \in {c.from, c.to} : Distinct(docs[r]) /\ NoCapitals(docs[r]) /\ NoEscapes(docs[r]) /\ NoRaw(docs[r])
                  /\ Same(docs[c.root], docs[c.from])
                  /\ Free >= Size(docs[c.to])
  IN /\ DOMAIN docs' = DOMAIN docs
     /\ SameButForOrder({c.from, c.to} \ {c.root})
     /\ promised => c.status = 0 /\ Same(docs'[c.root], docs[c.to])

MakesMerge(c) ==
  LET promised == /\ \A r \in {c.from, c.to} : Distinct(docs[r]) /\ NoCapitals(docs[r]) /\ NoRaw(docs[r])
                  /\ NoNulls(docs[c.to])
  IN /\ DOMAIN docs' = DOMAIN docs \cup ({c.new} \ {Null})
     /\ SameButForOrder({c.from, c.to})
     /\ promised => Same(IF c.new = Null THEN docs[c.from] ELSE Merged(docs[c.from], docs'[c.new], TRUE),
                         docs[c.to])

Merges(c) ==
  /\ DOMAIN docs' = (DOMAIN docs \ {c.root}) \cup {c.new}
  /\ \A r \in DOMAIN docs \ {c.root} : docs'[r] = docs[r]
  /\ Distinct(docs[c.root]) /\ Distinct(docs[c.item]) =>
       Same(docs'[c.new], Merged(docs[c.root], docs[c.item], c.sensitive))

Prints(c) ==
  /\ Unchanged
  /\ IF Valid(docs[c.root]) THEN meaning' = [doc |-> Printed(docs[c.root]), commented |-> FALSE]
     ELSE UNCHANGED meaning

\* Comments and space do not mean anything; a text that a backslash confuses may.
Minifies(c) ==
  /\ Unchanged
  /\ meaning.doc.type # "nowhere" /\ NoBackslash(meaning.doc) => meaning' = [meaning EXCEPT !.commented = FALSE]

Effect(c) ==
  \/ c.op = "print" /\ Prints(c)
  \/ c.op = "minify" /\ Minifies(c)
  \/ /\ UNCHANGED meaning
     /\ \/ c.op = "print into" /\ Unchanged
        \/ c.op = "parse" /\ Parses(c)
        \/ c.op = "create" /\ Makes(c.new, c.tree)
        \/ c.op = "add" /\ Adds(c)
        \/ c.op = "refer" /\ AddsIfFree(c, [docs[c.item] EXCEPT !.shared = TRUE])
        \/ c.op = "add new" /\ AddsIfFree(c, c.tree)
        \/ c.op = "insert" /\ Inserts(c)
        \/ c.op = "replace" /\ Replaces(c)
        \/ c.op = "detach" /\ Detaches(c)
        \/ c.op = "delete" /\ docs' = Others({c.root})
        \/ c.op = "duplicate" /\ Duplicates(c)
        \/ c.op = "sort" /\ Sorts(c)
        \/ c.op = "compare" /\ Compares(c)
        \/ c.op = "find" /\ Finds(c)
        \/ c.op = "patch" /\ Patches(c)
        \/ c.op = "diff" /\ Diffs(c)
        \/ c.op = "make merge" /\ MakesMerge(c)
        \/ c.op = "merge" /\ Merges(c)

Init == DOMAIN docs \subseteq 1 .. Capacity /\ call.op = "none"
Next == call'.excused \/ Effect(call')
Spec == Init /\ [][Next]_<<docs, meaning, call>>
=============================================================================
