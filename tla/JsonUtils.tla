----------------------------- MODULE JsonUtils -----------------------------
(***************************************************************************)
(* source/json/cJSON_Utils.c: JSON pointers, patches and merge patches     *)
(* over the documents of JsonTree.  A pointer is a sequence of characters. *)
(* A list of patches is a sequence of records: what its operation, path    *)
(* and from are, and the node of its value.                                *)
(***************************************************************************)
EXTENDS JsonTree

Slash == 47
Tilde == 126

\* The character at position k from 0; what ends a string is a NUL.
At(s, k) == IF k < Len(s) THEN s[k + 1] ELSE 0

-----------------------------------------------------------------------------
(* Names and pointers                                                      *)

\* The sign of strcmp.
strcmp(s1, s2) ==
  LET Sign(D) == IF D = {} THEN 0 ELSE IF At(s1, Min(D)) < At(s2, Min(D)) THEN -1 ELSE 1
  IN Sign({k \in 0 .. Max({Len(s1), Len(s2)}) : At(s1, k) # At(s2, k)})

compare_strings(s1, s2, case_sensitive) ==
  LET Case(s) == IF case_sensitive THEN s ELSE Lower(s)
  IN IF s1 = NoName \/ s2 = NoName THEN 1 ELSE strcmp(Case(s1), Case(s2))

\* Whether the first token of the pointer is the name.
RECURSIVE compare_pointers(_, _, _)
compare_pointers(name, pointer, case_sensitive) ==
  LET n == At(name, 0)
      p == At(pointer, 0)
      escaped == CASE At(pointer, 1) = 48 -> Tilde [] At(pointer, 1) = 49 -> Slash [] OTHER -> 0
  IN IF name = NoName THEN FALSE
     ELSE IF n = 0 \/ p = 0 \/ p = Slash THEN n = 0 /\ p \in {0, Slash}
     ELSE IF p = Tilde THEN n = escaped /\ compare_pointers(Tail(name), Tail(Tail(pointer)), case_sensitive)
     ELSE /\ IF case_sensitive THEN n = p ELSE tolower(n) = tolower(p)
          /\ compare_pointers(Tail(name), Tail(pointer), case_sensitive)

encode_string_as_pointer(s) ==
  FlattenSeq([k \in DOMAIN s |-> CASE s[k] = Slash -> <<Tilde, 49>> [] s[k] = Tilde -> <<Tilde, 48>>
                                   [] OTHER -> <<s[k]>>])

\* An index as it is printed; arrays have up to ten elements.
PrintIndex(n) == <<48 + n>>

\* The pointer from object to target, or NoName.
RECURSIVE FindPointerFromObjectTo(_, _, _)
FindPointerFromObjectTo(h, object, target) ==
  LET c == Children(h, object)
      F == {k \in DOMAIN c : FindPointerFromObjectTo(h, c[k], target) # NoName}
      k == Min(F)
  IN IF object = target THEN <<>>
     ELSE IF F = {} THEN NoName
     ELSE <<Slash>> \o (IF h[object].type = "array" THEN PrintIndex(k - 1)
                        ELSE encode_string_as_pointer(h[c[k]].name))
                    \o FindPointerFromObjectTo(h, c[k], target)

\* The index, or -1.  Whatever is not below '0' counts as a digit if the first
\* character is not above '9'.
decode_array_index_from_pointer(pointer) ==
  LET Number(end) ==
        IF At(pointer, end) \notin {0, Slash} THEN -1
        ELSE FoldLeft(LAMBDA n, c : 10 * n + (c - 48), 0, SubSeq(pointer, 1, end))
  IN IF At(pointer, 0) = 48 /\ At(pointer, 1) \notin {0, Slash} THEN -1
     ELSE Number(Min({k \in 0 .. Len(pointer) : At(pointer, k) < 48 \/ At(pointer, 0) > 57}))

\* The element of the array that a pointer starts with.
ElementAt(h, array, pointer) ==
  LET Nth(index) == IF index = -1 THEN Null ELSE get_array_item(h, array, index)
  IN Nth(decode_array_index_from_pointer(pointer))

AfterToken(pointer) ==
  LET E == {k \in 0 .. Len(pointer) : At(pointer, k) \in {0, Slash}}
  IN SubSeq(pointer, Min(E) + 1, Len(pointer))

RECURSIVE get_item_from_pointer(_, _, _, _)
get_item_from_pointer(h, object, pointer, case_sensitive) ==
  LET rest == Tail(pointer)
      First(c, F) == IF F = {} THEN Null ELSE c[Min(F)]
      Member(c) == First(c, {k \in DOMAIN c : compare_pointers(h[c[k]].name, rest, case_sensitive)})
      next == CASE h[object].type = "array" -> ElementAt(h, object, rest)
                [] h[object].type = "object" -> Member(Children(h, object))
                [] OTHER -> Null
  IN IF At(pointer, 0) # Slash \/ object = Null THEN object
     ELSE get_item_from_pointer(h, next, AfterToken(rest), case_sensitive)

\* From position s of the string on, d is where the next character goes: only
\* escaped characters are moved, and '/' one too far.
RECURSIVE Decode(_, _, _)
Decode(string, d, s) ==
  IF s >= Len(string) THEN SubSeq(string, 1, d)
  ELSE IF string[s + 1] # Tilde THEN Decode(string, d + 1, s + 1)
  ELSE IF At(string, s + 1) = 48 THEN Decode([string EXCEPT ![d + 1] = Tilde], d + 1, s + 2)
  ELSE IF At(string, s + 1) = 49 THEN Decode([string EXCEPT ![d + 2] = Slash], d + 1, s + 2)
  ELSE string

decode_pointer_inplace(string) == Decode(string, 0, 0)

\* A path is split at its last '/'; without one there is no child.
NoChild(path) == Slash \notin ToSet(path)
LastSlash(path) == Max({k \in DOMAIN path : path[k] = Slash})
ParentPointer(path) == SubSeq(path, 1, LastSlash(path) - 1)
ChildPointer(path) == decode_pointer_inplace(SubSeq(path, LastSlash(path) + 1, Len(path)))

\* Members are found whatever their case.
detach_path(h, object, path, case_sensitive) ==
  LET Child(parent) ==
        CASE h[parent].type = "array" -> ElementAt(h, parent, ChildPointer(path))
          [] h[parent].type = "object" -> get_object_item(h, parent, ChildPointer(path), FALSE)
          [] OTHER -> Null
      Detach(parent, item) == [heap |-> cJSON_DetachItemViaPointer(h, parent, item), item |-> item]
      From(parent) == Detach(parent, Child(parent))
  IN IF NoChild(path) THEN [heap |-> h, item |-> Null]
     ELSE From(get_item_from_pointer(h, object, ParentPointer(path), case_sensitive))

-----------------------------------------------------------------------------
(* Sorting, and the comparison that sorts                                  *)

Ascending(h, c, case_sensitive) ==
  \A k \in 1 .. Len(c) - 1 : compare_strings(h[c[k]].name, h[c[k + 1]].name, case_sensitive) < 0

\* The merge of two lists after tail; the prev of its first node is not set.
RECURSIVE Merge(_, _, _, _, _)
Merge(h, tail, first, second, case_sensitive) ==
  LET Link(item) == IF tail = Null THEN h ELSE suffix_object(h, tail, item)
      Next(item) == Merge(Link(item), item, IF item = first THEN h[first].next ELSE first,
                          IF item = second THEN h[second].next ELSE second, case_sensitive)
  IN IF first = Null \/ second = Null THEN Link(IF first = Null THEN second ELSE first)
     ELSE Next(IF compare_strings(h[first].name, h[second].name, case_sensitive) < 0 THEN first ELSE second)

\* The heap and the first node of the sorted list.
RECURSIVE sort_list(_, _, _)
sort_list(h, list, case_sensitive) ==
  LET Cut(before, middle) ==
        IF before = Null THEN h ELSE Put(Put(h, before, "next", Null), middle, "prev", Null)
      Merged(first, second) ==
        [heap |-> Merge(second.heap, Null, first, second.list, case_sensitive),
         list |-> IF compare_strings(second.heap[first].name, second.heap[second.list].name, case_sensitive) < 0
                  THEN first ELSE second.list]
      SortSecond(first, middle) == Merged(first.list, sort_list(first.heap, middle, case_sensitive))
      Sort(middle) == SortSecond(sort_list(Cut(h[middle].prev, middle), list, case_sensitive), middle)
      Unless(c) == IF Ascending(h, c, case_sensitive) THEN [heap |-> h, list |-> list]
                   ELSE Sort(c[(Len(c) + 1) \div 2 + 1])
  IN Unless(Chain(h, list))

sort_object(h, object, case_sensitive) ==
  LET Below(sorted) == Put(sorted.heap, object, "child", sorted.list)
  IN IF object = Null THEN h ELSE Below(sort_list(h, h[object].child, case_sensitive))

\* What compare_json and create_patches do first.
SortBoth(h, a, b, case_sensitive) ==
  IF h[a].type = "object" THEN sort_object(sort_object(h, a, case_sensitive), b, case_sensitive) ELSE h

\* The heap, with what was compared sorted, and whether it was equal.
RECURSIVE compare_json(_, _, _, _)
compare_json(h, a, b, case_sensitive) ==
  LET type == h[a].type
      Walk(h1, ca, cb) ==
        LET Step(s, k) ==
              IF ~s.same THEN s
              ELSE IF type = "object" /\ compare_strings(h1[ca[k]].name, h1[cb[k]].name, case_sensitive) # 0
                   THEN [s EXCEPT !.same = FALSE]
              ELSE compare_json(s.heap, ca[k], cb[k], case_sensitive)
            walked == FoldLeft(Step, [heap |-> h1, same |-> TRUE], [k \in 1 .. Min({Len(ca), Len(cb)}) |-> k])
        IN [walked EXCEPT !.same = @ /\ Len(ca) = Len(cb)]
      Container(h1) == Walk(h1, Children(h1, a), Children(h1, b))
  IN IF a = Null \/ b = Null \/ type # h[b].type THEN [heap |-> h, same |-> FALSE]
     ELSE IF type \in {"number", "string"} THEN [heap |-> h, same |-> h[a].value = h[b].value]
     ELSE IF type \in {"array", "object"} THEN Container(SortBoth(h, a, b, case_sensitive))
     ELSE [heap |-> h, same |-> TRUE]

-----------------------------------------------------------------------------
(* Patches                                                                 *)

\* The place may be just after the last element, but no further.
CanInsert(h, array, which) == which <= Len(Children(h, array))

insert_item_in_array(h, array, which, newitem) ==
  InsertBefore(h, array, get_array_item(h, array, which), newitem)

overwrite_item(h, root, replacement) ==
  [cJSON_Delete(h, h[root].child) EXCEPT ![root] = replacement]

Status(h, status) == [heap |-> h, status |-> status]

\* The end of apply_patch: value goes to path, or is deleted.
AddAt(h, object, path, value, case_sensitive) ==
  LET child == ChildPointer(path)
      Fail(status) == Status(cJSON_Delete(h, value), status)
      Insert(parent, index) ==
        IF index = -1 THEN Fail(11)
        ELSE IF ~CanInsert(h, parent, index) THEN Fail(10)
        ELSE Status(insert_item_in_array(h, parent, index, value), 0)
      Freed(parent, old) == cJSON_Delete(cJSON_DetachItemViaPointer(h, parent, old), old)
      Set(parent) == add_item_to_object(Freed(parent, get_object_item(h, parent, child, case_sensitive)),
                                        parent, child, value)
      Into(parent) ==
        CASE h[parent].type = "array" /\ child = <<45>> -> Status(add_item_to_array(h, parent, value), 0)
          [] h[parent].type = "array" /\ child # <<45>> -> Insert(parent, decode_array_index_from_pointer(child))
          [] h[parent].type = "object" -> Status(Set(parent), 0)
          [] OTHER -> Fail(9)
  IN IF NoChild(path) THEN Fail(9)
     ELSE Into(get_item_from_pointer(h, object, ParentPointer(path), case_sensitive))

\* A duplicate d, if there is one, goes to path.
AddCopy(d, object, path, case_sensitive, nomemory) ==
  IF d.item = Null THEN Status(d.heap, nomemory) ELSE AddAt(d.heap, object, path, d.item, case_sensitive)

\* A duplicate d becomes the whole document.
BecomeCopy(d, object) ==
  IF d.item = Null THEN Status(d.heap, 8)
  ELSE Status([overwrite_item(d.heap, object, [d.heap[d.item] EXCEPT !.name = NoName]) EXCEPT ![d.item] = FreeNode], 0)

\* The end of an add or a replace.
PutValue(h, object, p, case_sensitive) ==
  IF p.value = Null THEN Status(h, 7)
  ELSE IF p.path = <<>> THEN BecomeCopy(cJSON_Duplicate(h, p.value, TRUE), object)
  ELSE AddCopy(cJSON_Duplicate(h, p.value, TRUE), object, p.path, case_sensitive, 8)

\* What the item at the path was is gone before its replacement is looked at.
Removed(old, object, p, case_sensitive) ==
  IF old.item = Null THEN Status(old.heap, 13)
  ELSE IF p.op = "remove" THEN Status(cJSON_Delete(old.heap, old.item), 0)
  ELSE PutValue(cJSON_Delete(old.heap, old.item), object, p, case_sensitive)

apply_patch(h, object, p, case_sensitive) ==
  LET Test(t) == Status(t.heap, IF t.same THEN 0 ELSE 1)
      Copy(source) == IF source = Null THEN Status(h, 5)
                      ELSE AddCopy(cJSON_Duplicate(h, source, TRUE), object, p.path, case_sensitive, 6)
      Move(m) == IF m.item = Null THEN Status(m.heap, 5) ELSE AddAt(m.heap, object, p.path, m.item, case_sensitive)
  IN CASE p.op = "test" -> Test(compare_json(h, get_item_from_pointer(h, object, p.path, case_sensitive),
                                             p.value, case_sensitive))
       [] p.op = "remove" /\ p.path = <<>> ->
            Status(overwrite_item(h, object, [FreeNode EXCEPT !.type = "invalid"]), 0)
       [] p.op = "add" \/ (p.op = "replace" /\ p.path = <<>>) -> PutValue(h, object, p, case_sensitive)
       [] p.op \in {"remove", "replace"} /\ p.path # <<>> ->
            Removed(detach_path(h, object, p.path, case_sensitive), object, p, case_sensitive)
       [] p.op \in {"copy", "move"} /\ p.from = NoName -> Status(h, 4)
       [] p.op = "copy" /\ p.from # NoName -> Copy(get_item_from_pointer(h, object, p.from, case_sensitive))
       [] p.op = "move" /\ p.from # NoName -> Move(detach_path(h, object, p.from, case_sensitive))

\* The patches before the first that fails stay applied.
ApplyPatches(h, object, patches, case_sensitive) ==
  FoldLeft(LAMBDA s, p : IF s.status = 0 THEN apply_patch(s.heap, object, p, case_sensitive) ELSE s,
           Status(h, 0), patches)

compose_patch(op, path, suffix, value) ==
  [op |-> op, from |-> NoName, value |-> value,
   path |-> IF suffix = NoName THEN path ELSE path \o <<Slash>> \o encode_string_as_pointer(suffix)]

\* The members of two sorted lists side by side: <<m, n>> if m and n have the
\* same name, <<m, Null>> or <<Null, n>> if one is alone.
RECURSIVE SideBySide(_, _, _, _)
SideBySide(h, m, n, case_sensitive) ==
  LET Then(diff) == << <<IF diff > 0 THEN Null ELSE Head(m), IF diff < 0 THEN Null ELSE Head(n)>> >>
                    \o SideBySide(h, IF diff > 0 THEN m ELSE Tail(m), IF diff < 0 THEN n ELSE Tail(n), case_sensitive)
  IN IF m = <<>> /\ n = <<>> THEN <<>>
     ELSE Then(CASE m = <<>> -> 1 [] n = <<>> -> -1
                 [] OTHER -> compare_strings(h[Head(m)].name, h[Head(n)].name, case_sensitive))

\* The heap, with both documents sorted, and the patches.
RECURSIVE create_patches(_, _, _, _, _)
create_patches(h, path, from, to, case_sensitive) ==
  LET replace == << compose_patch("replace", path, NoName, to) >>
      Both(s, made) == [heap |-> made.heap, patches |-> s.patches \o made.patches]
      Below(s, suffix, x, y) ==
        Both(s, create_patches(s.heap, path \o <<Slash>> \o encode_string_as_pointer(suffix), x, y, case_sensitive))
      Emit(s, p) == [s EXCEPT !.patches = Append(@, p)]
      Pair(s, x, y, suffix, added) ==
        IF y = Null THEN Emit(s, compose_patch("remove", path, suffix, Null))
        ELSE IF x = Null THEN Emit(s, compose_patch("add", path, added, y))
        ELSE Below(s, suffix, x, y)
      Elements(h1, f, t) ==   \* what is left of f is removed at the place where t ends
        LET Nth(c, k) == IF k \in DOMAIN c THEN c[k] ELSE Null
            Step(s, k) == Pair(s, Nth(f, k), Nth(t, k), PrintIndex(Min({k - 1, Len(t)})), <<45>>)
        IN FoldLeft(Step, [heap |-> h1, patches |-> <<>>], [k \in 1 .. Max({Len(f), Len(t)}) |-> k])
      Members(h1, pairs) ==
        LET Name(x, y) == h1[IF x = Null THEN y ELSE x].name
            Step(s, pair) == Pair(s, pair[1], pair[2], Name(pair[1], pair[2]), h1[pair[2]].name)
        IN FoldLeft(Step, [heap |-> h1, patches |-> <<>>], pairs)
      Object(h1) == Members(h1, SideBySide(h1, Children(h1, from), Children(h1, to), case_sensitive))
  IN CASE h[from].type # h[to].type -> [heap |-> h, patches |-> replace]
       [] h[from].type = h[to].type /\ h[from].type \in {"number", "string"} ->
            [heap |-> h, patches |-> IF h[from].value # h[to].value THEN replace ELSE <<>>]
       [] h[from].type = "array" /\ h[to].type = "array" -> Elements(h, Children(h, from), Children(h, to))
       [] h[from].type = "object" /\ h[to].type = "object" -> Object(SortBoth(h, from, to, case_sensitive))
       [] OTHER -> [heap |-> h, patches |-> <<>>]

GeneratePatches(h, from, to, case_sensitive) == create_patches(h, <<>>, from, to, case_sensitive)

-----------------------------------------------------------------------------
(* Merge patches                                                           *)

\* Without memory for a replacement the target is forgotten.
RECURSIVE merge_patch(_, _, _, _)
merge_patch(h, target, patch, case_sensitive) ==
  LET Add(s, name, new) ==
        IF new.item = Null THEN new ELSE [s EXCEPT !.heap = add_item_to_object(new.heap, s.item, name, new.item)]
      Without(s, p, old, detached) ==
        IF s.heap[p].type = "null" THEN [s EXCEPT !.heap = cJSON_Delete(detached, old)]
        ELSE Add(s, s.heap[p].name, merge_patch(detached, old, p, case_sensitive))
      Member(s, p, old) == Without(s, p, old, cJSON_DetachItemViaPointer(s.heap, s.item, old))
      Step(s, p) == IF s.item = Null THEN s
                    ELSE Member(s, p, get_object_item(s.heap, s.item, s.heap[p].name, case_sensitive))
      made == IF target # Null /\ h[target].type = "object" THEN [heap |-> h, item |-> target]
              ELSE Create(cJSON_Delete(h, target), "object", <<>>)
  IN IF patch = Null \/ h[patch].type # "object" THEN cJSON_Duplicate(cJSON_Delete(h, target), patch, TRUE)
     ELSE FoldLeft(Step, made, Children(h, patch))

\* Names are put in order without regard to case but compared with it, and so
\* is what lies below.
RECURSIVE generate_merge_patch(_, _, _, _)
generate_merge_patch(h, from, to, case_sensitive) ==
  LET Add(s, name, member) ==
        [s EXCEPT !.heap = add_item_to_object(member.heap, s.item, name, member.item)]
      Differ(s, f, t, compared) ==
        IF compared.same THEN [s EXCEPT !.heap = compared.heap]
        ELSE Add(s, s.heap[t].name, generate_merge_patch(compared.heap, f, t, FALSE))
      Step(s, pair) ==
        CASE pair[2] = Null -> Add(s, s.heap[pair[1]].name, Create(s.heap, "null", <<>>))
          [] pair[1] = Null -> Add(s, s.heap[pair[2]].name, cJSON_Duplicate(s.heap, pair[2], TRUE))
          [] OTHER -> Differ(s, pair[1], pair[2], compare_json(s.heap, pair[1], pair[2], case_sensitive))
      Members(made) ==
        FoldLeft(Step, made, SideBySide(made.heap, Children(made.heap, from), Children(made.heap, to), TRUE))
      Done(s) == IF s.heap[s.item].child = Null THEN [heap |-> cJSON_Delete(s.heap, s.item), item |-> Null] ELSE s
      sorted == sort_object(sort_object(h, from, case_sensitive), to, case_sensitive)
  IN IF to = Null THEN Create(h, "null", <<>>)
     ELSE IF h[to].type # "object" \/ h[from].type # "object" THEN cJSON_Duplicate(h, to, TRUE)
     ELSE Done(Members(Create(sorted, "object", <<>>)))
=============================================================================
