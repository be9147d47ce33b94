------------------------------ MODULE JsonList ------------------------------
(***************************************************************************)
(* source/json/cJSON.c: the lists of a document.  A node is a struct       *)
(* cJSON; a list of siblings is linked both ways, except that the prev of  *)
(* its first node is its last one.  The operators take the heap and return *)
(* what it is afterwards.                                                  *)
(***************************************************************************)
EXTENDS Integers, Sequences, FiniteSets

Null == 0
NoName == <<0>>

FreeNode == [type |-> "free", ref |-> FALSE, name |-> NoName, value |-> <<>>,
             child |-> Null, prev |-> Null, next |-> Null]

\* The children of p are c, linked as the functions expect it ...
IsList(h, p, c) ==
  /\ h[p].child = IF c = <<>> THEN Null ELSE c[1]
  /\ \A k \in 1 .. Len(c) : h[c[k]].next = IF k = Len(c) THEN Null ELSE c[k + 1]
  /\ \A k \in 2 .. Len(c) : h[c[k]].prev = c[k - 1]

\* ... and the last one is found from the first.
LastKnown(h, c) == c # <<>> => h[c[1]].prev = c[Len(c)]

-----------------------------------------------------------------------------
(* Walking over lists                                                      *)

\* The node and those that follow it; no list has more than there are.
Chain(h, first) ==
  LET chain[n \in 0 .. Cardinality(DOMAIN h)] ==
        [i \in DOMAIN h |-> IF n = 0 \/ i = Null THEN <<>> ELSE <<i>> \o chain[n - 1][h[i].next]]
  IN chain[Cardinality(DOMAIN h)][first]

\* What cJSON_ArrayForEach and cJSON_GetArraySize walk over.
Children(h, p) == Chain(h, h[p].child)

get_array_item(h, array, index) ==
  LET Nth(c) == IF index < Len(c) THEN c[index + 1] ELSE Null
  IN IF array = Null THEN Null ELSE Nth(Children(h, array))

-----------------------------------------------------------------------------
(* Changing lists                                                          *)

\* The assignment i->field = v, which leaves a mark if i is NULL.
Put(h, i, field, v) ==
  [h EXCEPT ![i] = IF i = Null THEN [@ EXCEPT !.type = "written"] ELSE [@ EXCEPT ![field] = v]]
PutIf(condition, h, i, field, v) == IF condition THEN Put(h, i, field, v) ELSE h

suffix_object(h, prev, item) == Put(Put(h, prev, "next", item), item, "prev", prev)

\* If the first child has no prev nothing is appended.
add_item_to_array(h, array, item) ==
  LET child == h[array].child IN
  IF item = Null \/ array = Null \/ array = item THEN h
  ELSE IF child = Null
       THEN Put(Put(Put(h, array, "child", item), item, "prev", item), item, "next", Null)
  ELSE IF h[child].prev = Null THEN h
  ELSE Put(suffix_object(h, h[child].prev, item), child, "prev", item)

add_item_to_object(h, object, name, item) ==
  IF object = Null \/ item = Null \/ object = item THEN h
  ELSE add_item_to_array(Put(h, item, "name", name), object, item)

cJSON_DetachItemViaPointer_Mutant(h, parent, item) ==
  LET child == h[parent].child
      next == h[item].next
      h1 == PutIf(item # child, h, h[item].prev, "next", next)
      h2 == PutIf(next # Null, h1, next, "prev", h[item].prev)
      h3 == PutIf(item = child, h2, parent, "child", next)
  IN IF parent = Null \/ item = Null THEN h
     ELSE Put(Put(h3, item, "prev", Null), item, "next", Null)

cJSON_DetachItemViaPointer(h, parent, item) ==
  LET child == h[parent].child
      next == h[item].next
      h1 == PutIf(item # child, h, h[item].prev, "next", next)
      h2 == PutIf(next # Null, h1, next, "prev", h[item].prev)
      h3 == PutIf(item = child, h2, parent, "child", next)
      h4 == PutIf(item # child /\ next = Null, h3, child, "prev", h[item].prev)
  IN IF parent = Null \/ item = Null THEN h
     ELSE Put(Put(h4, item, "prev", Null), item, "next", Null)

\* An index past the end appends.
InsertBefore_Mutant(h, array, after, newitem) ==
  LET prev == h[after].prev
      h1 == Put(Put(Put(h, newitem, "next", after), newitem, "prev", prev), after, "prev", newitem)
  IN IF after = Null THEN add_item_to_array(h, array, newitem)
     ELSE PutIf(after = h[array].child, h1, array, "child", newitem)

InsertBefore(h, array, after, newitem) ==
  LET prev == h[after].prev
      h1 == Put(Put(Put(h, newitem, "next", after), newitem, "prev", prev), after, "prev", newitem)
      first == after = h[array].child
  IN IF after = Null THEN add_item_to_array(h, array, newitem)
     ELSE Put(h1, IF first THEN array ELSE prev, IF first THEN "child" ELSE "next", newitem)

cJSON_InsertItemInArray(h, array, which, newitem) ==
  InsertBefore(h, array, get_array_item(h, array, which), newitem)

\* The replacement takes the place of the item, which has none then.
TakePlace(h, parent, item, replacement) ==
  LET child == h[parent].child
      next == h[item].next
      prev == h[item].prev
      h1 == Put(Put(h, replacement, "next", next), replacement, "prev", prev)
      h2 == PutIf(next # Null, h1, next, "prev", replacement)
      h3 == PutIf(child = item /\ prev = child, h2, replacement, "prev", replacement)
      h4 == PutIf(child = item, h3, parent, "child", replacement)
      h5 == PutIf(child # item /\ prev # Null, h4, prev, "next", replacement)
      h6 == PutIf(child # item /\ next = Null, h5, child, "prev", replacement)
  IN Put(Put(h6, item, "next", Null), item, "prev", Null)
=============================================================================
