-------------------------------- MODULE Fifo --------------------------------
(***************************************************************************)
(* Bounded first-in first-out channels: what queues and ring buffers       *)
(* promise.  One step may put an item into each of several channels, and a *)
(* channel may be emptied at once.                                         *)
(***************************************************************************)
EXTENDS Naturals, Sequences

CONSTANTS Channel,
          Item,       \* what can be in a channel
          Capacity    \* Capacity[c]: how many of them

VARIABLE items

TypeOK == /\ items \in [Channel -> Seq(Item)]
          /\ \A c \in Channel : Len(items[c]) <= Capacity[c]

Init == items = [c \in Channel |-> <<>>]

\* new[c] is what goes into the channel c, for every c in the domain of new.
Put(new) ==
  /\ \A c \in DOMAIN new : Len(items[c]) < Capacity[c]
  /\ items' = [c \in Channel |->
                 IF c \in DOMAIN new THEN Append(items[c], new[c]) ELSE items[c]]

Get(c) == /\ items[c] # <<>>
          /\ items' = [items EXCEPT ![c] = Tail(@)]

Empty(c) == items' = [items EXCEPT ![c] = <<>>]

Next == \/ \E c \in Channel : Get(c) \/ Empty(c)
        \/ \E C \in SUBSET Channel : \E new \in [C -> Item] : Put(new)

Spec == Init /\ [][Next]_items
=============================================================================
