----------------------------- MODULE DelayQueue -----------------------------
(***************************************************************************)
(* What mlooper promises its users, without list, locks or condition       *)
(* variable: a box of pending messages, each with a due time.  A message   *)
(* enters the box once.  It leaves it either by being delivered, which     *)
(* needs its due time to have come and no pending message to be due        *)
(* before it, or by being dropped.  A message being delivered is owned by  *)
(* the single delivery thread, which finishes with it before it delivers   *)
(* the next one.                                                           *)
(***************************************************************************)
EXTENDS Naturals

CONSTANTS Msg,       \* the messages
          None       \* no message is being delivered

VARIABLES clock,     \* the monotonic clock
          pending,   \* the messages in the box
          due,       \* due[m]: the time before which m is not delivered
          current,   \* the message being delivered, or None
          gone       \* the messages that are finished, one way or the other

vars == <<clock, pending, due, current, gone>>

TypeOK == /\ clock \in Nat
          /\ pending \subseteq Msg
          /\ due \in [Msg -> Nat]
          /\ current \in Msg \cup {None}
          /\ gone \subseteq Msg

Init == /\ clock = 0
        /\ pending = {}
        /\ due = [m \in Msg |-> 0]
        /\ current = None
        /\ gone = {}

Fresh(m) == m \notin pending \cup gone \cup {current}

Reschedule(m) == /\ due' \in [Msg -> Nat]
                 /\ \A x \in Msg \ {m} : due'[x] = due[x]

\* Time passes.
Tick == /\ clock' = clock + 1
        /\ UNCHANGED <<pending, due, current, gone>>

\* The due time of a message is chosen before it enters the box.
Schedule(m) == /\ Fresh(m)
               /\ Reschedule(m)
               /\ UNCHANGED <<clock, pending, current, gone>>

\* A message enters the box; one that is put in front may lower its due time.
Accept(m) == /\ Fresh(m)
             /\ pending' = pending \cup {m}
             /\ Reschedule(m)
             /\ due'[m] <= due[m]
             /\ UNCHANGED <<clock, current, gone>>

\* A message is refused without entering the box.
Refuse(m) == /\ Fresh(m)
             /\ gone' = gone \cup {m}
             /\ Reschedule(m)
             /\ UNCHANGED <<clock, pending, current>>

\* The earliest message is taken out of the box, never before its due time.
Deliver(m) == /\ current = None
              /\ m \in pending
              /\ due[m] <= clock
              /\ \A x \in pending : due[m] <= due[x]
              /\ pending' = pending \ {m}
              /\ current' = m
              /\ UNCHANGED <<clock, due, gone>>

\* The delivery thread is done with its message.
Finish == /\ current # None
          /\ gone' = gone \cup {current}
          /\ current' = None
          /\ UNCHANGED <<clock, pending, due>>

\* A pending message is removed or cleared.
Drop(m) == /\ m \in pending
           /\ pending' = pending \ {m}
           /\ gone' = gone \cup {m}
           /\ UNCHANGED <<clock, due, current>>

Next == \/ Tick
        \/ Finish
        \/ \E m \in Msg : \/ Schedule(m)
                          \/ Accept(m)
                          \/ Refuse(m)
                          \/ Deliver(m)
                          \/ Drop(m)

Spec == Init /\ [][Next]_vars
=============================================================================
