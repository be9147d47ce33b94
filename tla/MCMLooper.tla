----------------------------- MODULE MCMLooper -----------------------------
(***************************************************************************)
(* MLooper on small instances.  m1 has no timeout, m2 one that a delayed   *)
(* post of it or a slow looper exceeds, m3 has no handler.                 *)
(***************************************************************************)
EXTENDS MLooper, TLC

CONSTANTS c1, c2, m1, m2, m3

MCWhatOf == (m1 :> 1) @@ [m \in Msg \ {m1} |-> 2]
MCTimeoutOf == [m \in Msg |-> IF m = m2 THEN 1 ELSE 0]
Clients == Permutations({c1, c2})

MCHandled == Msg \ {m3}

=============================================================================
