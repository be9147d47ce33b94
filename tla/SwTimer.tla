------------------------------ MODULE SwTimer ------------------------------
(***************************************************************************)
(* source/cutils/swtimer.c: a software timer.  A thread of its own waits   *)
(* until the timer is started, waits for the period less what the last     *)
(* callback took, and calls back with the lock held.  Threads of the       *)
(* application start, stop and destroy the timer.                          *)
(*                                                                         *)
(* Time is what is left of the wait (wait) and what has passed since the   *)
(* callback began (now) and since the period began (age): no clock is      *)
(* needed, and the state space is finite without a bound on time.  A       *)
(* condition variable is the place the thread is at: a signal, and a wake- *)
(* up for no reason, take it out of there; it has the lock again later.    *)
(* The lock is held from one step to the next only in the callback.        *)
(***************************************************************************)
EXTENDS Integers

CONSTANTS
  Periods,    \* the periods a timer is created with, in ticks
  MaxCost     \* bound: the ticks a callback takes

ASSUME ConstantsAssumption ==
  /\ Periods \subseteq Nat
  /\ MaxCost \in Nat

VARIABLES
  \* struct swtimer
  started, threadExit, period, reload,
  \* the thread: where it is, its locals; now is the time since it read the clock
  tpc, escape, wait, now,
  \* swtimer_destroy: not called, in its join, returned
  closing,
  \* history: time since the last callback began, up to the period, and whether
  \* somebody has called, or the wait has ended for no reason, since then
  age, touched

attr  == <<period, reload>>
vars  == <<started, threadExit, period, reload, tpc, escape, wait, now,
           closing, age, touched>>

Tpc == {"test", "lock", "wait_start", "wait_period", "relock", "callback", "left"}

Init ==
  /\ started = FALSE /\ threadExit = FALSE
  /\ period \in Periods /\ reload \in BOOLEAN
  /\ tpc = "test" /\ escape = 0 /\ wait = 0 /\ now = 0
  /\ closing = "no"
  /\ age = 0 /\ touched = TRUE

-----------------------------------------------------------------------------
(* The timer thread                                                        *)

\* The test of thread_exit, without the lock.
LoopTest ==
  /\ tpc = "test"
  /\ tpc' = IF threadExit THEN "left" ELSE "lock"
  /\ UNCHANGED <<started, threadExit, attr, escape, wait, now, closing, age, touched>>

\* Mutant: the exit flag is not looked at once the timer is waited for.
LoopLocked_Mutant ==
  /\ tpc = "lock"
  /\ \/ ~started /\ tpc' = "wait_start" /\ UNCHANGED wait
     \/ started /\ tpc' = "wait_period" /\ wait' = period - escape
  /\ UNCHANGED <<started, threadExit, attr, escape, now, closing, age, touched>>

\* With the lock: the wait for a start or an exit, the exit, or the wait for
\* what is left of the period.
LoopLocked ==
  /\ tpc = "lock"
  /\ \/ ~started /\ ~threadExit /\ tpc' = "wait_start" /\ UNCHANGED wait
     \/ threadExit /\ tpc' = "left" /\ UNCHANGED wait
     \/ started /\ ~threadExit /\ tpc' = "wait_period" /\ wait' = period - escape
  /\ UNCHANGED <<started, threadExit, attr, escape, now, closing, age, touched>>

\* The wait for the period is over.
WaitEnds ==
  /\ tpc = "wait_period" /\ wait = 0
  /\ tpc' = "relock"
  /\ UNCHANGED <<started, threadExit, attr, escape, wait, now, closing, age, touched>>

\* A wait ends for no reason.
SpuriousWakeUp ==
  /\ \/ tpc = "wait_start" /\ tpc' = "lock"
     \/ tpc = "wait_period" /\ tpc' = "relock"
  /\ touched' = TRUE
  /\ UNCHANGED <<started, threadExit, attr, escape, wait, now, closing, age>>

\* Mutant: the clock is read once, before the first callback.
Expire_Mutant ==
  /\ tpc = "relock" /\ started
  /\ tpc' = "callback"
  /\ age' = 0 /\ touched' = FALSE
  /\ UNCHANGED <<started, threadExit, attr, escape, wait, now, closing>>

\* The callback begins, if the timer is still started.
Expire ==
  /\ tpc = "relock" /\ started
  /\ tpc' = "callback" /\ now' = 0
  /\ age' = 0 /\ touched' = FALSE
  /\ UNCHANGED <<started, threadExit, attr, escape, wait, closing>>

\* The timer was stopped while the thread waited.
Stopped ==
  /\ tpc = "relock" /\ ~started
  /\ tpc' = "test" /\ escape' = 0
  /\ UNCHANGED <<started, threadExit, attr, wait, now, closing, age, touched>>

\* Mutant: a callback that is too slow stops the timer and leaves its time behind.
CallbackEnds_Mutant ==
  /\ tpc = "callback" /\ tpc' = "test"
  /\ IF reload
     THEN started' = (now < period) /\ escape' = now
     ELSE started' = FALSE /\ escape' = 0
  /\ UNCHANGED <<threadExit, attr, wait, now, closing, age, touched>>

\* The callback returns: a timer that does not reload, or whose callback took
\* the whole period, is stopped.
CallbackEnds ==
  /\ tpc = "callback" /\ tpc' = "test"
  /\ IF reload /\ now < period
     THEN escape' = now /\ UNCHANGED started
     ELSE started' = FALSE /\ escape' = 0
  /\ UNCHANGED <<threadExit, attr, wait, now, closing, age, touched>>

\* Time passes.  A callback returns within MaxCost.
Tick ==
  /\ tpc # "left"
  /\ tpc = "callback" => now < MaxCost
  /\ wait' = IF tpc = "wait_period" /\ wait > 0 THEN wait - 1 ELSE wait
  /\ now' = IF tpc = "callback" THEN now + 1 ELSE now
  /\ age' = IF age < period THEN age + 1 ELSE age
  /\ UNCHANGED <<started, threadExit, attr, tpc, escape, closing, touched>>

-----------------------------------------------------------------------------
(* The API.  No call is made from the callback, where it would wait for the *)
(* lock its own thread holds, and none once swtimer_destroy was called.     *)

\* Mutant: a signal only for a thread that waits for the period.
Signal_Mutant == tpc' = IF tpc = "wait_period" THEN "relock" ELSE tpc

\* os_cond_signal: the thread stops waiting, if it waits.
Signal == tpc' = CASE tpc = "wait_start"  -> "lock"
                   [] tpc = "wait_period" -> "relock"
                   [] OTHER               -> tpc

MayCall == closing = "no" /\ tpc # "callback"

swtimer_start ==
  /\ MayCall
  /\ started' = TRUE /\ Signal /\ touched' = TRUE
  /\ UNCHANGED <<threadExit, attr, escape, wait, now, closing, age>>

swtimer_stop ==
  /\ MayCall
  /\ started' = FALSE /\ Signal /\ touched' = TRUE
  /\ UNCHANGED <<threadExit, attr, escape, wait, now, closing, age>>

\* swtimer_destroy up to the join.
swtimer_destroy ==
  /\ MayCall
  /\ started' = FALSE /\ threadExit' = TRUE /\ Signal /\ touched' = TRUE
  /\ closing' = "join"
  /\ UNCHANGED <<attr, escape, wait, now, age>>

\* The thread has been joined, the timer is freed.
Join ==
  /\ closing = "join" /\ tpc = "left"
  /\ closing' = "freed"
  /\ UNCHANGED <<started, threadExit, attr, tpc, escape, wait, now, age, touched>>

-----------------------------------------------------------------------------
Thread == LoopTest \/ LoopLocked \/ WaitEnds \/ Expire \/ Stopped \/ CallbackEnds

Next == \/ Thread
        \/ SpuriousWakeUp
        \/ Tick
        \/ swtimer_start
        \/ swtimer_stop
        \/ swtimer_destroy
        \/ Join

Spec == Init /\ [][Next]_vars

\* The thread runs, its callbacks return, time passes, a join returns when the
\* thread has left.  Nobody need call anything and no wait need end early.
FairSpec == Spec /\ WF_vars(Thread) /\ WF_vars(Tick) /\ WF_vars(Join)

-----------------------------------------------------------------------------
(* Properties                                                              *)

\* Types.  That the wait is a natural number is the point: the period less the
\* time of the last callback (swtimer.c:62) is a subtraction of unsigned numbers,
\* and below zero the thread would sleep for ever.
TypeOK ==
  /\ started \in BOOLEAN /\ threadExit \in BOOLEAN
  /\ period \in Periods /\ reload \in BOOLEAN
  /\ tpc \in Tpc
  /\ escape \in Nat /\ wait \in Nat /\ now \in 0..MaxCost
  /\ closing \in {"no", "join", "freed"}
  /\ age \in Nat /\ touched \in BOOLEAN

\* A callback begins at least a period after the one before, however long that
\* one took, unless in between the timer was started or stopped or the wait
\* ended for no reason: swtimer_thread_entry waits once, without a loop.
OnTime == [][tpc # "callback" /\ tpc' = "callback" => touched \/ age >= period]_vars

\* swtimer_destroy returns, wherever the thread is when it is called.
DestroyReturns == closing = "join" ~> closing = "freed"

\* A timer that is started calls back, or is stopped.
ExpiresOrIsStopped == started ~> (tpc = "callback" \/ ~started)
=============================================================================
