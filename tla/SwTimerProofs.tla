--------------------------- MODULE SwTimerProofs ---------------------------
(***************************************************************************)
(* That the timer of SwTimer never waits for less than no time, and never  *)
(* calls back early on its own: for all periods and all costs of a         *)
(* callback.                                                               *)
(***************************************************************************)
EXTENDS SwTimer, TLAPS

\* What the last callback took is less than the period, or nothing.
EscapeInv == escape <= period

\* Unless somebody has called since: what has passed since the last callback
\* began is what the callback has taken, then at least the escape, then the
\* period less what is left of the wait, and in the end the period.
AgeInv ==
  ~touched =>
    /\ tpc = "callback" => age >= now \/ age >= period
    /\ tpc \in {"test", "lock"} /\ started => age >= escape
    /\ tpc = "wait_period" => age + wait >= period
    /\ tpc = "relock" => age >= period

IInv == TypeOK /\ EscapeInv /\ AgeInv

-----------------------------------------------------------------------------
\* A timer that was never started has nothing to account for.
LEMMA InitInv == Init => IInv
<1> SUFFICES ASSUME Init PROVE IInv
  OBVIOUS
<1> USE DEF Init
<1>1. period \in Nat /\ 0 \in 0..MaxCost
  BY ConstantsAssumption
<1>2. TypeOK
  BY <1>1 DEF TypeOK, Tpc
<1>3. EscapeInv /\ AgeInv
  BY <1>1 DEF EscapeInv, AgeInv
<1> QED
  BY <1>2, <1>3 DEF IInv

\* The steps of the thread: only LoopLocked subtracts, only CallbackEnds sets
\* the escape.
LEMMA ThreadInv == IInv /\ Thread => IInv'
<1> SUFFICES ASSUME IInv, Thread PROVE IInv'
  OBVIOUS
<1> USE ConstantsAssumption DEF IInv, TypeOK, EscapeInv, AgeInv, Tpc, attr
<1>1. CASE LoopTest
  BY <1>1 DEF LoopTest
<1>2. CASE LoopLocked
  <2>1. CASE started /\ ~threadExit /\ tpc' = "wait_period" /\ wait' = period - escape
    <3>1. wait' \in Nat /\ escape + wait' = period
      BY <1>2, <2>1 DEF LoopLocked
    <3> QED
      BY <1>2, <2>1, <3>1 DEF LoopLocked
  <2>2. CASE tpc' \in {"wait_start", "left"} /\ UNCHANGED wait
    BY <1>2, <2>2 DEF LoopLocked
  <2> QED
    BY <1>2, <2>1, <2>2 DEF LoopLocked
<1>3. CASE WaitEnds
  BY <1>3 DEF WaitEnds
<1>4. CASE Expire
  <2>1. 0 \in 0..MaxCost
    OBVIOUS
  <2>2. TypeOK' /\ EscapeInv'
    BY <1>4, <2>1 DEF Expire
  <2>3. age' >= now' /\ tpc' = "callback"
    BY <1>4 DEF Expire
  <2> QED
    BY <2>2, <2>3
<1>5. CASE Stopped
  BY <1>5 DEF Stopped
<1>6. CASE CallbackEnds
  <2>1. now \in Nat /\ period \in Nat
    OBVIOUS
  <2>2. CASE reload /\ now < period
    <3>1. escape' = now /\ UNCHANGED started
      BY <1>6, <2>2 DEF CallbackEnds
    <3>2. ~touched => age >= now
      BY <1>6, <2>1, <2>2 DEF CallbackEnds
    <3> QED
      BY <1>6, <2>1, <2>2, <3>1, <3>2 DEF CallbackEnds
  <2>3. CASE ~(reload /\ now < period)
    <3>1. escape' = 0 /\ started' = FALSE
      BY <1>6, <2>3 DEF CallbackEnds
    <3>2. UNCHANGED <<threadExit, period, reload, wait, now, closing, age, touched>>
      BY <1>6 DEF CallbackEnds
    <3>3. TypeOK' /\ EscapeInv'
      <4>1. 0 <= period
        BY <2>1
      <4>2. TypeOK'
        BY <1>6, <3>1, <3>2 DEF CallbackEnds
      <4> QED
        BY <3>1, <3>2, <4>1, <4>2
    <3>4. tpc' = "test" /\ ~started'
      BY <1>6, <3>1 DEF CallbackEnds
    <3> QED
      BY <3>3, <3>4
  <2> QED
    BY <2>2, <2>3
<1> QED
  BY <1>1, <1>2, <1>3, <1>4, <1>5, <1>6 DEF Thread

\* The calls and a wake-up for no reason leave a mark.
LEMMA CallsInv ==
  IInv /\ (swtimer_start \/ swtimer_stop \/ swtimer_destroy \/ Join \/ SpuriousWakeUp) => IInv'
<1> SUFFICES ASSUME IInv, swtimer_start \/ swtimer_stop \/ swtimer_destroy \/ Join \/ SpuriousWakeUp
             PROVE  IInv'
  OBVIOUS
<1> USE DEF IInv, TypeOK, EscapeInv, AgeInv, Tpc, attr
<1>1. tpc' \in Tpc
  BY DEF swtimer_start, swtimer_stop, swtimer_destroy, Join, SpuriousWakeUp, Signal
<1>2. CASE Join
  BY <1>2 DEF Join
<1>3. CASE SpuriousWakeUp
  BY <1>1, <1>3 DEF SpuriousWakeUp
<1>4. CASE swtimer_start \/ swtimer_stop \/ swtimer_destroy
  BY <1>1, <1>4 DEF swtimer_start, swtimer_stop, swtimer_destroy
<1> QED
  BY <1>2, <1>3, <1>4

\* Age and wait add up to the period still when one has passed to the other.
LEMMA AgeMakesUp ==
  ASSUME NEW p \in Nat, NEW a \in Nat, NEW w \in Nat, NEW a1 \in Nat, NEW w1 \in Nat,
         a + w >= p, w1 + 1 >= w, a1 = a + 1 \/ a1 >= p
  PROVE  a1 + w1 >= p
  OBVIOUS

\* Time makes up in age what it takes from the wait.
LEMMA TickInv == IInv /\ Tick => IInv'
<1> SUFFICES ASSUME IInv, Tick PROVE IInv'
  OBVIOUS
<1> USE ConstantsAssumption DEF IInv, TypeOK, EscapeInv, AgeInv, Tpc, attr
<1>1. age' \in Nat /\ age' >= age /\ (age' = age + 1 \/ age' >= period)
  BY DEF Tick
<1>2. wait' \in Nat /\ wait' + 1 >= wait
  BY DEF Tick
<1>3. now' \in 0..MaxCost /\ now' <= now + 1
  BY DEF Tick
<1>4. UNCHANGED <<started, threadExit, attr, tpc, escape, closing, touched>>
  BY DEF Tick
<1>5. TypeOK' /\ EscapeInv'
  BY <1>1, <1>2, <1>3, <1>4
<1>6. ASSUME ~touched', tpc' = "callback" PROVE age' >= now' \/ age' >= period'
  BY <1>1, <1>3, <1>4, <1>6
<1>7. ASSUME ~touched', tpc' \in {"test", "lock"}, started' PROVE age' >= escape'
  BY <1>1, <1>4, <1>7
<1>8. ASSUME ~touched', tpc' = "wait_period" PROVE age' + wait' >= period'
  <2>1. period \in Nat /\ age + wait >= period /\ period' = period
    BY <1>4, <1>8
  <2>2. age \in Nat /\ wait \in Nat
    OBVIOUS
  <2> QED
    BY <1>1, <1>2, <2>1, <2>2, AgeMakesUp
<1>9. ASSUME ~touched', tpc' = "relock" PROVE age' >= period'
  BY <1>1, <1>4, <1>9
<1> QED
  BY <1>5, <1>6, <1>7, <1>8, <1>9

\* The types, the bound of the escape and the account of time hold of every
\* behaviour of the timer.
THEOREM Invariance == Spec => []IInv
<1>1. IInv /\ [Next]_vars => IInv'
  <2> SUFFICES ASSUME IInv, [Next]_vars PROVE IInv'
    OBVIOUS
  <2>1. CASE Next
    BY <2>1, ThreadInv, CallsInv, TickInv DEF Next
  <2>2. CASE UNCHANGED vars
    BY <2>2 DEF vars, IInv, TypeOK, EscapeInv, AgeInv, attr
  <2> QED
    BY <2>1, <2>2
<1> QED
  BY InitInv, <1>1, PTL DEF Spec

\* The unsigned subtraction of swtimer.c:62 does not wrap, whatever the period
\* and however slow the callback: the wait is a natural number.
THEOREM TypeCorrect == Spec => []TypeOK
<1>1. IInv => TypeOK
  BY DEF IInv
<1> QED
  BY Invariance, <1>1, PTL

\* A callback never begins early on the timer's own account.
THEOREM CallbacksOnTime == Spec => OnTime
<1>1. IInv /\ [Next]_vars => [tpc # "callback" /\ tpc' = "callback" => touched \/ age >= period]_vars
  <2> SUFFICES ASSUME IInv, Next, tpc # "callback", tpc' = "callback"
               PROVE  touched \/ age >= period
    OBVIOUS
  <2>1. tpc = "relock"
    BY DEF Next, Thread, LoopTest, LoopLocked, WaitEnds, Expire, Stopped, CallbackEnds,
           SpuriousWakeUp, Tick, swtimer_start, swtimer_stop, swtimer_destroy, Join, Signal
  <2> QED
    BY <2>1 DEF IInv, AgeInv
<1> QED
  BY Invariance, <1>1, PTL DEF Spec, OnTime
=============================================================================
