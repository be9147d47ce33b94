--------------------------- MODULE MLooperProofs ---------------------------
(***************************************************************************)
(* Theorems about MLooper, for any number of clients and messages and any  *)
(* bounds.                                                                 *)
(***************************************************************************)
EXTENDS MLooper, DataLemmas

\* msg_mutex is held across steps exactly by the thread that frees messages, has
\* put one in the list or has taken one and not yet counted it, and only messages
\* that its clear has found are still in the list.
Locked == {"posted", "remove", "removed", "clear"}
LockInv ==
  /\ \A p \in Thread : /\ pc[p] \in Locked \/ (p = Looper /\ lpc = "taken") <=> msgMutex = p
                       /\ pc[p] = "clear" => Queued \subseteq arg[p]
  /\ lpc = "taken" => pc[Looper] \notin Locked

\* How far msg_count is from the length of the list, at each place in which a
\* thread can hold the lock and when none does.
CountInv ==
  /\ msgMutex = None => msgCount = Len(msgList)
  /\ lpc = "taken" => msgCount = Len(msgList) + 1
  /\ \A p \in Thread : /\ pc[p] = "posted" => msgCount + 1 = Len(msgList)
                       /\ pc[p] = "removed" => msgCount = Len(msgList) + 1
                       /\ pc[p] = "remove" => msgCount = Len(msgList)
                       /\ pc[p] = "clear" => Len(msgList) <= msgCount

\* The looper thread has a message in hand exactly from the take to the free.
HandInv == node # None <=> lpc \in {"taken", "deliver", "handling", "free"}

\* thread_mutex is held across steps exactly by the thread that stops the
\* looper; while nobody holds it, thread_exit says whether a looper thread exists.
ThreadInv ==
  /\ \A p \in Thread : pc[p] \in {"stop", "join"} <=> threadMutex = p
  /\ \A p \in Thread : /\ pc[p] = "stop" => ~threadExit
                       /\ pc[p] = "join" => threadExit /\ lpc # "none"
  /\ threadMutex = None => (threadExit <=> lpc = "none")
  /\ lpc \in {"exit", "clearing", "returned"} => threadExit
  /\ lpc = "none" => threadExit

TypeInv == TypeOK /\ LockInv /\ HandInv /\ ThreadInv /\ CountInv

\* The invariant holds in a new looper.
LEMMA InitTypeInv == Init => TypeInv
<1> SUFFICES ASSUME Init PROVE TypeInv
  OBVIOUS
<1> USE ConstantsAssumption DEF Init
<1>1. TypeOK
  <2>1. /\ <<>> \in Seq(Msg) /\ <<>> \in Seq(Callback)
        /\ "none" \in LooperPc /\ "idle" \in CallPc /\ "UNKNOWN" \in MessageState
    BY DEF LooperPc, CallPc, MessageState
  <2> QED BY <2>1 DEF TypeOK, Thread
<1>2. LockInv
  BY DEF LockInv, Locked, Thread
<1>3. HandInv
  BY DEF HandInv
<1>4. CountInv
  BY DEF CountInv
<1>5. ThreadInv
  BY DEF ThreadInv, Thread
<1> QED BY <1>1, <1>2, <1>3, <1>4, <1>5 DEF TypeInv

\* The list holds messages.
LEMMA QueuedInMsg == ASSUME msgList \in Seq(Msg) PROVE Queued \subseteq Msg
BY ElementOfSeq, LenProperties DEF Queued, ToSet

\* Freeing a message only appends to the list of its callbacks.
LEMMA FreeCallsType ==
  ASSUME calls \in [Msg -> Seq(Callback)], NEW m \in Msg, NEW st,
         mlooper_free_msgnode(m, st)
  PROVE  calls' \in [Msg -> Seq(Callback)]
<1>1. FreeCallbacks(st) \in Seq(Callback)
  <2>1. "free" \in Callback /\ "discard" \in Callback
    BY DEF Callback
  <2>2. <<"free">> \in Seq(Callback) /\ <<"discard", "free">> \in Seq(Callback)
    BY <2>1
  <2> QED BY <2>2 DEF FreeCallbacks
<1>2. calls[m] \o FreeCallbacks(st) \in Seq(Callback)
  BY <1>1, ConcatProperties
<1> QED BY <1>2 DEF mlooper_free_msgnode

\* The variables that an insertion changes, but for the list.
LEMMA InsertType ==
  ASSUME TypeOK, NEW p \in Thread, NEW m \in Msg, NEW i, Insert(p, m, i)
  PROVE  /\ msgMutex' \in Thread \cup {None} /\ late' \subseteq Msg
         /\ pc' \in [Thread -> CallPc] /\ arg' \in [Thread -> SUBSET Msg]
<1>1. msgMutex' \in Thread \cup {None} /\ late' \subseteq Msg
  BY DEF Insert, TypeOK
<1>2. pc' \in [Thread -> CallPc] /\ arg' \in [Thread -> SUBSET Msg]
  BY DEF Insert, TypeOK, CallPc
<1> QED BY <1>1, <1>2

\* Every step keeps the types; the count is taken down only where the list
\* gives it something to count.
LEMMA NextTypeOK == TypeInv /\ [Next]_vars => TypeOK'
<1> SUFFICES ASSUME TypeInv, [Next]_vars PROVE TypeOK'
  OBVIOUS
<1> USE ConstantsAssumption DEF TypeInv, TypeOK, nodeVars, listVars, threadVars,
        looperVars, callVars, appVars, histVars, bounds
<1>1. CASE UNCHANGED vars
  BY <1>1 DEF vars
<1>2. CASE Tick
  BY <1>2 DEF Tick
<1>3. CASE LooperWait
  BY <1>3 DEF LooperWait, LooperPc
<1>4. CASE LooperTake
  <2>1. Head(msgList) \in Msg /\ Tail(msgList) \in Seq(Msg)
    BY <1>4, HeadTailProperties DEF LooperTake
  <2> QED BY <1>4, <2>1 DEF LooperTake, LooperPc, Thread
<1>19. CASE LooperCount
  <2>1. msgCount - 1 \in Nat
    BY <1>19, LenProperties DEF LooperCount, CountInv
  <2> QED BY <1>19, <2>1 DEF LooperCount, LooperPc
<1>5. CASE LooperExit
  BY <1>5 DEF LooperExit, LooperPc
<1>6. CASE LooperTimedWait
  <2>1. Head(msgList) \in Msg
    BY <1>6, HeadTailProperties DEF LooperTimedWait
  <2> QED BY <1>6, <2>1 DEF LooperTimedWait, LooperPc
<1>7. CASE LooperWakeUp
  BY <1>7 DEF LooperWakeUp, WakeUp, LooperPc
<1>8. CASE LooperSpuriousWakeUp
  BY <1>8 DEF LooperSpuriousWakeUp, WakeUp, LooperPc
<1>9. CASE LooperTimeout
  <2>1. node \in Msg /\ Append(calls[node], "timeout") \in Seq(Callback)
    BY <1>9, AppendProperties DEF LooperTimeout, HandInv, Callback
  <2> QED BY <1>9, <2>1 DEF LooperTimeout, LooperPc, MessageState
<1>10. CASE LooperHandle
  <2>1. node \in Msg /\ Append(calls[node], "handle") \in Seq(Callback)
    BY <1>10, AppendProperties DEF LooperHandle, HandInv, Callback
  <2> QED BY <1>10, <2>1 DEF LooperHandle, LooperPc, MessageState
<1>11. CASE LooperHandled
  BY <1>11 DEF LooperHandled, LooperPc, MessageState
<1>12. CASE LooperNoHandler
  BY <1>12 DEF LooperNoHandler, LooperPc, MessageState
<1>13. CASE LooperFree
  <2>1. node \in Msg
    BY <1>13 DEF LooperFree, HandInv
  <2>2. calls' \in [Msg -> Seq(Callback)]
    BY <1>13, <2>1, FreeCallsType DEF LooperFree
  <2> QED BY <1>13, <2>2 DEF LooperFree, LooperPc
<1>14. CASE LooperClear
  BY <1>14 DEF LooperClear, LockAndFree, LooperPc, CallPc, Thread
<1>15. CASE DestroyFree
  BY <1>15 DEF DestroyFree
<1>16. CASE Terminated
  BY <1>16 DEF Terminated, vars
<1>17. ASSUME NEW p \in Thread, Call(p)
       PROVE  TypeOK'
  <2>1. ASSUME NEW m \in Msg, NEW delay \in Nat, NEW to \in CallPc,
               PostBegin(p, m, delay, to)
        PROVE  TypeOK'
    <3>1. calls' \in [Msg -> Seq(Callback)]
      BY <2>1, FreeCallsType DEF PostBegin
    <3>2. timeout' \in [Msg -> Nat] /\ when' \in [Msg -> Nat]
      <4>1. clock + delay \in Nat /\ clock + TimeoutOf[m] \in Nat /\ timeout[m] \in Nat
        OBVIOUS
      <4>2. when' \in [Msg -> Nat]
        BY <2>1, <4>1 DEF PostBegin
      <4>3. timeout' \in [Msg -> Nat]
        BY SMTT(30), <2>1, <4>1 DEF PostBegin
      <4> QED BY <4>2, <4>3
    <3>3. state' \in [Msg -> MessageState]
      BY ZenonT(30), <2>1 DEF PostBegin, MessageState
    <3>4. owner' \in [Msg -> Thread \cup {None}]
      BY <2>1 DEF PostBegin
    <3>5. pc' \in [Thread -> CallPc] /\ arg' \in [Thread -> SUBSET Msg]
      <4>1. {m} \in SUBSET Msg
        OBVIOUS
      <4>2. \/ pc' = [pc EXCEPT ![p] = to] /\ arg' = [arg EXCEPT ![p] = {m}]
            \/ pc' = pc /\ arg' = arg
        BY <2>1 DEF PostBegin
      <4>3. pc \in [Thread -> CallPc] /\ arg \in [Thread -> SUBSET Msg] /\ to \in CallPc
        BY <2>1
      <4>4. p \in Thread
        BY <1>17
      <4> HIDE DEF TypeOK, TypeInv
      <4>5. CASE pc' = pc /\ arg' = arg
        BY <4>3, <4>5
      <4>6. CASE pc' = [pc EXCEPT ![p] = to] /\ arg' = [arg EXCEPT ![p] = {m}]
        BY <4>1, <4>3, <4>4, <4>6
      <4> QED BY <4>2, <4>5, <4>6
    <3> QED BY <2>1, <3>1, <3>2, <3>3, <3>4, <3>5 DEF PostBegin
  <2>2. ASSUME NEW M, NEW kind \in CallPc, FreeCall(p, M, kind)
        PROVE  TypeOK'
    <3>1. M \cap Queued \in SUBSET Msg
      BY QueuedInMsg
    <3> QED BY <2>2, <3>1 DEF FreeCall, LockAndFree
  <2>3. CASE mlooper_start(p)
    <3>1. threadExit' \in BOOLEAN /\ lpc' \in LooperPc
      BY <2>3 DEF mlooper_start, LooperPc
    <3>2. starts' \in Nat
      BY <2>3 DEF mlooper_start
    <3> QED BY <2>3, <3>1, <3>2 DEF mlooper_start
  <2>4. CASE mlooper_stop(p)
    BY <2>4 DEF mlooper_stop, CallPc
  <2>5. CASE mlooper_destroy(p)
    BY <2>5 DEF mlooper_destroy
  <2> QED BY <1>17, <2>1, <2>2, <2>3, <2>4, <2>5 DEF Call, CallPc,
             mlooper_post_message_front, mlooper_post_message_delay,
             mlooper_remove_message, mlooper_remove_message_if,
             mlooper_remove_self_message, mlooper_remove_self_message_if,
             mlooper_clear_self_message, mlooper_clear_message
<1>18. ASSUME NEW p \in Thread, Finish(p)
       PROVE  TypeOK'
  <2>1. CASE PostDelayInsert(p)
    <3>1. PICK m \in arg[p] : \E i \in DelayPos(m) : Insert(p, m, i) /\ sent' = Append(sent, m)
      BY <2>1 DEF PostDelayInsert
    <3>2. PICK i \in DelayPos(m) : Insert(p, m, i) /\ sent' = Append(sent, m)
      BY <3>1
    <3>3. m \in Msg /\ i \in 1..Len(msgList)+1
      BY DEF DelayPos
    <3>4. msgList' \in Seq(Msg)
      BY <3>2, <3>3, InsertAtLemma DEF Insert
    <3>5. sent' \in Seq(Msg)
      BY <3>2, <3>3, AppendProperties
    <3> QED BY <2>1, <3>2, <3>3, <3>4, <3>5, InsertType DEF PostDelayInsert
  <2>2. CASE PostFrontInsert(p)
    <3>1. PICK m \in arg[p] : /\ when' = [when EXCEPT ![m] = FrontWhen(m)]
                              /\ Insert(p, m, 1)
      BY <2>2 DEF PostFrontInsert
    <3>2. msgList' \in Seq(Msg)
      BY <3>1, InsertAtLemma, LenProperties DEF Insert
    <3>3. FrontWhen(m) \in Nat
      BY <3>1, HeadTailProperties DEF FrontWhen
    <3>4. when' \in [Msg -> Nat]
      BY <3>1, <3>3
    <3> QED BY <2>2, <3>1, <3>2, <3>4, InsertType DEF PostFrontInsert
  <2>3. CASE FreeOne(p)
    <3>1. PICK i \in DOMAIN msgList : /\ msgList' = RemoveAt(msgList, i)
                                      /\ state' = [state EXCEPT ![msgList[i]] = "DISCARDED"]
                                      /\ mlooper_free_msgnode(msgList[i], "DISCARDED")
      BY <2>3 DEF FreeOne
    <3>2. /\ i \in 1..Len(msgList) /\ Len(msgList) \in Nat /\ msgList[i] \in Msg
      BY <3>1, LenProperties, ElementOfSeq
    <3>3. msgList' \in Seq(Msg)
      BY <3>1, <3>2, RemoveAtLemma
    <3>4. calls' \in [Msg -> Seq(Callback)]
      BY <3>1, <3>2, FreeCallsType
    <3>5. pc' \in [Thread -> CallPc]
      BY <2>3 DEF FreeOne, CallPc
    <3> QED BY <2>3, <3>1, <3>2, <3>3, <3>4, <3>5 DEF FreeOne, MessageState
  <2>7. CASE PostEnd(p)
    <3>1. lpc' \in LooperPc /\ wakeAt' \in Nat
      BY <2>7 DEF PostEnd, Signal, WakeUp, LooperPc
    <3> QED BY <2>7, <3>1 DEF PostEnd, CallPc
  <2>8. CASE FreeCount(p)
    <3>1. msgCount - 1 \in Nat
      BY <2>8, LenProperties DEF FreeCount, CountInv
    <3> QED BY <2>8, <3>1 DEF FreeCount, CallPc
  <2>4. CASE FreeEnd(p)
    BY <2>4 DEF FreeEnd, LooperPc, CallPc
  <2>5. CASE StopSignal(p)
    <3>1. lpc' \in LooperPc /\ wakeAt' \in Nat
      BY <2>5 DEF StopSignal, Signal, WakeUp, LooperPc
    <3>2. pc' \in [Thread -> CallPc]
      BY <2>5 DEF StopSignal, CallPc
    <3> QED BY <2>5, <3>1, <3>2 DEF StopSignal
  <2>6. CASE StopJoin(p)
    BY <2>6 DEF StopJoin, LooperPc, CallPc
  <2> QED BY <1>18, <2>1, <2>2, <2>3, <2>4, <2>5, <2>6, <2>7, <2>8 DEF Finish
<1> QED BY <1>1, <1>2, <1>3, <1>4, <1>5, <1>6, <1>7, <1>8, <1>9, <1>10, <1>11,
           <1>12, <1>13, <1>14, <1>15, <1>16, <1>17, <1>18, <1>19 DEF Next, LooperStep

\* Two conjuncts of the invariant in the form in which most steps leave them
\* alone.
LEMMA QuietStep ==
  ASSUME TypeInv, msgList' = msgList, msgCount' = msgCount, msgMutex' = msgMutex,
         lpc' = lpc \/ (lpc # "taken" /\ lpc' # "taken"),
         NEW p \in Thread, NEW k \in CallPc \ Locked,
         pc' = pc \/ (pc[p] \notin Locked /\ pc' = [pc EXCEPT ![p] = k]),
         \A q \in Thread : arg'[q] = arg[q] \/ (q = p /\ pc[p] \notin Locked)
  PROVE  LockInv' /\ CountInv'
<1>1. \A q \in Thread, x \in Locked : pc'[q] = x <=> pc[q] = x
  BY DEF TypeInv, TypeOK
<1>2. \A q \in Thread : pc'[q] \in Locked <=> pc[q] \in Locked
  BY <1>1
<1>3. "clear" \in Locked /\ "remove" \in Locked /\ "removed" \in Locked /\ "posted" \in Locked
  BY DEF Locked
<1>4. Queued' = Queued
  BY DEF Queued
<1>5. \A q \in Thread : pc[q] = "clear" => arg'[q] = arg[q]
  BY <1>3
<1>6. Looper \in Thread
  BY DEF Thread
<1>7. LockInv'
  BY <1>1, <1>2, <1>3, <1>4, <1>5, <1>6 DEF TypeInv, LockInv
<1>8. CountInv'
  BY <1>1, <1>3 DEF TypeInv, CountInv
<1> QED BY <1>7, <1>8

\* msg_mutex keeps its owner and the count its meaning in every step.
LEMMA NextLockInv == TypeInv /\ [Next]_vars => LockInv' /\ CountInv'
<1> SUFFICES ASSUME TypeInv, [Next]_vars PROVE LockInv' /\ CountInv'
  OBVIOUS
<1> USE ConstantsAssumption DEF nodeVars, listVars, threadVars, looperVars,
        callVars, appVars, histVars, bounds
<1>0. /\ Looper \in Thread /\ None \notin Thread /\ "idle" \in CallPc \ Locked
      /\ msgList \in Seq(Msg) /\ Len(msgList) \in Nat /\ msgCount \in Nat
      /\ pc \in [Thread -> CallPc] /\ arg \in [Thread -> SUBSET Msg]
  BY LenProperties DEF Thread, CallPc, Locked, TypeInv, TypeOK
\* While a call holds the lock no other thread does, and a free lock is held by none.
<1>1. ASSUME NEW p \in Thread, pc[p] \in Locked
      PROVE  /\ msgMutex = p /\ lpc # "taken"
             /\ \A q \in Thread \ {p} : pc[q] \notin Locked
  BY <1>0, <1>1 DEF TypeInv, LockInv
<1>2. ASSUME msgMutex = None
      PROVE  /\ lpc # "taken" /\ msgCount = Len(msgList)
             /\ \A q \in Thread : pc[q] \notin Locked
  BY <1>0, <1>2 DEF TypeInv, LockInv, CountInv
\* The steps that leave the lock free, and those that leave it to a call.
<1>3. ASSUME msgMutex' = None, lpc' # "taken", msgCount' = Len(msgList'),
             \A q \in Thread : pc'[q] \notin Locked
      PROVE  LockInv' /\ CountInv'
  BY <1>0, <1>3 DEF LockInv, CountInv, Locked
<1>4. ASSUME NEW p \in Thread, msgMutex' = p, lpc' # "taken", pc'[p] \in Locked,
             \A q \in Thread \ {p} : pc'[q] \notin Locked,
             pc'[p] = "clear" => Queued' \subseteq arg'[p] /\ Len(msgList') <= msgCount',
             pc'[p] = "posted" => msgCount' + 1 = Len(msgList'),
             pc'[p] = "removed" => msgCount' = Len(msgList') + 1,
             pc'[p] = "remove" => msgCount' = Len(msgList')
      PROVE  LockInv' /\ CountInv'
  <2>1. LockInv'
    BY <1>0, <1>4 DEF LockInv, Locked
  <2>2. CountInv'
    BY <1>0, <1>4 DEF CountInv, Locked
  <2> QED BY <2>1, <2>2
<1>5. CASE \/ UNCHANGED vars \/ Tick \/ LooperWait \/ LooperExit
           \/ LooperTimedWait \/ LooperWakeUp \/ LooperSpuriousWakeUp
           \/ LooperTimeout \/ LooperHandle \/ LooperHandled
           \/ LooperNoHandler \/ LooperFree \/ DestroyFree \/ Terminated
  <2>1. /\ msgList' = msgList /\ msgCount' = msgCount /\ msgMutex' = msgMutex
        /\ arg' = arg /\ pc' = pc
        /\ lpc' = lpc \/ (lpc # "taken" /\ lpc' # "taken")
    BY <1>5 DEF vars, Tick, LooperWait, LooperExit, LooperTimedWait, AtTop, WakeUp,
          LooperWakeUp, LooperSpuriousWakeUp, LooperTimeout, LooperHandle,
          LooperHandled, LooperNoHandler, LooperFree, DestroyFree, Terminated
  <2> QED BY <1>0, <2>1, QuietStep
<1>6. CASE LooperTake
  <2>1. 1 \in 1..Len(msgList) /\ msgList' = RemoveAt(msgList, 1)
    BY <1>0, <1>6, TailIsRemoveAt DEF LooperTake
  <2>2. Len(msgList') = Len(msgList) - 1
    BY <1>0, <2>1, RemoveAtLemma
  <2>3. /\ msgMutex = None /\ msgMutex' = Looper /\ lpc' = "taken" /\ pc' = pc
        /\ msgCount' = msgCount
    BY <1>6 DEF LooperTake, AtTop
  <2>4. \A q \in Thread : pc'[q] \notin Locked
    BY <1>2, <2>3
  <2>5. LockInv'
    BY <1>0, <2>3, <2>4 DEF LockInv, Locked
  <2>6. msgCount' = Len(msgList') + 1
    BY <1>0, <1>2, <2>2, <2>3
  <2>7. CountInv'
    BY <1>0, <2>3, <2>4, <2>6 DEF CountInv, Locked
  <2> QED BY <2>5, <2>7
<1>7. CASE LooperCount
  <2>1. /\ msgList' = msgList /\ msgCount' = msgCount - 1 /\ msgMutex' = None
        /\ lpc = "taken" /\ lpc' = "deliver" /\ pc' = pc
    BY <1>7 DEF LooperCount
  <2>2. \A q \in Thread : pc[q] \notin Locked
    BY <1>0, <1>1, <2>1
  <2>3. msgCount' = Len(msgList')
    BY <1>0, <2>1 DEF TypeInv, CountInv
  <2> QED BY <1>3, <2>1, <2>2, <2>3
<1>8. ASSUME NEW p \in Thread, NEW M, NEW kind \in {"remove", "clear"},
             LockAndFree(p, M, kind), kind = "clear" => M = Msg,
             lpc' = lpc \/ lpc' = "clearing"
      PROVE  LockInv' /\ CountInv'
  <2>1. /\ msgMutex = None /\ msgMutex' = p
        /\ pc' = [pc EXCEPT ![p] = kind] /\ arg'[p] = M \cap Queued
        /\ msgList' = msgList /\ msgCount' = msgCount /\ Queued' = Queued
    BY <1>0, <1>8 DEF LockAndFree, Queued
  <2>2. /\ lpc' # "taken" /\ msgCount' = Len(msgList')
        /\ \A q \in Thread : pc[q] \notin Locked
    BY <1>2, <1>8, <2>1
  <2>3. pc'[p] = kind /\ \A q \in Thread \ {p} : pc'[q] = pc[q]
    BY <1>0, <2>1
  <2>4. kind = "clear" => Queued' \subseteq arg'[p]
    BY <1>0, <1>8, <2>1, QueuedInMsg
  <2>5. kind \in Locked /\ kind # "posted" /\ kind # "removed"
    BY DEF Locked
  <2>6. Len(msgList') <= msgCount'
    BY <1>0, <2>1, <2>2
  <2> QED BY <1>4, <2>1, <2>2, <2>3, <2>4, <2>5, <2>6
<1>9. CASE LooperClear
  BY <1>0, <1>8, <1>9 DEF LooperClear
<1>10. ASSUME NEW p \in Thread, Call(p)
       PROVE  LockInv' /\ CountInv'
  <2>1. ASSUME NEW m \in Msg, NEW delay \in Nat,
               NEW to \in {"post_front", "post_delay"},
               PostBegin(p, m, delay, to)
        PROVE  LockInv' /\ CountInv'
    <3>1. /\ pc[p] \notin Locked /\ to \in CallPc \ Locked
          /\ pc' = pc \/ pc' = [pc EXCEPT ![p] = to]
          /\ msgList' = msgList /\ msgCount' = msgCount /\ msgMutex' = msgMutex
          /\ lpc' = lpc
      BY <2>1 DEF PostBegin, CanCall, CallPc, Locked
    <3>2. \A q \in Thread : q # p => arg'[q] = arg[q]
      BY <1>0, <2>1 DEF PostBegin
    <3> QED BY <3>1, <3>2, QuietStep
  <2>2. ASSUME NEW M, NEW kind \in {"remove", "clear"}, FreeCall(p, M, kind),
               kind = "clear" => M = Msg
        PROVE  LockInv' /\ CountInv'
    BY <1>8, <2>2 DEF FreeCall
  <2>3. CASE mlooper_start(p) \/ mlooper_stop(p) \/ mlooper_destroy(p)
    <3>1. /\ msgList' = msgList /\ msgCount' = msgCount /\ msgMutex' = msgMutex
          /\ arg' = arg
          /\ pc' = pc \/ (pc[p] = "idle" /\ pc' = [pc EXCEPT ![p] = "stop"])
      BY <2>3 DEF mlooper_start, mlooper_stop, mlooper_destroy, CanCall
    <3>2. lpc' = lpc \/ (lpc = "none" /\ lpc' = "lock")
      <4>1. threadMutex = None /\ threadExit => lpc = "none"
        BY DEF TypeInv, ThreadInv
      <4> QED BY <2>3, <4>1 DEF mlooper_start, mlooper_stop, mlooper_destroy
    <3>3. "stop" \in CallPc \ Locked
      BY DEF CallPc, Locked
    <3>4. pc[p] = "idle" => pc[p] \notin Locked
      BY <1>0
    <3> QED BY <3>1, <3>2, <3>3, <3>4, QuietStep
  <2> QED BY <1>10, <2>1, <2>2, <2>3 DEF Call, CallPc,
             mlooper_post_message_front, mlooper_post_message_delay,
             mlooper_remove_message, mlooper_remove_message_if,
             mlooper_remove_self_message, mlooper_remove_self_message_if,
             mlooper_clear_self_message, mlooper_clear_message
<1>11. ASSUME NEW p \in Thread, Finish(p)
       PROVE  LockInv' /\ CountInv'
  <2>1. ASSUME NEW m \in Msg, NEW i \in 1..Len(msgList)+1, Insert(p, m, i),
               msgCount' = msgCount, lpc' = lpc
        PROVE  LockInv' /\ CountInv'
    <3>1. msgMutex = None /\ msgMutex' = p /\ pc' = [pc EXCEPT ![p] = "posted"]
      BY <2>1 DEF Insert
    <3>2. pc'[p] = "posted" /\ \A q \in Thread \ {p} : pc'[q] = pc[q]
      BY <1>0, <3>1
    <3>3. Len(msgList') = Len(msgList) + 1
      BY <1>0, <2>1, InsertAtLemma DEF Insert
    <3>4. msgCount' + 1 = Len(msgList')
      BY <1>0, <1>2, <2>1, <3>1, <3>3
    <3>5. "posted" \in Locked
      BY DEF Locked
    <3> QED BY <1>2, <1>4, <2>1, <3>1, <3>2, <3>4, <3>5
  <2>2. CASE PostDelayInsert(p)
    <3>0. PICK m \in arg[p] : \E i \in DelayPos(m) : Insert(p, m, i)
      BY <2>2 DEF PostDelayInsert
    <3>1. PICK i \in DelayPos(m) : Insert(p, m, i)
      BY <3>0
    <3>2. m \in Msg /\ i \in 1..Len(msgList)+1
      BY <1>0 DEF DelayPos
    <3> QED BY <2>1, <2>2, <3>1, <3>2 DEF PostDelayInsert
  <2>3. CASE PostFrontInsert(p)
    <3>1. PICK m \in arg[p] : Insert(p, m, 1)
      BY <2>3 DEF PostFrontInsert
    <3>2. m \in Msg /\ 1 \in 1..Len(msgList)+1
      BY <1>0
    <3> QED BY <2>1, <2>3, <3>1, <3>2 DEF PostFrontInsert
  <2>4. CASE PostEnd(p)
    <3>1. /\ pc[p] = "posted" /\ pc' = [pc EXCEPT ![p] = "idle"] /\ msgMutex' = None
          /\ msgList' = msgList /\ msgCount' = msgCount + 1
          /\ lpc' = lpc \/ lpc' = "lock"
      BY <2>4 DEF PostEnd, Signal, WakeUp
    <3>2. pc[p] \in Locked
      BY <3>1 DEF Locked
    <3>3. lpc' # "taken" /\ \A q \in Thread : pc'[q] \notin Locked
      BY <1>0, <1>1, <3>1, <3>2
    <3>4. msgCount' = Len(msgList')
      BY <3>1 DEF TypeInv, CountInv
    <3> QED BY <1>3, <3>1, <3>3, <3>4
  <2>5. CASE FreeOne(p)
    <3>1. PICK i \in DOMAIN msgList : msgList' = RemoveAt(msgList, i)
      BY <2>5 DEF FreeOne
    <3>2. i \in 1..Len(msgList)
      BY <1>0, <3>1, LenProperties
    <3>3. Len(msgList') = Len(msgList) - 1 /\ Queued' \subseteq Queued
      BY <1>0, <3>1, <3>2, RemoveAtLemma, RemoveAtElements DEF Queued
    <3>4. /\ arg' = arg /\ msgMutex' = msgMutex /\ msgCount' = msgCount /\ lpc' = lpc
          /\ pc[p] \in {"remove", "clear"}
          /\ pc'[p] = IF pc[p] = "remove" THEN "removed" ELSE pc[p]
          /\ \A q \in Thread \ {p} : pc'[q] = pc[q]
      BY <1>0, <2>5 DEF FreeOne
    <3>5. /\ pc[p] \in Locked /\ pc'[p] \in Locked
          /\ pc'[p] # "posted" /\ pc'[p] # "remove"
      BY <3>4 DEF Locked
    <3>6. pc'[p] = "removed" => msgCount' = Len(msgList') + 1
      BY <1>0, <3>3, <3>4 DEF TypeInv, CountInv
    <3>7. pc'[p] = "clear" => Queued' \subseteq arg'[p] /\ Len(msgList') <= msgCount'
      BY <1>0, <3>3, <3>4 DEF TypeInv, CountInv, LockInv
    <3> QED BY <1>1, <1>4, <3>4, <3>5, <3>6, <3>7
  <2>6. CASE FreeCount(p)
    <3>1. /\ pc[p] = "removed" /\ pc' = [pc EXCEPT ![p] = "remove"]
          /\ msgMutex' = msgMutex /\ msgList' = msgList /\ msgCount' = msgCount - 1
          /\ lpc' = lpc
      BY <2>6 DEF FreeCount
    <3>2. pc[p] \in Locked /\ "remove" \in Locked
      BY <3>1 DEF Locked
    <3>3. pc'[p] = "remove" /\ \A q \in Thread \ {p} : pc'[q] = pc[q]
      BY <1>0, <3>1
    <3>4. msgCount' = Len(msgList')
      BY <1>0, <3>1 DEF TypeInv, CountInv
    <3> QED BY <1>1, <1>4, <3>1, <3>2, <3>3, <3>4
  <2>7. CASE FreeEnd(p)
    <3>1. /\ msgMutex' = None /\ msgList' = msgList
          /\ pc[p] \in {"remove", "clear"} /\ pc' = [pc EXCEPT ![p] = "idle"]
          /\ msgCount' = IF pc[p] = "clear" THEN 0 ELSE msgCount
          /\ lpc' = lpc \/ lpc' = "returned"
      BY <2>7 DEF FreeEnd
    <3>2. pc[p] \in Locked
      BY <3>1 DEF Locked
    <3>3. lpc' # "taken" /\ \A q \in Thread : pc'[q] \notin Locked
      BY <1>0, <1>1, <3>1, <3>2
    <3>4. pc[p] = "clear" => Queued = {}
      BY <2>7 DEF FreeEnd, LockInv, TypeInv
    <3>5. pc[p] = "clear" => Len(msgList) = 0
      <4>1. DOMAIN msgList = 1..Len(msgList)
        BY <1>0, LenProperties
      <4>2. 1 \in 1..Len(msgList) => msgList[1] \in Queued
        BY <4>1 DEF Queued, ToSet
      <4>3. pc[p] = "clear" => ~(1 \in 1..Len(msgList))
        BY <3>4, <4>2
      <4> QED BY <1>0, <4>3
    <3>6. msgCount' = Len(msgList')
      BY <1>0, <3>1, <3>5 DEF TypeInv, CountInv
    <3> QED BY <1>3, <3>1, <3>3, <3>6
  <2>8. CASE StopSignal(p) \/ StopJoin(p)
    <3>1. /\ msgList' = msgList /\ msgCount' = msgCount /\ msgMutex' = msgMutex
          /\ arg' = arg
          /\ pc[p] \in {"stop", "join"}
          /\ \E k \in {"idle", "join"} : pc' = [pc EXCEPT ![p] = k]
          /\ lpc' = lpc \/ (lpc # "taken" /\ lpc' # "taken")
      BY <2>8 DEF StopSignal, StopJoin, Signal, WakeUp
    <3>2. pc[p] \notin Locked /\ {"idle", "join"} \subseteq CallPc \ Locked
      BY <3>1 DEF Locked, CallPc
    <3> QED BY <3>1, <3>2, QuietStep
  <2> QED BY <1>11, <2>2, <2>3, <2>4, <2>5, <2>6, <2>7, <2>8 DEF Finish
<1> QED BY <1>5, <1>6, <1>7, <1>9, <1>10, <1>11 DEF Next, LooperStep

\* Every step keeps track of the message in hand and of the looper thread.
LEMMA NextHandInv == TypeInv /\ [Next]_vars => HandInv' /\ ThreadInv'
<1> SUFFICES ASSUME TypeInv, [Next]_vars PROVE HandInv' /\ ThreadInv'
  OBVIOUS
<1> USE ConstantsAssumption DEF nodeVars, listVars, threadVars, looperVars,
        callVars, appVars, histVars, bounds, TypeInv
<1>0. /\ Looper \in Thread /\ None \notin Thread
      /\ threadExit \in BOOLEAN
      /\ pc \in [Thread -> CallPc]
  BY DEF Thread, TypeOK
<1> DEFINE AsleepOrTop == {"lock", "wait", "timedwait"}
<1>1. CASE UNCHANGED vars \/ Tick \/ DestroyFree \/ Terminated
  <2>1. /\ lpc' = lpc /\ node' = node /\ pc' = pc
        /\ threadExit' = threadExit /\ threadMutex' = threadMutex
    BY <1>1 DEF vars, Tick, DestroyFree, Terminated
  <2> QED BY <2>1 DEF HandInv, ThreadInv
<1>2. ASSUME pc' = pc, threadExit' = threadExit, threadMutex' = threadMutex,
             lpc # "none", lpc' # "none",
             lpc' \in {"exit", "clearing", "returned"} => threadExit
      PROVE  ThreadInv'
  BY <1>0, <1>2 DEF ThreadInv
<1>3. CASE LooperTake
  <2>1. Head(msgList) \in Msg
    BY <1>3, HeadTailProperties DEF LooperTake, TypeOK
  <2> QED BY <1>2, <1>3, <2>1 DEF LooperTake, HandInv, AtTop
<1>4. CASE \/ LooperWait \/ LooperExit \/ LooperTimedWait
           \/ LooperWakeUp \/ LooperSpuriousWakeUp
  <2>1. /\ pc' = pc /\ threadExit' = threadExit /\ threadMutex' = threadMutex
        /\ node' = node /\ lpc \in AsleepOrTop
        /\ lpc' \in AsleepOrTop \/ (lpc' = "exit" /\ threadExit)
    BY <1>4 DEF LooperWait, LooperExit, LooperTimedWait, AtTop, WakeUp,
          LooperWakeUp, LooperSpuriousWakeUp
  <2> QED BY <1>2, <2>1 DEF HandInv
<1>5. CASE LooperCount \/ LooperTimeout \/ LooperHandle \/ LooperHandled \/ LooperNoHandler
  <2>1. /\ pc' = pc /\ threadExit' = threadExit /\ threadMutex' = threadMutex
        /\ node' = node /\ lpc \in {"taken", "deliver", "handling"}
        /\ lpc' \in {"deliver", "handling", "free"}
    BY <1>5 DEF LooperCount, LooperTimeout, LooperHandle, LooperHandled, LooperNoHandler
  <2> QED BY <1>2, <2>1 DEF HandInv
<1>6. CASE LooperFree
  BY <1>2, <1>6 DEF LooperFree, HandInv
<1>7. CASE LooperClear
  <2>1. /\ pc' = [pc EXCEPT ![Looper] = "clear"] /\ lpc = "exit" /\ lpc' = "clearing"
        /\ threadExit' = threadExit /\ threadMutex' = threadMutex /\ node' = node
    BY <1>7 DEF LooperClear, LockAndFree
  <2>2. threadMutex # Looper
    BY <1>0 DEF TypeOK, Thread
  <2> QED BY <1>0, <2>1, <2>2 DEF HandInv, ThreadInv
<1>8. ASSUME NEW p \in Thread, pc[p] \notin {"stop", "join"},
             NEW k \in CallPc \ {"stop", "join"},
             pc' = pc \/ pc' = [pc EXCEPT ![p] = k],
             threadExit' = threadExit, threadMutex' = threadMutex,
             \/ lpc' = lpc
             \/ lpc # "none" /\ lpc' # "none" /\
                (lpc' \in {"exit", "clearing", "returned"} => threadExit)
      PROVE  ThreadInv'
  <2>1. \A q \in Thread : pc'[q] = pc[q] \/ (q = p /\ pc'[q] = k)
    BY <1>0, <1>8
  <2> QED BY <1>0, <1>8, <2>1 DEF ThreadInv
<1>9. ASSUME NEW p \in Thread, Call(p)
      PROVE  HandInv' /\ ThreadInv'
  <2>1. ASSUME NEW m \in Msg, NEW delay \in Nat,
               NEW to \in {"post_front", "post_delay"},
               PostBegin(p, m, delay, to)
        PROVE  HandInv' /\ ThreadInv'
    <3>1. /\ pc[p] \notin {"stop", "join"} /\ to \in CallPc \ {"stop", "join"}
          /\ pc' = pc \/ pc' = [pc EXCEPT ![p] = to]
          /\ threadExit' = threadExit /\ threadMutex' = threadMutex
          /\ lpc' = lpc /\ node' = node
      BY <2>1 DEF PostBegin, CanCall, CallPc
    <3> QED BY <1>8, <3>1 DEF HandInv
  <2>2. ASSUME NEW M, NEW kind \in {"remove", "clear"}, FreeCall(p, M, kind)
        PROVE  HandInv' /\ ThreadInv'
    <3>1. /\ pc[p] \notin {"stop", "join"} /\ kind \in CallPc \ {"stop", "join"}
          /\ pc' = [pc EXCEPT ![p] = kind]
          /\ threadExit' = threadExit /\ threadMutex' = threadMutex
          /\ lpc' = lpc /\ node' = node
      BY <2>2 DEF FreeCall, LockAndFree, CanCall, CallPc
    <3> QED BY <1>8, <3>1 DEF HandInv
  <2>3. CASE mlooper_start(p)
    <3>1. /\ pc' = pc /\ threadMutex = None /\ threadMutex' = None /\ node' = node
          /\ threadExit
          /\ \/ threadExit' = FALSE /\ lpc' = "lock"
             \/ threadExit' = threadExit /\ lpc' = lpc
      BY <2>3 DEF mlooper_start
    <3>2. threadMutex = None => (threadExit <=> lpc = "none")
      BY DEF ThreadInv
    <3>3. lpc = "none"
      BY <3>1, <3>2
    <3> QED BY <1>0, <3>1, <3>3 DEF HandInv, ThreadInv
  <2>4. CASE mlooper_stop(p)
    <3>1. /\ pc' = [pc EXCEPT ![p] = "stop"] /\ threadMutex = None /\ threadMutex' = p
          /\ node' = node /\ lpc' = lpc /\ threadExit' = threadExit /\ ~threadExit
      BY <2>4 DEF mlooper_stop
    <3> QED BY <1>0, <3>1 DEF HandInv, ThreadInv
  <2>5. CASE mlooper_destroy(p)
    <3>1. /\ lpc' = lpc /\ node' = node /\ pc' = pc
          /\ threadExit' = threadExit /\ threadMutex' = threadMutex
      BY <2>5 DEF mlooper_destroy
    <3> QED BY <3>1 DEF HandInv, ThreadInv
  <2> QED BY <1>9, <2>1, <2>2, <2>3, <2>4, <2>5 DEF Call,
             mlooper_post_message_front, mlooper_post_message_delay,
             mlooper_remove_message, mlooper_remove_message_if,
             mlooper_remove_self_message, mlooper_remove_self_message_if,
             mlooper_clear_self_message, mlooper_clear_message
<1>10. ASSUME NEW p \in Thread, Finish(p)
       PROVE  HandInv' /\ ThreadInv'
  <2>1. CASE PostDelayInsert(p) \/ PostFrontInsert(p)
    <3>1. /\ pc[p] \notin {"stop", "join"} /\ "posted" \in CallPc \ {"stop", "join"}
          /\ pc' = [pc EXCEPT ![p] = "posted"]
          /\ threadExit' = threadExit /\ threadMutex' = threadMutex /\ node' = node
          /\ lpc' = lpc
      BY <2>1 DEF PostDelayInsert, PostFrontInsert, Insert, CallPc
    <3> QED BY <1>8, <3>1 DEF HandInv
  <2>6. CASE PostEnd(p)
    <3>1. /\ pc[p] \notin {"stop", "join"} /\ "idle" \in CallPc \ {"stop", "join"}
          /\ pc' = [pc EXCEPT ![p] = "idle"]
          /\ threadExit' = threadExit /\ threadMutex' = threadMutex /\ node' = node
          /\ lpc' = lpc \/ (lpc \in {"wait", "timedwait"} /\ lpc' = "lock")
      BY <2>6 DEF PostEnd, Signal, WakeUp, CallPc
    <3> QED BY <1>8, <3>1 DEF HandInv
  <2>2. CASE FreeOne(p) \/ FreeCount(p)
    <3>1. /\ lpc' = lpc /\ node' = node
          /\ pc[p] \notin {"stop", "join"}
          /\ \E k \in {"remove", "removed", "clear"} : pc' = [pc EXCEPT ![p] = k]
          /\ threadExit' = threadExit /\ threadMutex' = threadMutex
      BY <2>2 DEF FreeOne, FreeCount
    <3>2. {"remove", "removed", "clear"} \subseteq CallPc \ {"stop", "join"}
      BY DEF CallPc
    <3> QED BY <1>8, <3>1, <3>2 DEF HandInv
  <2>3. CASE FreeEnd(p)
    <3>1. /\ pc[p] \notin {"stop", "join"} /\ "idle" \in CallPc \ {"stop", "join"}
          /\ pc' = [pc EXCEPT ![p] = "idle"]
          /\ threadExit' = threadExit /\ threadMutex' = threadMutex /\ node' = node
          /\ lpc' = lpc \/ (lpc = "clearing" /\ lpc' = "returned")
      BY <2>3 DEF FreeEnd, CallPc
    <3>2. lpc = "clearing" => threadExit
      BY DEF ThreadInv
    <3> QED BY <1>8, <3>1, <3>2 DEF HandInv
  <2>4. CASE StopSignal(p)
    <3>1. /\ pc[p] = "stop" /\ pc' = [pc EXCEPT ![p] = "join"]
          /\ threadExit' = TRUE /\ threadMutex' = threadMutex /\ node' = node
          /\ lpc' = lpc \/ (lpc \in {"wait", "timedwait"} /\ lpc' = "lock")
      BY <2>4 DEF StopSignal, Signal, WakeUp
    <3>2. threadMutex = p /\ ~threadExit
      BY <3>1 DEF ThreadInv
    <3>3. lpc # "none"
      BY <3>2 DEF ThreadInv
    <3> QED BY <1>0, <3>1, <3>2, <3>3 DEF HandInv, ThreadInv
  <2>5. CASE StopJoin(p)
    <3>1. /\ pc[p] = "join" /\ pc' = [pc EXCEPT ![p] = "idle"]
          /\ threadExit' = threadExit /\ threadMutex' = None /\ node' = node
          /\ lpc = "returned" /\ lpc' = "none"
      BY <2>5 DEF StopJoin
    <3>2. threadMutex = p /\ threadExit
      BY <3>1 DEF ThreadInv
    <3>3. \A q \in Thread \ {p} : pc[q] \notin {"stop", "join"}
      BY <3>2 DEF ThreadInv
    <3> QED BY <1>0, <3>1, <3>2, <3>3 DEF HandInv, ThreadInv
  <2> QED BY <1>10, <2>1, <2>2, <2>3, <2>4, <2>5, <2>6 DEF Finish
<1> QED BY <1>1, <1>3, <1>4, <1>5, <1>6, <1>7, <1>9, <1>10 DEF Next, LooperStep

\* The invariant of the locks, the counter and the looper thread is inductive.
THEOREM TypeInvariance == Spec => []TypeInv
<1>1. TypeInv /\ [Next]_vars => TypeInv'
  BY NextTypeOK, NextLockInv, NextHandInv DEF TypeInv
<1> QED BY InitTypeInv, <1>1, PTL DEF Spec

\* Every variable keeps its type: msg_count in particular never goes below zero.
THEOREM TypeCorrect == Spec => []TypeOK
<1>1. TypeInv => TypeOK
  BY DEF TypeInv
<1> QED BY <1>1, TypeInvariance, PTL

\* mlooper_message_count, which reads msg_count without the lock, returns the
\* length of the list while the lock is free, and is off by at most one while it
\* is held, but for a clear, which leaves the count as it was to its end.
THEOREM CountCorrect == Spec => []CountTracksList
<1>1. TypeInv => CountTracksList
  <2> SUFFICES ASSUME TypeInv PROVE CountTracksList
    OBVIOUS
  <2>0. Len(msgList) \in Nat /\ msgCount \in Nat /\ msgMutex \in Thread \cup {None}
    BY LenProperties DEF TypeInv, TypeOK
  <2>1. CASE msgMutex = None
    BY <2>0, <2>1 DEF TypeInv, CountInv, CountTracksList
  <2>2. CASE msgMutex \in Thread /\ lpc = "taken"
    BY <2>0, <2>2, ConstantsAssumption DEF TypeInv, CountInv, CountTracksList, Thread
  <2>3. ASSUME msgMutex \in Thread, lpc # "taken" PROVE CountTracksList
    <3>1. PICK p \in Thread : p = msgMutex /\ pc[p] \in Locked
      BY <2>3 DEF TypeInv, LockInv
    <3>2. msgMutex # None
      BY <2>3, ConstantsAssumption
    <3>3. \/ msgCount + 1 = Len(msgList)
          \/ msgCount = Len(msgList) + 1
          \/ msgCount = Len(msgList)
          \/ Clearing /\ Len(msgList) <= msgCount
      BY <3>1 DEF TypeInv, CountInv, Locked, Clearing
    <3> QED BY <2>0, <3>2, <3>3 DEF CountTracksList
  <2> QED BY <2>0, <2>1, <2>2, <2>3
<1> QED BY <1>1, TypeInvariance, PTL

-----------------------------------------------------------------------------
(* The life of a message                                                   *)

\* The looper thread is in a call of the API only while it runs a handler or
\* clears its list, and it clears its list with a call.
LooperCallInv ==
  /\ pc[Looper] # "idle" => lpc \in {"handling", "clearing"}
  /\ lpc = "clearing" => pc[Looper] = "clear"

\* Once a client has begun to destroy the looper the other clients are out of
\* the API, and it calls nothing but mlooper_stop.
ClosingInv ==
  /\ \A q \in Client : closing \notin {None, q} => pc[q] = "idle"
  /\ closing # None => pc[closing] \in {"idle", "stop", "join"}
  /\ destroyed => closing # None /\ lpc = "none" /\ pc[closing] = "idle"

\* A message is pending from its post until it is taken; until then it is in
\* the hands of one thread that posts it, or once in the list.
PendingInv ==
  /\ IsInjective(msgList) /\ node \notin Queued
  /\ \A m \in Queued : state[m] = "PENDING"
  /\ \A p \in Thread : \A m \in Posting(p) :
       /\ state[m] = "PENDING" /\ m \notin Queued /\ m # node
       /\ \A q \in Thread \ {p} : m \notin Posting(q)

\* What has become of the message in the looper thread's hand.
InHandInv ==
  /\ lpc \in {"taken", "deliver"} => state[node] = "PENDING" /\ calls[node] = <<>>
  /\ lpc = "handling" => state[node] = "HANDLING" /\ calls[node] = <<"handle">>
  /\ lpc = "free" => \/ state[node] = "HANDLED" /\ calls[node] = <<"handle">>
                     \/ state[node] = "TIMEOUT" /\ calls[node] = <<"timeout">>
                     \/ state[node] = "DISCARDED" /\ calls[node] = <<>>

\* The other messages: none of their callbacks has run, or all of them have.
Finished == {<<"handle", "free">>, <<"discard", "free">>,
             <<"timeout", "discard", "free">>}
CallsInv == \A m \in Msg : m # node =>
              IF state[m] \in {"UNKNOWN", "PENDING"} THEN calls[m] = <<>>
                                                     ELSE calls[m] \in Finished

LifeInv == PendingInv /\ InHandInv /\ CallsInv

\* A message is in sent from the moment a post with delay has put it in the list.
SentInv == \A i \in DOMAIN sent :
             /\ state[sent[i]] # "UNKNOWN"
             /\ \A p \in Thread : sent[i] \notin Posting(p)

\* Of two messages posted with delay the earlier one that is not due later is
\* the nearer one to the head, and the later one is not taken before it.
Ahead(x, y) == \A k, l \in DOMAIN msgList : msgList[k] = x /\ msgList[l] = y => k < l
AheadInv ==
  \A i, j \in DOMAIN sent :
    i < j /\ when[sent[i]] <= when[sent[j]] /\ sent[i] \in Queued
      => ~Taken(sent[j]) /\ Ahead(sent[i], sent[j])

OrderInv == ListSorted /\ SentInv /\ AheadInv

\* A looper thread that has returned has left the list empty.
LateInv == lpc \in {"none", "returned"} => Queued \subseteq late

IInv == /\ TypeInv /\ LooperCallInv /\ ClosingInv /\ LifeInv /\ OrderInv
        /\ NoOversleep /\ LateInv

\* The strengthened invariant holds in a new looper.
LEMMA InitIInv == Init => IInv
<1> SUFFICES ASSUME Init PROVE IInv
  OBVIOUS
<1>0. TypeInv
  BY InitTypeInv
<1> USE ConstantsAssumption DEF Init
<1>1. msgList = <<>> /\ sent = <<>> /\ DOMAIN msgList = {} /\ DOMAIN sent = {} /\ Queued = {}
  BY DEF Queued, ToSet
<1>2. LooperCallInv /\ ClosingInv
  BY DEF LooperCallInv, ClosingInv, Thread
<1>3. PendingInv
  BY <1>1 DEF PendingInv, IsInjective, Posting
<1>4. InHandInv /\ CallsInv
  BY DEF InHandInv, CallsInv
<1>5. OrderInv
  BY <1>1 DEF OrderInv, ListSorted, SentInv, AheadInv
<1>6. NoOversleep /\ LateInv
  BY <1>1 DEF NoOversleep, LateInv
<1> QED BY <1>0, <1>2, <1>3, <1>4, <1>5, <1>6 DEF IInv, LifeInv

\* Every step keeps the looper thread and a thread that destroys the looper to
\* the calls they may make.
LEMMA NextCallInv ==
  TypeInv /\ LooperCallInv /\ ClosingInv /\ [Next]_vars => LooperCallInv' /\ ClosingInv'
<1> SUFFICES ASSUME TypeInv, LooperCallInv, ClosingInv, [Next]_vars
             PROVE  LooperCallInv' /\ ClosingInv'
  OBVIOUS
<1> USE ConstantsAssumption DEF nodeVars, listVars, threadVars, looperVars,
        callVars, appVars, histVars, bounds
<1>0. /\ Looper \in Thread /\ Client \subseteq Thread /\ Looper \notin Client
      /\ Thread = Client \cup {Looper} /\ None \notin Client
      /\ pc \in [Thread -> CallPc] /\ closing \in Client \cup {None}
      /\ threadMutex \in Client \cup {None} /\ destroyed \in BOOLEAN
      /\ None \notin Thread
  BY DEF Thread, TypeInv, TypeOK
<1>1. CASE UNCHANGED vars \/ Tick \/ Terminated
  <2>1. /\ lpc' = lpc /\ pc' = pc /\ closing' = closing /\ destroyed' = destroyed
    BY <1>1 DEF vars, Tick, Terminated
  <2> QED BY <2>1 DEF LooperCallInv, ClosingInv
<1>2. ASSUME pc' = pc, closing' = closing, destroyed' = destroyed,
             lpc # "none", lpc # "clearing", lpc' # "clearing",
             lpc = "handling" => pc[Looper] = "idle"
      PROVE  LooperCallInv' /\ ClosingInv'
  BY <1>2 DEF LooperCallInv, ClosingInv
<1>3. CASE \/ LooperWait \/ LooperExit \/ LooperTimedWait \/ LooperTake
           \/ LooperWakeUp \/ LooperSpuriousWakeUp
  <2>1. /\ pc' = pc /\ closing' = closing /\ destroyed' = destroyed
        /\ lpc \in {"lock", "wait", "timedwait"}
        /\ lpc' \in {"lock", "wait", "timedwait", "taken", "exit"}
    BY <1>3 DEF LooperWait, LooperExit, LooperTimedWait, LooperTake, AtTop, WakeUp,
          LooperWakeUp, LooperSpuriousWakeUp
  <2> QED BY <1>2, <2>1
<1>4. CASE \/ LooperCount \/ LooperTimeout \/ LooperHandle \/ LooperHandled
           \/ LooperNoHandler \/ LooperFree
  <2>1. /\ pc' = pc /\ closing' = closing /\ destroyed' = destroyed
        /\ lpc \in {"taken", "deliver", "handling", "free"}
        /\ lpc' \in {"deliver", "handling", "free", "lock"}
        /\ lpc = "handling" => pc[Looper] = "idle"
    BY <1>4 DEF LooperCount, LooperTimeout, LooperHandle, LooperHandled, LooperNoHandler, LooperFree
  <2> QED BY <1>2, <2>1
<1>5. CASE LooperClear
  <2>1. /\ pc' = [pc EXCEPT ![Looper] = "clear"] /\ lpc = "exit" /\ lpc' = "clearing"
        /\ closing' = closing /\ destroyed' = destroyed
    BY <1>5 DEF LooperClear, LockAndFree
  <2> QED BY <1>0, <2>1 DEF LooperCallInv, ClosingInv
<1>6. CASE DestroyFree
  <2>1. /\ lpc' = lpc /\ pc' = pc /\ closing' = closing /\ destroyed' = TRUE
        /\ closing # None /\ pc[closing] = "idle" /\ threadMutex = None /\ threadExit
    BY <1>6 DEF DestroyFree
  <2>2. lpc = "none"
    BY <2>1 DEF TypeInv, ThreadInv
  <2> QED BY <2>1, <2>2 DEF LooperCallInv, ClosingInv
\* A call that begins: by a client while nobody destroys the looper, or by a handler.
<1>7. ASSUME NEW p \in Thread, CanCall(p), NEW k \in CallPc,
             pc' = pc \/ pc' = [pc EXCEPT ![p] = k],
             closing' = closing, destroyed' = destroyed,
             lpc' = lpc \/ (lpc = "none" /\ lpc' = "lock" /\ p # Looper)
      PROVE  LooperCallInv' /\ ClosingInv'
  <2>1. CASE p = Looper
    BY <1>0, <1>7, <2>1 DEF CanCall, LooperCallInv, ClosingInv
  <2>2. CASE p # Looper
    BY <1>0, <1>7, <2>2 DEF CanCall, LooperCallInv, ClosingInv
  <2> QED BY <2>1, <2>2
<1>8. ASSUME NEW p \in Thread, Call(p)
      PROVE  LooperCallInv' /\ ClosingInv'
  <2>1. ASSUME NEW m \in Msg, NEW delay \in Nat, NEW to \in CallPc,
               PostBegin(p, m, delay, to)
        PROVE  LooperCallInv' /\ ClosingInv'
    <3>1. /\ CanCall(p) /\ (pc' = pc \/ pc' = [pc EXCEPT ![p] = to])
          /\ closing' = closing /\ destroyed' = destroyed /\ lpc' = lpc
      BY <2>1 DEF PostBegin
    <3> QED BY <1>7, <2>1, <3>1 DEF PostBegin
  <2>2. ASSUME NEW M, NEW kind \in CallPc, FreeCall(p, M, kind)
        PROVE  LooperCallInv' /\ ClosingInv'
    <3>1. /\ CanCall(p) /\ pc' = [pc EXCEPT ![p] = kind]
          /\ closing' = closing /\ destroyed' = destroyed /\ lpc' = lpc
      BY <2>2 DEF FreeCall, LockAndFree
    <3> QED BY <1>7, <3>1
  <2>3. CASE mlooper_start(p)
    <3>1. /\ CanCall(p) /\ p \in Client /\ pc' = pc
          /\ closing' = closing /\ destroyed' = destroyed /\ threadMutex = None /\ threadExit
          /\ lpc' = lpc \/ lpc' = "lock"
      BY <2>3 DEF mlooper_start
    <3>2. lpc = "none"
      BY <3>1 DEF TypeInv, ThreadInv
    <3>3. "idle" \in CallPc
      BY DEF CallPc
    <3> QED BY <1>0, <1>7, <3>1, <3>2, <3>3
  <2>4. CASE mlooper_stop(p)
    <3>1. /\ pc' = [pc EXCEPT ![p] = "stop"] /\ lpc' = lpc /\ ~threadExit
          /\ closing' = closing /\ destroyed' = destroyed /\ p \in Client
          /\ CanCall(p) \/ (closing = p /\ pc[p] = "idle")
      BY <2>4 DEF mlooper_stop
    <3>2. lpc # "none"
      BY <3>1 DEF TypeInv, ThreadInv
    <3>3. "stop" \in CallPc
      BY DEF CallPc
    <3>4. CASE CanCall(p)
      BY <1>7, <3>1, <3>3, <3>4
    <3>5. CASE closing = p
      BY <1>0, <3>1, <3>2, <3>5 DEF LooperCallInv, ClosingInv
    <3> QED BY <3>1, <3>4, <3>5
  <2>5. CASE mlooper_destroy(p)
    <3>1. /\ lpc' = lpc /\ pc' = pc /\ closing = None /\ closing' = p /\ p \in Client
          /\ destroyed' = destroyed /\ \A q \in Client : pc[q] = "idle"
      BY <2>5 DEF mlooper_destroy
    <3> QED BY <1>0, <3>1 DEF LooperCallInv, ClosingInv
  <2> QED BY <1>8, <2>1, <2>2, <2>3, <2>4, <2>5 DEF Call, CallPc,
             mlooper_post_message_front, mlooper_post_message_delay,
             mlooper_remove_message, mlooper_remove_message_if,
             mlooper_remove_self_message, mlooper_remove_self_message_if,
             mlooper_clear_self_message, mlooper_clear_message
\* A call that goes on or returns.
<1>9. ASSUME NEW p \in Thread, pc[p] # "idle", NEW k \in CallPc,
             pc' = [pc EXCEPT ![p] = k],
             k = "idle" \/ (k = "join" /\ pc[p] = "stop") \/ pc[p] \notin {"stop", "join"},
             closing' = closing, destroyed' = destroyed,
             \/ lpc' = lpc /\ (lpc # "clearing" \/ p # Looper)
             \/ lpc \in {"wait", "timedwait"} /\ lpc' = "lock"
             \/ lpc = "clearing" /\ lpc' = "returned" /\ p = Looper /\ k = "idle"
             \/ lpc = "returned" /\ lpc' = "none"
      PROVE  LooperCallInv' /\ ClosingInv'
  <2>1. pc'[p] = k /\ \A q \in Thread \ {p} : pc'[q] = pc[q]
    BY <1>0, <1>9
  <2>2. p = Looper => pc[p] # "stop"
    BY <1>0 DEF TypeInv, ThreadInv
  <2>3. LooperCallInv'
    BY <1>0, <1>9, <2>1, <2>2 DEF LooperCallInv
  <2>4. destroyed => closing # p
    BY <1>9 DEF ClosingInv
  <2>5. ClosingInv'
    BY <1>0, <1>9, <2>1, <2>4 DEF ClosingInv, LooperCallInv
  <2> QED BY <2>3, <2>5
<1>10. ASSUME NEW p \in Thread, Finish(p)
       PROVE  LooperCallInv' /\ ClosingInv'
  <2>1. CASE PostDelayInsert(p) \/ PostFrontInsert(p)
    <3>1. /\ pc[p] \in {"post_delay", "post_front"} /\ pc' = [pc EXCEPT ![p] = "posted"]
          /\ closing' = closing /\ destroyed' = destroyed /\ lpc' = lpc
          /\ "posted" \in CallPc
      BY <2>1 DEF PostDelayInsert, PostFrontInsert, Insert, CallPc
    <3>2. lpc = "clearing" => p # Looper
      BY <3>1 DEF LooperCallInv
    <3> QED BY <1>9, <3>1, <3>2
  <2>6. CASE PostEnd(p) \/ FreeCount(p)
    <3>1. /\ pc[p] \in {"posted", "removed"}
          /\ \E k \in {"idle", "remove"} : pc' = [pc EXCEPT ![p] = k]
          /\ closing' = closing /\ destroyed' = destroyed
          /\ lpc' = lpc \/ (lpc \in {"wait", "timedwait"} /\ lpc' = "lock")
      BY <2>6 DEF PostEnd, FreeCount, Signal, WakeUp
    <3>2. lpc = "clearing" => p # Looper
      BY <3>1 DEF LooperCallInv
    <3>3. {"idle", "remove"} \subseteq CallPc
      BY DEF CallPc
    <3> QED BY <1>9, <3>1, <3>2, <3>3
  <2>2. CASE FreeOne(p)
    <3>1. /\ lpc' = lpc /\ closing' = closing /\ destroyed' = destroyed
          /\ pc[p] \in {"remove", "clear"}
          /\ pc' = [pc EXCEPT ![p] = IF @ = "remove" THEN "removed" ELSE @]
      BY <2>2 DEF FreeOne
    <3>2. CASE pc[p] = "remove"
      <4>1. pc' = [pc EXCEPT ![p] = "removed"] /\ "removed" \in CallPc
        BY <3>1, <3>2 DEF CallPc
      <4>2. lpc = "clearing" => p # Looper
        BY <3>2 DEF LooperCallInv
      <4> QED BY <1>9, <3>1, <3>2, <4>1, <4>2
    <3>3. CASE pc[p] = "clear"
      <4>1. pc' = pc
        BY <1>0, <3>1, <3>3
      <4> QED BY <3>1, <4>1 DEF LooperCallInv, ClosingInv
    <3> QED BY <3>1, <3>2, <3>3
  <2>3. CASE FreeEnd(p)
    <3>1. /\ pc[p] \in {"remove", "clear"} /\ pc' = [pc EXCEPT ![p] = "idle"]
          /\ closing' = closing /\ destroyed' = destroyed
          /\ lpc' = IF p = Looper /\ lpc = "clearing" THEN "returned" ELSE lpc
          /\ "idle" \in CallPc
      BY <2>3 DEF FreeEnd, CallPc
    <3> QED BY <1>9, <3>1
  <2>4. CASE StopSignal(p)
    <3>1. /\ pc[p] = "stop" /\ pc' = [pc EXCEPT ![p] = "join"]
          /\ closing' = closing /\ destroyed' = destroyed
          /\ lpc' = lpc \/ (lpc \in {"wait", "timedwait"} /\ lpc' = "lock")
      BY <2>4 DEF StopSignal, Signal, WakeUp
    <3>2. p # Looper
      BY <1>0, <3>1 DEF TypeInv, ThreadInv
    <3>3. "join" \in CallPc
      BY DEF CallPc
    <3> QED BY <1>9, <3>1, <3>2, <3>3
  <2>5. CASE StopJoin(p)
    <3>1. /\ pc[p] = "join" /\ pc' = [pc EXCEPT ![p] = "idle"]
          /\ closing' = closing /\ destroyed' = destroyed
          /\ lpc = "returned" /\ lpc' = "none" /\ "idle" \in CallPc
      BY <2>5 DEF StopJoin, CallPc
    <3> QED BY <1>9, <3>1
  <2> QED BY <1>10, <2>1, <2>2, <2>3, <2>4, <2>5, <2>6 DEF Finish
<1> QED BY <1>1, <1>3, <1>4, <1>5, <1>6, <1>8, <1>10 DEF Next, LooperStep

\* A step that touches no message: neither the list, nor what is posted or in
\* hand, nor what the callbacks saw.
Quiet == /\ UNCHANGED <<msgList, when, state, node, calls, sent>>
         /\ \A q \in Thread : Posting(q)' = Posting(q)
         /\ \/ lpc' = lpc
            \/ lpc = "taken" /\ lpc' = "deliver"
            \/ /\ lpc \notin {"taken", "deliver", "handling", "free"}
               /\ lpc' \notin {"taken", "deliver", "handling", "free"}

\* Every step is quiet, or the post, the insertion, the removal or one of the
\* looper thread's steps with a message.
LEMMA NextCases ==
  TypeInv /\ LooperCallInv /\ [Next]_vars =>
    \/ Quiet /\ clock' \in {clock, clock + 1}
    \/ \E p \in Thread, m \in Msg, delay \in Nat, to \in {"post_front", "post_delay"} :
         PostBegin(p, m, delay, to)
    \/ \E p \in Thread : PostDelayInsert(p) \/ PostFrontInsert(p) \/ FreeOne(p)
    \/ LooperTake \/ LooperTimeout \/ LooperHandle \/ LooperHandled
    \/ LooperNoHandler \/ LooperFree
<1> SUFFICES ASSUME TypeInv, LooperCallInv, [Next]_vars,
                    ~ \E p \in Thread, m \in Msg, delay \in Nat, to \in {"post_front", "post_delay"} :
                        PostBegin(p, m, delay, to),
                    ~ \E p \in Thread : PostDelayInsert(p) \/ PostFrontInsert(p) \/ FreeOne(p),
                    ~ (\/ LooperTake \/ LooperTimeout \/ LooperHandle \/ LooperHandled
                       \/ LooperNoHandler \/ LooperFree)
             PROVE  Quiet /\ clock' \in {clock, clock + 1}
  OBVIOUS
<1> USE ConstantsAssumption DEF nodeVars, listVars, threadVars, looperVars,
        callVars, appVars, histVars, bounds
<1>0. /\ Looper \in Thread /\ pc \in [Thread -> CallPc] /\ arg \in [Thread -> SUBSET Msg]
  BY DEF Thread, TypeInv, TypeOK
<1> DEFINE Busy == {"taken", "deliver", "handling", "free"}
           Posts == {"post_front", "post_delay"}
           Same == UNCHANGED <<msgList, when, state, node, calls, sent>>
\* The steps that change pc[p] at most, from and to a place where p posts nothing.
<1>1. ASSUME NEW p \in Thread, NEW k, k \notin Posts, pc[p] \notin Posts,
             pc' = pc \/ pc' = [pc EXCEPT ![p] = k],
             \A q \in Thread \ {p} : arg'[q] = arg[q],
             pc' = pc => arg' = arg
      PROVE  \A q \in Thread : Posting(q)' = Posting(q)
  <2>1. SUFFICES ASSUME NEW q \in Thread PROVE Posting(q)' = Posting(q)
    OBVIOUS
  <2>2. q = p => pc[q] \notin Posts /\ pc'[q] \notin Posts
    BY <1>0, <1>1
  <2>3. q # p => pc'[q] = pc[q] /\ arg'[q] = arg[q]
    BY <1>0, <1>1
  <2> QED BY <2>2, <2>3 DEF Posting
<1>2. CASE \/ UNCHANGED vars \/ Terminated \/ Tick \/ LooperWait \/ LooperExit
           \/ LooperTimedWait \/ LooperWakeUp \/ LooperSpuriousWakeUp \/ DestroyFree
  <2>1. /\ Same /\ pc' = pc /\ arg' = arg /\ clock' \in {clock, clock + 1}
        /\ lpc' = lpc \/ (lpc \notin Busy /\ lpc' \notin Busy)
    BY <1>2 DEF vars, Terminated, Tick, LooperWait, LooperExit, LooperTimedWait,
          LooperWakeUp, LooperSpuriousWakeUp, DestroyFree, AtTop, WakeUp
  <2>2. \A q \in Thread : Posting(q)' = Posting(q)
    BY <2>1 DEF Posting
  <2> QED BY <2>1, <2>2 DEF Quiet
<1>6. CASE LooperCount
  <2>1. /\ Same /\ pc' = pc /\ arg' = arg /\ clock' = clock
        /\ lpc = "taken" /\ lpc' = "deliver"
    BY <1>6 DEF LooperCount
  <2>2. \A q \in Thread : Posting(q)' = Posting(q)
    BY <2>1 DEF Posting
  <2> QED BY <2>1, <2>2 DEF Quiet
<1>3. CASE LooperClear
  <2>1. /\ Same /\ clock' = clock /\ lpc = "exit" /\ lpc' = "clearing"
        /\ pc' = [pc EXCEPT ![Looper] = "clear"]
        /\ \A q \in Thread \ {Looper} : arg'[q] = arg[q]
    BY <1>0, <1>3 DEF LooperClear, LockAndFree
  <2>2. pc[Looper] = "idle"
    BY <2>1 DEF LooperCallInv
  <2>3. pc' # pc
    BY <1>0, <2>1, <2>2
  <2>4. \A q \in Thread : Posting(q)' = Posting(q)
    BY <1>0, <1>1, <2>1, <2>2, <2>3
  <2> QED BY <2>1, <2>4 DEF Quiet
<1>4. ASSUME NEW p \in Thread, Call(p)
      PROVE  Quiet /\ clock' \in {clock, clock + 1}
  <2>1. ASSUME NEW M, NEW kind \in {"remove", "clear"}, FreeCall(p, M, kind)
        PROVE  Quiet /\ clock' \in {clock, clock + 1}
    <3>1. /\ Same /\ clock' = clock /\ lpc' = lpc /\ pc[p] = "idle"
          /\ pc' = [pc EXCEPT ![p] = kind]
          /\ \A q \in Thread \ {p} : arg'[q] = arg[q]
      BY <1>0, <2>1 DEF FreeCall, LockAndFree, CanCall
    <3>2. pc' # pc
      BY <1>0, <3>1
    <3>3. \A q \in Thread : Posting(q)' = Posting(q)
      BY <1>1, <3>1, <3>2
    <3> QED BY <3>1, <3>3 DEF Quiet
  <2>2. CASE mlooper_start(p) \/ mlooper_stop(p) \/ mlooper_destroy(p)
    <3>1. /\ Same /\ clock' = clock /\ arg' = arg /\ (pc[p] = "idle" \/ pc' = pc)
          /\ pc' = pc \/ pc' = [pc EXCEPT ![p] = "stop"]
      BY <2>2 DEF mlooper_start, mlooper_stop, mlooper_destroy, CanCall
    <3>2. lpc' = lpc \/ (lpc = "none" /\ lpc' = "lock")
      <4>1. threadMutex = None /\ threadExit => lpc = "none"
        BY DEF TypeInv, ThreadInv
      <4> QED BY <2>2, <4>1 DEF mlooper_start, mlooper_stop, mlooper_destroy
    <3>3. \A q \in Thread : Posting(q)' = Posting(q)
      <4>1. CASE pc' = pc
        BY <3>1, <4>1 DEF Posting
      <4>2. CASE pc' # pc
        BY <1>1, <3>1, <4>2
      <4> QED BY <4>1, <4>2
    <3> QED BY <3>1, <3>2, <3>3 DEF Quiet
  <2>3. ASSUME NEW m \in Msg
        PROVE  ~mlooper_post_message_front(p, m) /\ ~mlooper_post_message_delay(p, m)
    <3>1. \A delay \in Nat, to \in {"post_front", "post_delay"} : ~PostBegin(p, m, delay, to)
      OBVIOUS
    <3> QED BY <3>1 DEF mlooper_post_message_front, mlooper_post_message_delay
  <2> QED BY <1>4, <2>1, <2>2, <2>3 DEF Call,
             mlooper_remove_message, mlooper_remove_message_if,
             mlooper_remove_self_message, mlooper_remove_self_message_if,
             mlooper_clear_self_message, mlooper_clear_message
<1>5. ASSUME NEW p \in Thread, Finish(p)
      PROVE  Quiet /\ clock' \in {clock, clock + 1}
  <2>1. CASE FreeEnd(p)
    <3>1. /\ Same /\ clock' = clock /\ pc[p] \in {"remove", "clear"}
          /\ pc' = [pc EXCEPT ![p] = "idle"]
          /\ \A q \in Thread \ {p} : arg'[q] = arg[q]
          /\ lpc' = lpc \/ (lpc = "clearing" /\ lpc' = "returned")
      BY <1>0, <2>1 DEF FreeEnd
    <3>2. pc' # pc
      BY <1>0, <3>1
    <3>3. \A q \in Thread : Posting(q)' = Posting(q)
      BY <1>1, <3>1, <3>2
    <3> QED BY <3>1, <3>3 DEF Quiet
  <2>2. CASE StopSignal(p) \/ StopJoin(p)
    <3>1. /\ Same /\ clock' = clock /\ pc[p] \in {"stop", "join"} /\ arg' = arg
          /\ pc' = [pc EXCEPT ![p] = "join"] \/ pc' = [pc EXCEPT ![p] = "idle"]
          /\ lpc' = lpc \/ (lpc \notin Busy /\ lpc' \notin Busy)
      BY <2>2 DEF StopSignal, StopJoin, Signal, WakeUp
    <3>2. \A q \in Thread : Posting(q)' = Posting(q)
      BY <1>1, <3>1
    <3> QED BY <3>1, <3>2 DEF Quiet
  <2>3. CASE PostEnd(p) \/ FreeCount(p)
    <3>1. /\ Same /\ clock' = clock /\ pc[p] \in {"posted", "removed"} /\ arg' = arg
          /\ pc' = [pc EXCEPT ![p] = "remove"] \/ pc' = [pc EXCEPT ![p] = "idle"]
          /\ lpc' = lpc \/ (lpc \notin Busy /\ lpc' \notin Busy)
      BY <2>3 DEF PostEnd, FreeCount, Signal, WakeUp
    <3>2. \A q \in Thread : Posting(q)' = Posting(q)
      BY <1>1, <3>1
    <3> QED BY <3>1, <3>2 DEF Quiet
  <2> QED BY <1>5, <2>1, <2>2, <2>3 DEF Finish
<1> QED BY <1>2, <1>3, <1>4, <1>5, <1>6 DEF Next, LooperStep

\* The lists of callbacks that a message can have.
LEMMA CallLists ==
  /\ Append(<<>>, "timeout") = <<"timeout">> /\ Append(<<>>, "handle") = <<"handle">>
  /\ <<>> \o FreeCallbacks("DISCARDED") = <<"discard", "free">>
  /\ <<"handle">> \o FreeCallbacks("HANDLED") = <<"handle", "free">>
  /\ <<"timeout">> \o FreeCallbacks("TIMEOUT") = <<"timeout", "discard", "free">>
<1>0. "handle" \in Callback /\ "timeout" \in Callback /\ "discard" \in Callback /\ "free" \in Callback
  BY DEF Callback
<1>1. Append(<<>>, "timeout") = <<"timeout">> /\ Append(<<>>, "handle") = <<"handle">>
  OBVIOUS
<1>2. <<>> \o <<"discard", "free">> = <<"discard", "free">>
  OBVIOUS
<1>3. <<"handle">> \o <<"free">> = <<"handle", "free">>
  <2> DEFINE t == <<"handle">> \o <<"free">>
             u == <<"handle", "free">>
  <2>1. <<"handle">> \in Seq(Callback) /\ <<"free">> \in Seq(Callback) /\ u \in Seq(Callback)
    BY <1>0
  <2>2. t \in Seq(Callback) /\ Len(t) = 2 /\ t[1] = "handle" /\ t[2] = "free"
    BY <2>1, ConcatProperties
  <2>3. Len(u) = 2 /\ u[1] = "handle" /\ u[2] = "free"
    OBVIOUS
  <2> HIDE DEF t, u
  <2>4. \A i \in 1..2 : t[i] = u[i]
    BY <2>2, <2>3
  <2>5. t = u
    BY <2>1, <2>2, <2>3, <2>4, SeqEqual
  <2> QED BY <2>5 DEF t, u
<1>4. <<"timeout">> \o <<"discard", "free">> = <<"timeout", "discard", "free">>
  <2> DEFINE t == <<"timeout">> \o <<"discard", "free">>
             u == <<"timeout", "discard", "free">>
  <2>1. <<"timeout">> \in Seq(Callback) /\ <<"discard", "free">> \in Seq(Callback) /\ u \in Seq(Callback)
    BY <1>0
  <2>2. t \in Seq(Callback) /\ Len(t) = 3 /\ t[1] = "timeout" /\ t[2] = "discard" /\ t[3] = "free"
    BY <2>1, ConcatProperties
  <2>3. Len(u) = 3 /\ u[1] = "timeout" /\ u[2] = "discard" /\ u[3] = "free"
    OBVIOUS
  <2> HIDE DEF t, u
  <2>4. \A i \in 1..3 : t[i] = u[i]
    BY <2>2, <2>3
  <2>5. t = u
    BY <2>1, <2>2, <2>3, <2>4, SeqEqual
  <2> QED BY <2>5 DEF t, u
<1> QED BY <1>1, <1>2, <1>3, <1>4 DEF FreeCallbacks

\* What an insertion does to the messages: m goes from the hands of p to
\* position i, by its due time or in front of all others.
Inserted(p, m, i) ==
  /\ msgList' = InsertAt(msgList, i, m) /\ Queued' = Queued \cup {m}
  /\ (IsInjective(msgList) /\ m \notin Queued) => IsInjective(msgList')
  /\ Posting(p)' = {} /\ \A q \in Thread \ {p} : Posting(q)' = Posting(q)
  /\ UNCHANGED <<clock, state, node, calls, lpc>>
  /\ late' = IF lpc \in {"none", "returned"} THEN late \cup {m} ELSE late
  /\ \/ when' = when /\ i \in DelayPos(m) /\ sent' = Append(sent, m)
     \/ when' = [when EXCEPT ![m] = FrontWhen(m)] /\ i = 1 /\ sent' = sent

\* Both posting functions end with such an insertion of the message they post.
LEMMA InsertEffect ==
  ASSUME TypeInv, NEW p \in Thread, PostDelayInsert(p) \/ PostFrontInsert(p)
  PROVE  \E m \in Posting(p), i \in 1..Len(msgList)+1 : Inserted(p, m, i)
<1>0. /\ msgList \in Seq(Msg) /\ Len(msgList) \in Nat
      /\ pc \in [Thread -> CallPc] /\ arg \in [Thread -> SUBSET Msg]
  BY LenProperties DEF TypeInv, TypeOK
<1>1. arg[p] = Posting(p) /\ arg[p] \subseteq Msg
  BY <1>0 DEF PostDelayInsert, PostFrontInsert, Posting
<1>2. PICK m \in arg[p], i \in 1..Len(msgList)+1 :
        /\ Insert(p, m, i)
        /\ \/ when' = when /\ i \in DelayPos(m) /\ sent' = Append(sent, m)
           \/ when' = [when EXCEPT ![m] = FrontWhen(m)] /\ i = 1 /\ sent' = sent
  <2>1. CASE PostDelayInsert(p)
    <3>1. PICK m \in arg[p] : \E i \in DelayPos(m) : Insert(p, m, i) /\ sent' = Append(sent, m)
      BY <2>1 DEF PostDelayInsert
    <3>2. PICK i \in DelayPos(m) : Insert(p, m, i) /\ sent' = Append(sent, m)
      BY <3>1
    <3>3. i \in 1..Len(msgList)+1
      BY DEF DelayPos
    <3> QED BY <2>1, <3>2, <3>3 DEF PostDelayInsert, nodeVars
  <2>2. CASE PostFrontInsert(p)
    <3>1. PICK m \in arg[p] : when' = [when EXCEPT ![m] = FrontWhen(m)] /\ Insert(p, m, 1)
      BY <2>2 DEF PostFrontInsert
    <3>2. 1 \in 1..Len(msgList)+1
      BY <1>0
    <3> QED BY <2>2, <3>1, <3>2 DEF PostFrontInsert
  <2> QED BY <2>1, <2>2
<1>3. m \in Msg
  BY <1>1
<1>4. /\ msgList' = InsertAt(msgList, i, m) /\ Queued' = Queued \cup {m}
      /\ (IsInjective(msgList) /\ m \notin Queued) => IsInjective(msgList')
  BY <1>0, <1>2, <1>3, InsertAtElements DEF Insert, Queued
<1>5. Posting(p)' = {} /\ \A q \in Thread \ {p} : Posting(q)' = Posting(q)
  <2>1. /\ pc'[p] = "posted" /\ \A q \in Thread \ {p} : pc'[q] = pc[q] /\ arg'[q] = arg[q]
    BY <1>0, <1>2 DEF Insert
  <2> QED BY <2>1 DEF Posting
<1>6. /\ UNCHANGED <<clock, state, node, calls, lpc>>
      /\ late' = IF lpc \in {"none", "returned"} THEN late \cup {m} ELSE late
  BY <1>2 DEF PostDelayInsert, PostFrontInsert, nodeVars, looperVars, Insert
<1>7. Inserted(p, m, i)
  BY <1>2, <1>4, <1>5, <1>6 DEF Inserted
<1> QED BY <1>1, <1>2, <1>7

\* What a turn of the loop that frees messages does to them.
Removed(i) ==
  LET m == msgList[i] IN
  /\ m \in Queued
  /\ msgList' = RemoveAt(msgList, i)
  /\ IsInjective(msgList) => IsInjective(msgList') /\ Queued' = Queued \ {m}
  /\ state' = [state EXCEPT ![m] = "DISCARDED"]
  /\ calls' = [calls EXCEPT ![m] = @ \o FreeCallbacks("DISCARDED")]
  /\ \A q \in Thread : Posting(q)' = Posting(q)
  /\ UNCHANGED <<clock, node, when, sent, lpc, threadExit, wakeAt, late>>

\* A turn of a removal or of a clear is such a removal.
LEMMA FreeOneEffect ==
  ASSUME TypeInv, NEW p \in Thread, FreeOne(p)
  PROVE  \E i \in 1..Len(msgList) : Removed(i)
<1>0. msgList \in Seq(Msg) /\ Len(msgList) \in Nat /\ DOMAIN msgList = 1..Len(msgList)
  BY LenProperties DEF TypeInv, TypeOK
<1>1. PICK i \in 1..Len(msgList) :
        /\ msgList' = RemoveAt(msgList, i)
        /\ state' = [state EXCEPT ![msgList[i]] = "DISCARDED"]
        /\ calls' = [calls EXCEPT ![msgList[i]] = @ \o FreeCallbacks("DISCARDED")]
  BY <1>0 DEF FreeOne, mlooper_free_msgnode
<1>2. msgList[i] \in Queued
  BY <1>0 DEF Queued, ToSet
<1>3. /\ Queued' \subseteq Queued
      /\ \A x \in Queued : x = msgList[i] \/ x \in Queued'
      /\ IsInjective(msgList) => IsInjective(msgList') /\ msgList[i] \notin Queued'
  BY <1>0, <1>1, RemoveAtElements DEF Queued
<1>4. /\ UNCHANGED <<clock, node, when, sent, lpc, threadExit, wakeAt, late>>
      /\ arg' = arg /\ pc[p] \in {"remove", "clear"}
      /\ pc' = [pc EXCEPT ![p] = IF @ = "remove" THEN "removed" ELSE @]
  BY DEF FreeOne, threadVars, looperVars, histVars
<1>5. \A q \in Thread : Posting(q)' = Posting(q)
  <2>1. \A q \in Thread : \/ pc'[q] = pc[q]
                          \/ pc[q] = "remove" /\ pc'[q] = "removed"
    BY <1>4 DEF TypeInv, TypeOK
  <2> QED BY <1>4, <2>1 DEF Posting
<1>6. IsInjective(msgList) => IsInjective(msgList') /\ Queued' = Queued \ {msgList[i]}
  BY <1>2, <1>3
<1> QED BY <1>1, <1>2, <1>4, <1>5, <1>6 DEF Removed

\* What the looper thread does to the list when it takes a message.
LEMMA TakeEffect ==
  ASSUME TypeInv, LooperTake
  PROVE  /\ 1 \in 1..Len(msgList) /\ Head(msgList) = msgList[1] /\ node' = msgList[1]
         /\ msgList[1] \in Queued /\ msgList' = RemoveAt(msgList, 1)
         /\ IsInjective(msgList) => IsInjective(msgList') /\ Queued' = Queued \ {node'}
         /\ UNCHANGED <<clock, when, state, calls, sent, late>>
         /\ \A q \in Thread : Posting(q)' = Posting(q)
<1>0. msgList \in Seq(Msg) /\ Len(msgList) \in Nat /\ DOMAIN msgList = 1..Len(msgList)
  BY LenProperties DEF TypeInv, TypeOK
<1>1. /\ 1 \in 1..Len(msgList) /\ Head(msgList) = msgList[1]
      /\ node' = msgList[1] /\ msgList' = RemoveAt(msgList, 1)
  BY <1>0, TailIsRemoveAt DEF LooperTake
<1>2. msgList[1] \in Queued
  BY <1>0, <1>1 DEF Queued, ToSet
<1>3. /\ Queued' \subseteq Queued
      /\ \A x \in Queued : x = msgList[1] \/ x \in Queued'
      /\ IsInjective(msgList) => IsInjective(msgList') /\ msgList[1] \notin Queued'
  BY <1>0, <1>1, RemoveAtElements DEF Queued
<1>4. IsInjective(msgList) => IsInjective(msgList') /\ Queued' = Queued \ {node'}
  BY <1>1, <1>2, <1>3
<1>5. /\ UNCHANGED <<clock, when, state, calls, sent, late>> /\ pc' = pc /\ arg' = arg
  BY DEF LooperTake, nodeVars, callVars, histVars
<1>6. \A q \in Thread : Posting(q)' = Posting(q)
  BY <1>5 DEF Posting
<1> QED BY <1>1, <1>2, <1>4, <1>5, <1>6

\* Every step keeps the place, the state and the callbacks of every message in
\* agreement.
LEMMA NextLifeInv == TypeInv /\ LooperCallInv /\ LifeInv /\ [Next]_vars => LifeInv'
<1> SUFFICES ASSUME TypeInv, LooperCallInv, LifeInv, [Next]_vars PROVE LifeInv'
  OBVIOUS
<1>0. /\ node \in Msg \cup {None} /\ None \notin Msg
      /\ state \in [Msg -> MessageState] /\ calls \in [Msg -> Seq(Callback)]
      /\ Queued \subseteq Msg
      /\ pc \in [Thread -> CallPc] /\ arg \in [Thread -> SUBSET Msg]
      /\ node # None <=> lpc \in {"taken", "deliver", "handling", "free"}
  BY ConstantsAssumption, QueuedInMsg DEF TypeInv, TypeOK, HandInv
<1>1. \A p \in Thread : Posting(p) \subseteq Msg
  BY <1>0 DEF Posting
<1>2. PendingInv /\ InHandInv /\ CallsInv
  BY DEF LifeInv
<1>3. CASE Quiet
  <2>1. Queued' = Queued
    BY <1>3 DEF Quiet, Queued
  <2>2. PendingInv'
    BY <1>2, <1>3, <2>1 DEF Quiet, PendingInv
  <2>3. InHandInv' /\ CallsInv'
    BY <1>2, <1>3 DEF Quiet, InHandInv, CallsInv
  <2> QED BY <2>2, <2>3 DEF LifeInv
<1>4. ASSUME NEW p \in Thread, NEW m \in Msg, NEW delay \in Nat,
             NEW to \in {"post_front", "post_delay"}, PostBegin(p, m, delay, to)
      PROVE  LifeInv'
  <2>1. /\ state[m] = "UNKNOWN" /\ pc[p] = "idle"
        /\ msgList' = msgList /\ Queued' = Queued /\ node' = node /\ lpc' = lpc
    BY <1>4 DEF PostBegin, CanCall, listVars, looperVars, Queued
  <2>2. m \notin Queued /\ m # node /\ \A q \in Thread : m \notin Posting(q)
    BY <1>0, <1>2, <2>1 DEF PendingInv, InHandInv
  <2>3. calls[m] = <<>>
    BY <1>2, <2>1, <2>2 DEF CallsInv
  <2>4. CASE pc' = [pc EXCEPT ![p] = to]
    <3>1. /\ state' = [state EXCEPT ![m] = "PENDING"] /\ calls' = calls
          /\ arg' = [arg EXCEPT ![p] = {m}]
      BY <1>0, <1>4, <2>1, <2>4 DEF PostBegin
    <3>2. /\ Posting(p)' = {m}
          /\ \A q \in Thread \ {p} : Posting(q)' = Posting(q)
      BY <1>0, <2>4, <3>1 DEF Posting
    <3>3. PendingInv'
      <4>1. /\ state'[m] = "PENDING" /\ \A x \in Msg \ {m} : state'[x] = state[x]
        BY <1>0, <3>1
      <4>2. \A x \in Queued' : state'[x] = "PENDING"
        BY <1>0, <1>2, <2>1, <4>1 DEF PendingInv
      <4>3. ASSUME NEW q \in Thread, NEW x \in Posting(q)'
            PROVE  /\ state'[x] = "PENDING" /\ x \notin Queued' /\ x # node'
                   /\ \A r \in Thread \ {q} : x \notin Posting(r)'
        <5>1. CASE q = p
          BY <2>1, <2>2, <3>2, <4>1, <5>1
        <5>2. CASE q # p
          <6>1. x \in Posting(q) /\ x \in Msg
            BY <1>1, <3>2, <5>2
          <6>2. x # m
            BY <2>2, <6>1
          <6>3. /\ state'[x] = "PENDING" /\ x \notin Queued' /\ x # node'
                /\ \A r \in Thread \ {q} : x \notin Posting(r)
            BY <1>2, <2>1, <4>1, <6>1, <6>2 DEF PendingInv
          <6> QED BY <3>2, <6>2, <6>3
        <5> QED BY <5>1, <5>2
      <4> QED BY <1>2, <2>1, <4>2, <4>3 DEF PendingInv
    <3>4. InHandInv'
      BY <1>0, <1>2, <2>1, <2>2, <3>1 DEF InHandInv
    <3>5. CallsInv'
      BY <1>0, <1>2, <2>1, <2>2, <2>3, <3>1 DEF CallsInv
    <3> QED BY <3>3, <3>4, <3>5 DEF LifeInv
  <2>5. CASE pc' # [pc EXCEPT ![p] = to]
    <3>1. /\ state' = [state EXCEPT ![m] = "DISCARDED"] /\ pc' = pc /\ arg' = arg
          /\ calls' = [calls EXCEPT ![m] = @ \o FreeCallbacks("DISCARDED")]
      BY <1>4, <2>5 DEF PostBegin, mlooper_free_msgnode
    <3>2. \A q \in Thread : Posting(q)' = Posting(q)
      BY <3>1 DEF Posting
    <3>3. calls'[m] = <<"discard", "free">>
      BY <1>0, <2>3, <3>1, CallLists
    <3>4. PendingInv'
      BY <1>0, <1>1, <1>2, <2>1, <2>2, <3>1, <3>2 DEF PendingInv
    <3>5. InHandInv'
      BY <1>0, <1>2, <2>1, <2>2, <3>1 DEF InHandInv
    <3>6. CallsInv'
      BY <1>0, <1>2, <2>1, <2>2, <3>1, <3>3 DEF CallsInv, Finished
    <3> QED BY <3>4, <3>5, <3>6 DEF LifeInv
  <2> QED BY <2>4, <2>5
<1>5. ASSUME NEW p \in Thread, PostDelayInsert(p) \/ PostFrontInsert(p)
      PROVE  LifeInv'
  <2>1. PICK m \in Posting(p), i \in 1..Len(msgList)+1 : Inserted(p, m, i)
    BY <1>5, InsertEffect
  <2>2. /\ state[m] = "PENDING" /\ m \notin Queued /\ m # node
        /\ \A q \in Thread \ {p} : m \notin Posting(q)
    BY <1>2 DEF PendingInv
  <2>3. PendingInv'
    BY <1>2, <2>1, <2>2 DEF PendingInv, Inserted
  <2>4. InHandInv' /\ CallsInv'
    BY <1>2, <2>1 DEF InHandInv, CallsInv, Inserted
  <2> QED BY <2>3, <2>4 DEF LifeInv
<1>6. ASSUME NEW p \in Thread, FreeOne(p)
      PROVE  LifeInv'
  <2>1. PICK i \in 1..Len(msgList) : Removed(i)
    BY <1>6, FreeOneEffect
  <2> DEFINE m == msgList[i]
  <2>2. m \in Queued /\ state[m] = "PENDING" /\ m # node /\ calls[m] = <<>> /\ m \in Msg
    BY <1>0, <1>2, <2>1 DEF Removed, PendingInv, CallsInv
  <2>3. /\ IsInjective(msgList') /\ Queued' = Queued \ {m} /\ node' = node /\ lpc' = lpc
        /\ state' = [state EXCEPT ![m] = "DISCARDED"]
        /\ calls' = [calls EXCEPT ![m] = @ \o FreeCallbacks("DISCARDED")]
        /\ \A q \in Thread : Posting(q)' = Posting(q)
    BY <1>2, <2>1 DEF Removed, PendingInv
  <2>4. calls'[m] = <<"discard", "free">>
    BY <1>0, <2>2, <2>3, CallLists
  <2> HIDE DEF m
  <2>5. PendingInv'
    BY <1>0, <1>1, <1>2, <2>2, <2>3 DEF PendingInv
  <2>6. InHandInv'
    BY <1>0, <1>2, <2>2, <2>3 DEF InHandInv
  <2>7. CallsInv'
    BY <1>0, <1>2, <2>2, <2>3, <2>4 DEF CallsInv, Finished
  <2> QED BY <2>5, <2>6, <2>7 DEF LifeInv
<1>7. CASE LooperTake
  <2>1. /\ node' \in Queued /\ Queued' = Queued \ {node'} /\ IsInjective(msgList')
        /\ state' = state /\ calls' = calls
        /\ \A q \in Thread : Posting(q)' = Posting(q)
    BY <1>2, <1>7, TakeEffect DEF PendingInv
  <2>2. lpc' = "taken" /\ node = None
    BY <1>0, <1>7 DEF LooperTake, AtTop
  <2>3. state[node'] = "PENDING" /\ calls[node'] = <<>>
    BY <1>0, <1>2, <2>1 DEF PendingInv, CallsInv
  <2>4. PendingInv'
    BY <1>2, <2>1 DEF PendingInv
  <2>5. InHandInv'
    BY <2>1, <2>2, <2>3 DEF InHandInv
  <2>6. CallsInv'
    BY <1>0, <1>2, <2>1, <2>2 DEF CallsInv
  <2> QED BY <2>4, <2>5, <2>6 DEF LifeInv
\* The steps with the message in hand change nothing but that message.
<1>8. ASSUME lpc \in {"taken", "deliver", "handling", "free"}, NEW st \in MessageState,
             state' = state \/ state' = [state EXCEPT ![node] = st],
             \A m \in Msg \ {node} : calls'[m] = calls[m],
             msgList' = msgList, pc' = pc, arg' = arg, node' = node,
             InHandInv'
      PROVE  LifeInv'
  <2>1. node \in Msg /\ Queued' = Queued /\ \A q \in Thread : Posting(q)' = Posting(q)
    BY <1>0, <1>8 DEF Queued, Posting
  <2>2. \A m \in Msg \ {node} : state'[m] = state[m]
    BY <1>0, <1>8
  <2>3. PendingInv'
    BY <1>0, <1>1, <1>2, <1>8, <2>1, <2>2 DEF PendingInv
  <2>4. CallsInv'
    BY <1>2, <1>8, <2>2 DEF CallsInv
  <2> QED BY <1>8, <2>3, <2>4 DEF LifeInv
<1> DEFINE HandStep(st) == /\ lpc \in {"taken", "deliver", "handling", "free"}
                           /\ state' = [state EXCEPT ![node] = st]
                           /\ msgList' = msgList /\ pc' = pc /\ arg' = arg /\ node' = node
<1>9. CASE LooperTimeout
  <2>1. /\ lpc = "deliver" /\ lpc' = "free" /\ HandStep("TIMEOUT")
        /\ calls' = [calls EXCEPT ![node] = Append(@, "timeout")]
    BY <1>9 DEF LooperTimeout, listVars, callVars
  <2>2. node \in Msg /\ calls[node] = <<>> /\ "TIMEOUT" \in MessageState
    BY <1>0, <1>2, <2>1 DEF InHandInv, MessageState
  <2>3. calls'[node] = <<"timeout">> /\ \A m \in Msg \ {node} : calls'[m] = calls[m]
    BY <1>0, <2>1, <2>2, CallLists
  <2>4. InHandInv'
    BY <1>0, <2>1, <2>2, <2>3 DEF InHandInv
  <2> QED BY <1>8, <2>1, <2>2, <2>3, <2>4
<1>10. CASE LooperHandle
  <2>1. /\ lpc = "deliver" /\ lpc' = "handling" /\ HandStep("HANDLING")
        /\ calls' = [calls EXCEPT ![node] = Append(@, "handle")]
    BY <1>10 DEF LooperHandle, listVars, callVars
  <2>2. node \in Msg /\ calls[node] = <<>> /\ "HANDLING" \in MessageState
    BY <1>0, <1>2, <2>1 DEF InHandInv, MessageState
  <2>3. calls'[node] = <<"handle">> /\ \A m \in Msg \ {node} : calls'[m] = calls[m]
    BY <1>0, <2>1, <2>2, CallLists
  <2>4. InHandInv'
    BY <1>0, <2>1, <2>2, <2>3 DEF InHandInv
  <2> QED BY <1>8, <2>1, <2>2, <2>3, <2>4
<1>11. CASE LooperHandled
  <2>1. /\ lpc = "handling" /\ lpc' = "free" /\ HandStep("HANDLED") /\ calls' = calls
    BY <1>11 DEF LooperHandled, listVars, callVars
  <2>2. node \in Msg /\ calls[node] = <<"handle">> /\ "HANDLED" \in MessageState
    BY <1>0, <1>2, <2>1 DEF InHandInv, MessageState
  <2>3. InHandInv'
    BY <1>0, <2>1, <2>2 DEF InHandInv
  <2> QED BY <1>8, <2>1, <2>2, <2>3
<1>12. CASE LooperNoHandler
  <2>1. /\ lpc = "deliver" /\ lpc' = "free" /\ HandStep("DISCARDED") /\ calls' = calls
    BY <1>12 DEF LooperNoHandler, listVars, callVars
  <2>2. node \in Msg /\ calls[node] = <<>> /\ "DISCARDED" \in MessageState
    BY <1>0, <1>2, <2>1 DEF InHandInv, MessageState
  <2>3. InHandInv'
    BY <1>0, <2>1, <2>2 DEF InHandInv
  <2> QED BY <1>8, <2>1, <2>2, <2>3
<1>13. CASE LooperFree
  <2>1. /\ lpc = "free" /\ lpc' = "lock" /\ node' = None /\ state' = state
        /\ msgList' = msgList /\ pc' = pc /\ arg' = arg
        /\ calls' = [calls EXCEPT ![node] = @ \o FreeCallbacks(state[node])]
    BY <1>13 DEF LooperFree, listVars, callVars, nodeVars, mlooper_free_msgnode
  <2>2. node \in Msg /\ Queued' = Queued /\ \A q \in Thread : Posting(q)' = Posting(q)
    BY <1>0, <2>1 DEF Queued, Posting
  <2>3. /\ calls'[node] \in Finished
        /\ state[node] \in {"HANDLED", "TIMEOUT", "DISCARDED"}
    BY <1>0, <1>2, <2>1, <2>2, CallLists DEF InHandInv, Finished
  <2>4. PendingInv'
    BY <1>0, <1>1, <1>2, <2>1, <2>2 DEF PendingInv
  <2>5. InHandInv'
    BY <2>1 DEF InHandInv
  <2>6. CallsInv'
    BY <1>0, <1>2, <2>1, <2>2, <2>3 DEF CallsInv
  <2> QED BY <2>4, <2>5, <2>6 DEF LifeInv
<1> QED BY <1>3, <1>4, <1>5, <1>6, <1>7, <1>9, <1>10, <1>11, <1>12, <1>13, NextCases

\* The list after an insertion, position by position.
LEMMA InsertedAt ==
  ASSUME msgList \in Seq(Msg), NEW m \in Msg, NEW i \in 1..Len(msgList)+1,
         msgList' = InsertAt(msgList, i, m)
  PROVE  /\ Len(msgList') = Len(msgList) + 1 /\ DOMAIN msgList' = 1..Len(msgList)+1
         /\ \A j \in 1..Len(msgList)+1 :
              msgList'[j] = IF j < i THEN msgList[j] ELSE IF j = i THEN m ELSE msgList[j-1]
<1>1. msgList' \in Seq(Msg) /\ IsInsertion(msgList', msgList, i, m)
  BY InsertAtIs
<1> QED BY <1>1, LenProperties DEF IsInsertion

\* Every insertion finds a place that keeps the list sorted, and no other step
\* changes the due time of a message in it.
LEMMA NextListSorted == TypeInv /\ LooperCallInv /\ LifeInv /\ ListSorted /\ [Next]_vars => ListSorted'
<1> SUFFICES ASSUME TypeInv, LooperCallInv, LifeInv, ListSorted, [Next]_vars PROVE ListSorted'
  OBVIOUS
<1>0. /\ msgList \in Seq(Msg) /\ Len(msgList) \in Nat /\ DOMAIN msgList = 1..Len(msgList)
      /\ when \in [Msg -> Nat] /\ arg \in [Thread -> SUBSET Msg]
  BY LenProperties DEF TypeInv, TypeOK
<1>1. \A i \in 1..Len(msgList) : msgList[i] \in Queued /\ msgList[i] \in Msg
  BY <1>0, QueuedInMsg DEF Queued, ToSet
<1>2. \A i, j \in 1..Len(msgList) : i < j => when[msgList[i]] <= when[msgList[j]]
  BY <1>0 DEF ListSorted
<1>3. ASSUME msgList' = msgList, \A x \in Queued : when'[x] = when[x]
      PROVE  ListSorted'
  BY <1>0, <1>1, <1>2, <1>3 DEF ListSorted
\* What is left after a removal is in order.
<1>4. ASSUME NEW i \in 1..Len(msgList), msgList' = RemoveAt(msgList, i), when' = when
      PROVE  ListSorted'
  <2>1. msgList' \in Seq(Msg) /\ IsRemoval(msgList', msgList, i)
    BY <1>0, <1>4, RemoveAtIs
  <2>2. DOMAIN msgList' = 1..Len(msgList)-1
    BY <1>0, <2>1, LenProperties DEF IsRemoval
  <2>3. SUFFICES ASSUME NEW k \in 1..Len(msgList)-1, NEW l \in 1..Len(msgList)-1, k < l
                 PROVE  when[msgList'[k]] <= when[msgList'[l]]
    BY <1>4, <2>2 DEF ListSorted
  <2>4. PICK k0 \in 1..Len(msgList) : msgList'[k] = msgList[k0] /\ k0 = IF k < i THEN k ELSE k+1
    BY <1>0, <2>1, BeforeRemoval
  <2>5. PICK l0 \in 1..Len(msgList) : msgList'[l] = msgList[l0] /\ l0 = IF l < i THEN l ELSE l+1
    BY <1>0, <2>1, BeforeRemoval
  <2>6. k0 < l0
    BY <2>3, <2>4, <2>5
  <2> QED BY <1>2, <2>4, <2>5, <2>6
<1>5. CASE Quiet
  BY <1>3, <1>5 DEF Quiet
<1>6. ASSUME NEW p \in Thread, NEW m \in Msg, NEW delay \in Nat,
             NEW to \in {"post_front", "post_delay"}, PostBegin(p, m, delay, to)
      PROVE  ListSorted'
  <2>1. m \notin Queued
    BY <1>6 DEF PostBegin, LifeInv, PendingInv
  <2>2. msgList' = msgList /\ \A x \in Msg \ {m} : when'[x] = when[x]
    BY <1>0, <1>6 DEF PostBegin, listVars
  <2> QED BY <1>0, <1>3, <2>1, <2>2, QueuedInMsg
<1>7. ASSUME NEW p \in Thread, PostDelayInsert(p) \/ PostFrontInsert(p)
      PROVE  ListSorted'
  <2>1. PICK m \in Posting(p), i \in 1..Len(msgList)+1 : Inserted(p, m, i)
    BY <1>7, InsertEffect
  <2>2. m \notin Queued /\ m \in Msg
    BY <1>0, <2>1 DEF LifeInv, PendingInv, Posting
  <2>3. /\ Len(msgList') = Len(msgList) + 1 /\ DOMAIN msgList' = 1..Len(msgList)+1
        /\ \A j \in 1..Len(msgList)+1 :
             msgList'[j] = IF j < i THEN msgList[j] ELSE IF j = i THEN m ELSE msgList[j-1]
    BY <1>0, <2>1, <2>2, InsertedAt DEF Inserted
  <2>4. \A x \in Queued : when'[x] = when[x] /\ when[x] \in Nat
    BY <1>0, <2>1, <2>2, QueuedInMsg DEF Inserted
  \* Around its position the new message fits.
  <2>5. /\ when'[m] \in Nat
        /\ \A j \in 1..Len(msgList) : IF j < i THEN when[msgList[j]] <= when'[m]
                                               ELSE when'[m] <= when[msgList[j]]
    <3>1. CASE when' = when /\ i \in DelayPos(m)
      <4>1. /\ i > 1 => when[m] >= when[msgList[i-1]]
            /\ \A j \in i..Len(msgList) : when[m] < when[msgList[j]]
        BY <3>1 DEF DelayPos
      <4>2. ASSUME NEW j \in 1..Len(msgList), j < i
            PROVE  when[msgList[j]] <= when[m]
        <5>1. i-1 \in 1..Len(msgList) /\ (j = i-1 \/ j < i-1) /\ i > 1
          BY <1>0, <4>2
        <5>2. when[msgList[j]] <= when[msgList[i-1]] /\ when[msgList[i-1]] <= when[m]
          BY <1>0, <1>1, <1>2, <2>2, <4>1, <5>1
        <5> QED BY <1>0, <1>1, <2>2, <5>1, <5>2
      <4>3. ASSUME NEW j \in 1..Len(msgList), ~(j < i)
            PROVE  when[m] <= when[msgList[j]]
        <5>1. j \in i..Len(msgList)
          BY <4>3
        <5> QED BY <1>0, <1>1, <2>2, <4>1, <5>1
      <4> QED BY <1>0, <2>2, <3>1, <4>2, <4>3
    <3>2. CASE when' = [when EXCEPT ![m] = FrontWhen(m)] /\ i = 1
      <4>1. when'[m] = FrontWhen(m)
        BY <1>0, <2>2, <3>2
      <4>2. CASE msgList = <<>>
        BY <1>0, <2>2, <3>2, <4>1, <4>2 DEF FrontWhen
      <4>3. CASE msgList # <<>>
        <5>1. 1 \in 1..Len(msgList) /\ Head(msgList) = msgList[1]
          BY <1>0, <4>3, TailIsRemoveAt
        <5>2. when[Head(msgList)] \in Nat /\ when[m] \in Nat
          BY <1>0, <1>1, <2>2, <5>1
        <5>3. FrontWhen(m) \in Nat /\ FrontWhen(m) <= when[Head(msgList)]
          BY <5>2, <4>3 DEF FrontWhen
        <5>4. \A j \in 1..Len(msgList) : when[Head(msgList)] <= when[msgList[j]]
          <6>1. SUFFICES ASSUME NEW j \in 1..Len(msgList)
                         PROVE  when[msgList[1]] <= when[msgList[j]]
            BY <5>1
          <6>2. j = 1 \/ 1 < j
            OBVIOUS
          <6> QED BY <1>0, <1>1, <1>2, <5>1, <5>2, <6>2
        <5>5. ASSUME NEW j \in 1..Len(msgList)
              PROVE  FrontWhen(m) <= when[msgList[j]] /\ ~(j < i)
          BY <1>0, <1>1, <3>2, <5>2, <5>3, <5>4
        <5> QED BY <4>1, <5>3, <5>5
      <4> QED BY <4>2, <4>3
    <3> QED BY <2>1, <3>1, <3>2 DEF Inserted
  <2>6. SUFFICES ASSUME NEW k \in 1..Len(msgList)+1, NEW l \in 1..Len(msgList)+1, k < l
                 PROVE  when'[msgList'[k]] <= when'[msgList'[l]]
    BY <2>3 DEF ListSorted
  <2>7. CASE k = i
    <3>1. /\ msgList'[k] = m /\ msgList'[l] = msgList[l-1]
          /\ l-1 \in 1..Len(msgList) /\ ~(l-1 < i)
      <4>1. ~(k < i) /\ ~(l < i) /\ l # i /\ l-1 \in 1..Len(msgList) /\ ~(l-1 < i)
        BY <1>0, <2>6, <2>7
      <4> QED BY <2>3, <2>7, <4>1
    <3> QED BY <1>1, <2>4, <2>5, <3>1
  <2>8. CASE l = i
    <3>1. msgList'[l] = m /\ msgList'[k] = msgList[k] /\ k \in 1..Len(msgList) /\ k < i
      BY <1>0, <2>3, <2>6, <2>8
    <3> QED BY <1>1, <2>4, <2>5, <3>1
  <2>9. CASE k # i /\ l # i
    <3>0. ASSUME NEW j \in 1..Len(msgList)+1, j # i
          PROVE  \E j0 \in 1..Len(msgList) : /\ msgList'[j] = msgList[j0]
                                             /\ j0 = IF j < i THEN j ELSE j-1
      <4>1. (IF j < i THEN j ELSE j-1) \in 1..Len(msgList)
        BY <1>0, <3>0
      <4>2. msgList'[j] = msgList[IF j < i THEN j ELSE j-1]
        BY <2>3, <3>0
      <4> QED BY <4>1, <4>2
    <3>1. PICK k0 \in 1..Len(msgList) : msgList'[k] = msgList[k0] /\ k0 = IF k < i THEN k ELSE k-1
      BY <2>9, <3>0
    <3>2. PICK l0 \in 1..Len(msgList) : msgList'[l] = msgList[l0] /\ l0 = IF l < i THEN l ELSE l-1
      BY <2>9, <3>0
    <3>3. k0 < l0
      BY <2>6, <2>9, <3>1, <3>2
    <3> QED BY <1>1, <1>2, <2>4, <3>1, <3>2, <3>3
  <2> QED BY <2>7, <2>8, <2>9
<1>8. ASSUME NEW p \in Thread, FreeOne(p)
      PROVE  ListSorted'
  BY <1>4, <1>8, FreeOneEffect DEF Removed
<1>9. CASE LooperTake
  BY <1>4, <1>9, TakeEffect
<1>10. CASE LooperTimeout \/ LooperHandle \/ LooperHandled \/ LooperNoHandler \/ LooperFree
  BY <1>3, <1>10 DEF LooperTimeout, LooperHandle, LooperHandled, LooperNoHandler,
       LooperFree, listVars, nodeVars
<1> QED BY <1>5, <1>6, <1>7, <1>8, <1>9, <1>10, NextCases

\* A message that has entered the list is never posted again.
LEMMA NextSentInv == TypeInv /\ LooperCallInv /\ LifeInv /\ SentInv /\ [Next]_vars => SentInv'
<1> SUFFICES ASSUME TypeInv, LooperCallInv, LifeInv, SentInv, [Next]_vars PROVE SentInv'
  OBVIOUS
<1>0. /\ sent \in Seq(Msg) /\ Len(sent) \in Nat /\ DOMAIN sent = 1..Len(sent)
      /\ state \in [Msg -> MessageState] /\ pc \in [Thread -> CallPc]
      /\ arg \in [Thread -> SUBSET Msg]
  BY LenProperties DEF TypeInv, TypeOK
<1>1. \A i \in 1..Len(sent) : sent[i] \in Msg
  BY <1>0
<1>2. ASSUME sent' = sent, \A m \in Msg : state[m] # "UNKNOWN" => state'[m] # "UNKNOWN",
             \A q \in Thread : \A m \in Posting(q)' : m \in Posting(q) \/ state[m] = "UNKNOWN"
      PROVE  SentInv'
  BY <1>0, <1>1, <1>2 DEF SentInv
<1>3. CASE Quiet
  BY <1>2, <1>3 DEF Quiet
<1>4. ASSUME NEW p \in Thread, NEW m \in Msg, NEW delay \in Nat,
             NEW to \in {"post_front", "post_delay"}, PostBegin(p, m, delay, to)
      PROVE  SentInv'
  <2>1. /\ sent' = sent /\ state[m] = "UNKNOWN"
        /\ \A x \in Msg \ {m} : state'[x] = state[x]
    BY <1>0, <1>4 DEF PostBegin, histVars
  <2>2. \A q \in Thread : \A x \in Posting(q)' : x \in Posting(q) \/ x = m
    <3>1. \/ pc' = pc /\ arg' = arg
          \/ pc' = [pc EXCEPT ![p] = to] /\ arg' = [arg EXCEPT ![p] = {m}]
      BY <1>4 DEF PostBegin
    <3> QED BY <1>0, <3>1 DEF Posting
  <2> QED BY <1>2, <2>1, <2>2
<1>5. ASSUME NEW p \in Thread, PostDelayInsert(p) \/ PostFrontInsert(p)
      PROVE  SentInv'
  <2>1. PICK m \in Posting(p), i \in 1..Len(msgList)+1 : Inserted(p, m, i)
    BY <1>5, InsertEffect
  <2>2. /\ m \in Msg /\ state[m] = "PENDING"
        /\ \A q \in Thread \ {p} : m \notin Posting(q)
    BY <1>0 DEF LifeInv, PendingInv, Posting
  <2>3. /\ state' = state /\ Posting(p)' = {}
        /\ \A q \in Thread \ {p} : Posting(q)' = Posting(q)
    BY <2>1 DEF Inserted
  <2>4. CASE sent' = sent
    BY <1>2, <2>3, <2>4
  <2>5. CASE sent' = Append(sent, m)
    <3>1. /\ Len(sent') = Len(sent) + 1 /\ DOMAIN sent' = 1..Len(sent)+1
          /\ sent'[Len(sent)+1] = m
          /\ \A j \in 1..Len(sent) : sent'[j] = sent[j]
      BY <1>0, <2>2, <2>5, AppendProperties, LenProperties
    <3>2. ASSUME NEW j \in 1..Len(sent)+1
          PROVE  state'[sent'[j]] # "UNKNOWN" /\ \A q \in Thread : sent'[j] \notin Posting(q)'
      <4>1. CASE j = Len(sent)+1
        BY <2>2, <2>3, <3>1, <4>1
      <4>2. CASE j # Len(sent)+1
        <5>1. j \in 1..Len(sent)
          BY <1>0, <4>2
        <5> QED BY <1>0, <2>3, <3>1, <5>1 DEF SentInv
      <4> QED BY <4>1, <4>2
    <3> QED BY <3>1, <3>2 DEF SentInv
  <2> QED BY <2>1, <2>4, <2>5 DEF Inserted
<1>6. ASSUME NEW p \in Thread, FreeOne(p)
      PROVE  SentInv'
  <2>1. PICK i \in 1..Len(msgList) : Removed(i)
    BY <1>6, FreeOneEffect
  <2> QED BY <1>0, <1>2, <2>1 DEF Removed
<1>7. CASE LooperTake
  BY <1>2, <1>7, TakeEffect
<1>8. CASE LooperTimeout \/ LooperHandle \/ LooperHandled \/ LooperNoHandler \/ LooperFree
  <2>1. /\ sent' = sent /\ pc' = pc /\ arg' = arg
        /\ \/ state' = state
           \/ \E st \in {"TIMEOUT", "HANDLING", "HANDLED", "DISCARDED"} : state' = [state EXCEPT ![node] = st]
    BY <1>8 DEF LooperTimeout, LooperHandle, LooperHandled, LooperNoHandler,
       LooperFree, histVars, callVars, nodeVars
  <2>2. \A q \in Thread : Posting(q)' = Posting(q)
    BY <2>1 DEF Posting
  <2> QED BY <1>0, <1>2, <2>1, <2>2
<1> QED BY <1>3, <1>4, <1>5, <1>6, <1>7, <1>8, NextCases

\* A removal keeps the order of the messages that it leaves.
LEMMA RemovedAhead ==
  ASSUME msgList \in Seq(Msg), NEW k \in 1..Len(msgList), msgList' = RemoveAt(msgList, k),
         NEW x, NEW y, Ahead(x, y)
  PROVE  Ahead(x, y)'
<1>1. Len(msgList) \in Nat /\ DOMAIN msgList = 1..Len(msgList)
  BY LenProperties
<1>2. msgList' \in Seq(Msg) /\ IsRemoval(msgList', msgList, k)
  BY <1>1, RemoveAtIs
<1>3. DOMAIN msgList' = 1..Len(msgList)-1
  BY <1>1, <1>2, LenProperties DEF IsRemoval
<1>4. SUFFICES ASSUME NEW i \in 1..Len(msgList)-1, NEW j \in 1..Len(msgList)-1,
                      msgList'[i] = x, msgList'[j] = y
               PROVE  i < j
  BY <1>3 DEF Ahead
<1>5. PICK i0 \in 1..Len(msgList) : msgList'[i] = msgList[i0] /\ i0 = IF i < k THEN i ELSE i+1
  BY <1>1, <1>2, BeforeRemoval
<1>6. PICK j0 \in 1..Len(msgList) : msgList'[j] = msgList[j0] /\ j0 = IF j < k THEN j ELSE j+1
  BY <1>1, <1>2, BeforeRemoval
<1>7. i0 < j0
  BY <1>1, <1>4, <1>5, <1>6 DEF Ahead
<1> QED BY <1>5, <1>6, <1>7

\* No step lets a message get ahead of an earlier one that is not due later.
LEMMA NextAheadInv ==
  TypeInv /\ LooperCallInv /\ LifeInv /\ SentInv /\ AheadInv /\ [Next]_vars => AheadInv'
<1> SUFFICES ASSUME TypeInv, LooperCallInv, LifeInv, SentInv, AheadInv, [Next]_vars
             PROVE  AheadInv'
  OBVIOUS
<1>0. /\ msgList \in Seq(Msg) /\ Len(msgList) \in Nat /\ DOMAIN msgList = 1..Len(msgList)
      /\ sent \in Seq(Msg) /\ Len(sent) \in Nat /\ DOMAIN sent = 1..Len(sent)
      /\ when \in [Msg -> Nat] /\ state \in [Msg -> MessageState]
      /\ calls \in [Msg -> Seq(Callback)]
      /\ arg \in [Thread -> SUBSET Msg] /\ Queued \subseteq Msg
      /\ node # None <=> lpc \in {"taken", "deliver", "handling", "free"}
      /\ node \in Msg \cup {None} /\ None \notin Msg
  BY LenProperties, QueuedInMsg, ConstantsAssumption DEF TypeInv, TypeOK, HandInv
<1>1. \A i \in 1..Len(msgList) : msgList[i] \in Queued /\ msgList[i] \in Msg
  BY <1>0 DEF Queued, ToSet
<1>2. \A i \in 1..Len(sent) : sent[i] \in Msg /\ state[sent[i]] # "UNKNOWN"
                              /\ \A p \in Thread : sent[i] \notin Posting(p)
  <2>1. \A i \in 1..Len(sent) : sent[i] \in Msg
    BY <1>0
  <2> QED BY <1>0, <2>1, Zenon DEF SentInv
<1>3. PendingInv /\ InHandInv /\ CallsInv
  BY DEF LifeInv
\* A step that moves nothing forward and takes nothing.
<1>4. ASSUME sent' = sent,
             \A i \in 1..Len(sent) : when'[sent[i]] = when[sent[i]],
             \A x \in Queued' : x \in Queued \/ \A i \in 1..Len(sent) : sent[i] # x,
             \A i, j \in 1..Len(sent) :
               i < j /\ when[sent[i]] <= when[sent[j]] /\ sent[i] \in Queued' /\ Taken(sent[j])'
                 => Taken(sent[j]),
             \A x, y \in Msg : Ahead(x, y) /\ x \in Queued => Ahead(x, y)' \/ \A i \in 1..Len(sent) : sent[i] # x \/ \A j \in 1..Len(sent) : sent[j] # y
      PROVE  AheadInv'
  BY ZenonT(30), <1>0, <1>2, <1>4 DEF AheadInv
<1>5. CASE Quiet
  <2>1. /\ sent' = sent /\ when' = when /\ Queued' = Queued /\ msgList' = msgList
        /\ \A x : Taken(x)' = Taken(x)
    BY <1>5 DEF Quiet, Queued, Taken
  <2>2. \A x, y \in Msg : Ahead(x, y) => Ahead(x, y)'
    BY <2>1 DEF Ahead
  <2> QED BY <1>4, <2>1, <2>2
<1>6. ASSUME NEW p \in Thread, NEW m \in Msg, NEW delay \in Nat,
             NEW to \in {"post_front", "post_delay"}, PostBegin(p, m, delay, to)
      PROVE  AheadInv'
  <2>1. /\ sent' = sent /\ state[m] = "UNKNOWN" /\ msgList' = msgList /\ node' = node
        /\ Queued' = Queued
        /\ \A x \in Msg \ {m} : when'[x] = when[x] /\ calls'[x] = calls[x]
    BY <1>0, <1>6 DEF PostBegin, histVars, listVars, looperVars, Queued,
       mlooper_free_msgnode
  <2>2. \A x \in Msg \ {m} : Taken(x)' = Taken(x)
    BY <2>1 DEF Taken
  <2>3. \A x, y \in Msg : Ahead(x, y) => Ahead(x, y)'
    BY <2>1 DEF Ahead
  <2>4. \A i \in 1..Len(sent) : sent[i] \in Msg \ {m}
    BY <1>2, <2>1
  <2> QED BY <1>4, <2>1, <2>2, <2>3, <2>4
<1>7. ASSUME NEW p \in Thread, FreeOne(p)
      PROVE  AheadInv'
  <2>1. PICK k \in 1..Len(msgList) : Removed(k)
    BY <1>7, FreeOneEffect
  <2> DEFINE m == msgList[k]
  <2>2. /\ m \in Msg /\ calls[m] = <<>>
    BY <1>0, <1>1, <1>3 DEF PendingInv, CallsInv
  <2>3. /\ calls'[m] = <<"discard", "free">> /\ \A x \in Msg \ {m} : calls'[x] = calls[x]
        /\ node' = node /\ m # node
    BY <1>0, <1>1, <1>3, <2>1, <2>2, CallLists DEF Removed, PendingInv
  <2>4. \A x \in Msg : Taken(x)' => Taken(x)
    <3>1. SUFFICES ASSUME NEW x \in Msg, Taken(x)' PROVE Taken(x)
      OBVIOUS
    <3>2. CASE x # m
      BY <2>3, <3>1, <3>2 DEF Taken
    <3>3. CASE x = m
      <4>1. \A l \in DOMAIN <<"discard", "free">> : <<"discard", "free">>[l] \notin {"handle", "timeout"}
        OBVIOUS
      <4> QED BY <2>3, <3>1, <3>3, <4>1 DEF Taken
    <3> QED BY <3>2, <3>3
  <2>5. \A x, y \in Msg : Ahead(x, y) => Ahead(x, y)'
    BY <1>0, <2>1, RemovedAhead DEF Removed
  <2>6. Queued' \subseteq Queued /\ sent' = sent /\ when' = when
    BY <1>3, <2>1 DEF Removed, PendingInv
  <2> QED BY <1>2, <1>4, <2>4, <2>5, <2>6
<1>8. CASE LooperTake
  <2>1. /\ node' = msgList[1] /\ 1 \in 1..Len(msgList) /\ sent' = sent /\ when' = when
        /\ calls' = calls /\ Queued' = Queued \ {node'} /\ node = None
    BY <1>0, <1>3, <1>8, TakeEffect DEF PendingInv, LooperTake, AtTop
  <2>2. \A x, y \in Msg : Ahead(x, y) => Ahead(x, y)'
    BY <1>0, <1>8, TakeEffect, RemovedAhead
  <2>3. ASSUME NEW i \in 1..Len(sent), NEW j \in 1..Len(sent),
               i < j, when[sent[i]] <= when[sent[j]], sent[i] \in Queued', Taken(sent[j])'
        PROVE  Taken(sent[j])
    <3>1. sent[i] \in Queued /\ sent[i] # msgList[1]
      BY <2>1, <2>3
    <3>2. PICK k \in 1..Len(msgList) : msgList[k] = sent[i]
      BY <1>0, <3>1 DEF Queued, ToSet
    <3>3. Ahead(sent[i], sent[j])
      BY <1>0, <2>3, <3>1 DEF AheadInv
    <3>4. sent[j] # msgList[1]
      <4>1. msgList[1] = sent[j] => k < 1
        BY <1>0, <2>1, <3>2, <3>3, Zenon DEF Ahead
      <4> QED BY <4>1
    <3> QED BY <2>1, <2>3, <3>4 DEF Taken
  <2> QED BY <1>2, <1>4, <2>1, <2>2, <2>3
<1>9. CASE LooperTimeout \/ LooperHandle \/ LooperHandled \/ LooperNoHandler \/ LooperFree
  <2>1. /\ sent' = sent /\ msgList' = msgList /\ when' = when /\ Queued' = Queued
        /\ node \in Msg /\ \A x \in Msg \ {node} : calls'[x] = calls[x]
        /\ node' = node \/ node' = None
    BY <1>0, <1>9 DEF LooperTimeout, LooperHandle, LooperHandled, LooperNoHandler,
       LooperFree, histVars, callVars, nodeVars, listVars, mlooper_free_msgnode, Queued
  <2>2. \A x \in Msg : Taken(x)' => Taken(x)
    BY <1>0, <2>1 DEF Taken
  <2>3. \A x, y \in Msg : Ahead(x, y) => Ahead(x, y)'
    BY <2>1 DEF Ahead
  <2> QED BY <1>2, <1>4, <2>1, <2>2, <2>3
<1>10. ASSUME NEW p \in Thread, PostDelayInsert(p) \/ PostFrontInsert(p)
       PROVE  AheadInv'
  <2>1. PICK m \in Posting(p), k \in 1..Len(msgList)+1 : Inserted(p, m, k)
    BY <1>10, InsertEffect
  <2>2. /\ m \in Msg /\ m \notin Queued /\ m # node /\ calls[m] = <<>>
        /\ \A j \in 1..Len(sent) : sent[j] # m
    BY <1>0, <1>2, <1>3 DEF PendingInv, CallsInv, Posting
  <2>3. /\ Queued' = Queued \cup {m} /\ node' = node /\ calls' = calls
        /\ \A x \in Msg \ {m} : when'[x] = when[x]
        /\ \A x : Taken(x)' = Taken(x)
    BY <1>0, <2>1, <2>2 DEF Inserted, Taken
  <2>4. /\ DOMAIN msgList' = 1..Len(msgList)+1
        /\ \A j \in 1..Len(msgList)+1 :
             msgList'[j] = IF j < k THEN msgList[j] ELSE IF j = k THEN m ELSE msgList[j-1]
    BY <1>0, <2>1, <2>2, InsertedAt DEF Inserted
  <2>5. ASSUME NEW j \in 1..Len(msgList)+1, j # k
        PROVE  \E j0 \in 1..Len(msgList) : /\ msgList'[j] = msgList[j0]
                                           /\ j0 = IF j < k THEN j ELSE j-1
    <3>1. (IF j < k THEN j ELSE j-1) \in 1..Len(msgList)
      BY <1>0, <2>5
    <3>2. msgList'[j] = msgList[IF j < k THEN j ELSE j-1]
      BY <2>4, <2>5
    <3> QED BY <3>1, <3>2
  <2>6. \A x, y \in Msg \ {m} : Ahead(x, y) => Ahead(x, y)'
    <3>1. SUFFICES ASSUME NEW x \in Msg \ {m}, NEW y \in Msg \ {m}, Ahead(x, y),
                          NEW i \in 1..Len(msgList)+1, NEW j \in 1..Len(msgList)+1,
                          msgList'[i] = x, msgList'[j] = y
                   PROVE  i < j
      BY <2>4 DEF Ahead
    <3>2. i # k /\ j # k
      BY <2>4, <3>1
    <3>3. PICK i0 \in 1..Len(msgList) : msgList'[i] = msgList[i0] /\ i0 = IF i < k THEN i ELSE i-1
      BY <2>5, <3>2
    <3>4. PICK j0 \in 1..Len(msgList) : msgList'[j] = msgList[j0] /\ j0 = IF j < k THEN j ELSE j-1
      BY <2>5, <3>2
    <3>5. i0 < j0
      BY <1>0, <3>1, <3>3, <3>4 DEF Ahead
    <3> QED BY <3>2, <3>3, <3>4, <3>5
  <2>7. CASE sent' = sent
    BY <1>2, <1>4, <2>2, <2>3, <2>6, <2>7
  <2>8. CASE when' = when /\ k \in DelayPos(m) /\ sent' = Append(sent, m)
    <3>1. /\ DOMAIN sent' = 1..Len(sent)+1 /\ sent'[Len(sent)+1] = m
          /\ \A j \in 1..Len(sent) : sent'[j] = sent[j]
      BY <1>0, <2>2, <2>8, AppendProperties, LenProperties
    <3>2. SUFFICES ASSUME NEW i \in 1..Len(sent)+1, NEW j \in 1..Len(sent)+1, i < j,
                          NEW x, NEW y, x = sent'[i], y = sent'[j],
                          when[x] <= when[y], x \in Queued'
                   PROVE  ~Taken(y)' /\ Ahead(x, y)'
      BY <2>8, <3>1, Zenon DEF AheadInv
    <3>3. i \in 1..Len(sent)
      BY <1>0, <3>2
    <3>4. x = sent[i] /\ x \in Queued /\ x \in Msg \ {m}
      BY <1>2, <2>2, <2>3, <3>1, <3>2, <3>3
    <3>5. CASE j \in 1..Len(sent)
      <4>1. y = sent[j] /\ y \in Msg \ {m}
        BY <1>2, <2>2, <3>1, <3>2, <3>5
      <4>2. ~Taken(y) /\ Ahead(x, y)
        BY <1>0, <3>2, <3>3, <3>4, <3>5, <4>1 DEF AheadInv
      <4> QED BY <2>3, <2>6, <3>4, <4>1, <4>2
    <3>6. CASE j = Len(sent)+1
      <4>1. y = m
        BY <3>1, <3>2, <3>6
      <4>2. ~Taken(m)
        BY <2>2 DEF Taken
      <4>3. ASSUME NEW a \in 1..Len(msgList)+1, NEW b \in 1..Len(msgList)+1,
                   msgList'[a] = x, msgList'[b] = m
            PROVE  a < b
        <5>1. a # k
          BY <2>4, <3>4, <4>3
        <5>2. b = k
          <6>1. ASSUME b # k PROVE FALSE
            <7>1. PICK b0 \in 1..Len(msgList) : msgList'[b] = msgList[b0]
              BY <2>5, <6>1
            <7> QED BY <1>1, <2>2, <4>3, <7>1
          <6> QED BY <6>1
        <5>3. PICK a0 \in 1..Len(msgList) : msgList'[a] = msgList[a0] /\ a0 = IF a < k THEN a ELSE a-1
          BY <2>5, <5>1
        <5>4. when[msgList[a0]] <= when[m]
          BY <3>2, <4>1, <4>3, <5>3
        <5>5. \A l \in k..Len(msgList) : when[m] < when[msgList[l]]
          BY <2>8 DEF DelayPos
        <5>6. a0 \notin k..Len(msgList)
          BY <1>0, <1>1, <2>2, <5>4, <5>5
        <5> QED BY <5>1, <5>2, <5>3, <5>6
      <4>4. Ahead(x, y)'
        BY <2>4, <4>1, <4>3 DEF Ahead
      <4> QED BY <2>3, <4>1, <4>2, <4>4
    <3> QED BY <1>0, <3>5, <3>6
  <2> QED BY <2>1, <2>7, <2>8 DEF Inserted
<1> QED BY <1>5, <1>6, <1>7, <1>8, <1>9, <1>10, NextCases

\* Every step that gives the sleeping looper thread something to do wakes it.
LEMMA NextNoOversleep ==
  TypeInv /\ LooperCallInv /\ LifeInv /\ ListSorted /\ NoOversleep /\ [Next]_vars => NoOversleep'
<1> SUFFICES ASSUME TypeInv, LooperCallInv, LifeInv, ListSorted, NoOversleep, [Next]_vars
             PROVE  NoOversleep'
  OBVIOUS
<1> USE DEF nodeVars, listVars, threadVars, looperVars, callVars, appVars, histVars, bounds
<1>0. /\ msgList \in Seq(Msg) /\ Len(msgList) \in Nat /\ DOMAIN msgList = 1..Len(msgList)
      /\ when \in [Msg -> Nat] /\ wakeAt \in Nat /\ threadExit \in BOOLEAN
      /\ pc \in [Thread -> CallPc]
  BY LenProperties DEF TypeInv, TypeOK
<1> DEFINE Posted == \E q \in Thread : pc[q] = "posted"
<1>1. ASSUME lpc' \notin {"wait", "timedwait"}
      PROVE  NoOversleep'
  BY <1>1 DEF NoOversleep
<1>2. msgList # <<>> => /\ 1 \in 1..Len(msgList) /\ Head(msgList) = msgList[1]
                        /\ msgList[1] \in Queued /\ msgList[1] \in Msg
  <2>1. msgList # <<>> => 1 \in 1..Len(msgList) /\ Head(msgList) = msgList[1]
    BY <1>0, TailIsRemoveAt
  <2> QED BY <1>0, <2>1 DEF Queued, ToSet
<1>3. ASSUME msgList' = msgList, lpc' = lpc, wakeAt' = wakeAt, threadExit' = threadExit,
             \A x \in Queued : when'[x] = when[x],
             Posted => Posted'
      PROVE  NoOversleep'
  BY <1>2, <1>3 DEF NoOversleep
<1>4. CASE UNCHANGED vars \/ Tick \/ DestroyFree \/ Terminated
  BY <1>3, <1>4 DEF vars, Tick, DestroyFree, Terminated
<1>5. CASE LooperWait \/ LooperTimedWait
  <2>1. CASE LooperWait
    BY <2>1 DEF LooperWait, NoOversleep
  <2>2. CASE LooperTimedWait
    <3>1. /\ lpc' = "timedwait" /\ threadExit' = threadExit /\ ~threadExit
          /\ msgList' = msgList /\ when' = when /\ wakeAt' = when[Head(msgList)]
          /\ msgList # <<>>
      BY <2>2 DEF LooperTimedWait
    <3>2. wakeAt' <= when'[Head(msgList')]
      BY <1>0, <1>2, <3>1
    <3> QED BY <3>1, <3>2 DEF NoOversleep
  <2> QED BY <1>5, <2>1, <2>2
<1>6. CASE \/ LooperExit \/ LooperTake \/ LooperWakeUp \/ LooperSpuriousWakeUp
           \/ LooperCount \/ LooperTimeout \/ LooperHandle \/ LooperHandled
           \/ LooperNoHandler \/ LooperFree \/ LooperClear
  BY <1>1, <1>6 DEF LooperExit, LooperTake, LooperCount, LooperWakeUp, LooperSpuriousWakeUp, WakeUp,
       LooperTimeout, LooperHandle, LooperHandled, LooperNoHandler, LooperFree, LooperClear
<1>7. ASSUME NEW p \in Thread, Call(p)
      PROVE  NoOversleep'
  <2>1. ASSUME NEW m \in Msg, NEW delay \in Nat, NEW to, PostBegin(p, m, delay, to)
        PROVE  NoOversleep'
    <3>1. /\ msgList' = msgList /\ lpc' = lpc /\ wakeAt' = wakeAt /\ threadExit' = threadExit
          /\ state[m] = "UNKNOWN" /\ \A x \in Msg \ {m} : when'[x] = when[x]
          /\ pc[p] = "idle" /\ (pc' = pc \/ pc' = [pc EXCEPT ![p] = to])
      BY <1>0, <2>1 DEF PostBegin, CanCall
    <3>2. m \notin Queued
      BY <3>1 DEF LifeInv, PendingInv
    <3>3. Posted => Posted'
      BY <1>0, <3>1
    <3> QED BY <1>0, <1>3, <3>1, <3>2, <3>3, QueuedInMsg
  <2>2. ASSUME NEW M, NEW kind, FreeCall(p, M, kind)
        PROVE  NoOversleep'
    <3>1. Posted => Posted'
      BY <1>0, <2>2 DEF FreeCall, LockAndFree, CanCall
    <3> QED BY <1>3, <2>2, <3>1 DEF FreeCall, LockAndFree
  <2>3. CASE mlooper_start(p)
    <3>1. \/ lpc' = "lock"
          \/ /\ msgList' = msgList /\ lpc' = lpc /\ wakeAt' = wakeAt
             /\ threadExit' = threadExit /\ when' = when /\ pc' = pc
      BY <2>3 DEF mlooper_start
    <3> QED BY <1>1, <1>3, <3>1
  <2>4. CASE mlooper_stop(p) \/ mlooper_destroy(p)
    <3>1. Posted => Posted'
      BY <1>0, <2>4 DEF mlooper_stop, mlooper_destroy, CanCall
    <3> QED BY <1>3, <2>4, <3>1 DEF mlooper_stop, mlooper_destroy
  <2> QED BY ConstantsAssumption, <1>7, <2>1, <2>2, <2>3, <2>4 DEF Call,
             mlooper_post_message_front, mlooper_post_message_delay,
             mlooper_remove_message, mlooper_remove_message_if,
             mlooper_remove_self_message, mlooper_remove_self_message_if,
             mlooper_clear_self_message, mlooper_clear_message
<1>8. ASSUME NEW p \in Thread, Finish(p)
      PROVE  NoOversleep'
  \* The message is in the list; the thread that put it there still has to signal.
  <2>1. CASE PostDelayInsert(p) \/ PostFrontInsert(p)
    <3>1. pc' = [pc EXCEPT ![p] = "posted"]
      BY <2>1 DEF PostDelayInsert, PostFrontInsert, Insert
    <3> QED BY <1>0, <3>1 DEF NoOversleep
  <2>5. CASE PostEnd(p) \/ StopSignal(p)
    <3>1. Signal
      BY <2>5 DEF PostEnd, StopSignal
    <3> QED BY <1>1, <3>1 DEF Signal, WakeUp
  <2>6. CASE FreeCount(p)
    <3>1. Posted => Posted'
      BY <1>0, <2>6 DEF FreeCount
    <3> QED BY <1>3, <2>6, <3>1 DEF FreeCount
  <2>2. CASE FreeOne(p)
    <3>0. ~Posted
      BY <2>2 DEF FreeOne, TypeInv, LockInv, Locked
    <3>1. PICK i \in 1..Len(msgList) : Removed(i)
      BY <2>2, FreeOneEffect
    <3>2. /\ msgList' = RemoveAt(msgList, i) /\ lpc' = lpc /\ wakeAt' = wakeAt
          /\ threadExit' = threadExit /\ when' = when
      BY <3>1 DEF Removed
    <3>3. /\ msgList' \in Seq(Msg) /\ Len(msgList') = Len(msgList) - 1
          /\ \A j \in 1..Len(msgList)-1 : msgList'[j] = IF j < i THEN msgList[j] ELSE msgList[j+1]
      BY <1>0, <3>2, RemoveAtLemma
    <3>4. ASSUME msgList' # <<>>
          PROVE  msgList # <<>> /\ when[Head(msgList)] <= when[Head(msgList')]
      <4>1. 1 \in 1..Len(msgList') /\ Head(msgList') = msgList'[1]
        BY <3>3, <3>4, TailIsRemoveAt
      <4>2. 1 \in 1..Len(msgList)-1
        BY <3>3, <4>1
      <4>3. PICK k \in 1..Len(msgList) : msgList'[1] = msgList[k]
        BY <1>0, <3>3, <4>2
      <4>4. msgList # <<>>
        BY <1>0, EmptySeq
      <4>5. when[msgList[1]] <= when[msgList[k]]
        <5>1. k = 1 \/ 1 < k
          OBVIOUS
        <5>2. 1 < k => when[msgList[1]] <= when[msgList[k]]
          BY <1>0, <1>2, <4>4 DEF ListSorted
        <5>3. when[msgList[1]] \in Nat
          BY <1>0, <1>2, <4>4
        <5> QED BY <5>1, <5>2, <5>3
      <4> QED BY <1>2, <4>1, <4>3, <4>4, <4>5
    <3>5. lpc = "timedwait" /\ msgList' # <<>> => wakeAt' <= when'[Head(msgList')]
      <4>1. SUFFICES ASSUME lpc = "timedwait", msgList' # <<>>
                     PROVE  wakeAt <= when[Head(msgList')]
        BY <3>2
      <4>2. msgList # <<>> /\ when[Head(msgList)] <= when[Head(msgList')]
        BY <3>4, <4>1
      <4>3. wakeAt <= when[Head(msgList)]
        BY <3>0, <4>1, <4>2 DEF NoOversleep
      <4>4. when[Head(msgList)] \in Nat /\ when[Head(msgList')] \in Nat
        BY <1>0, <3>3, <4>1, <4>2, HeadTailProperties
      <4> QED BY <1>0, <4>2, <4>3, <4>4
    <3>6. lpc # "wait"
      BY <1>0, <3>0, EmptySeq DEF NoOversleep
    <3> QED BY <3>0, <3>2, <3>5, <3>6 DEF NoOversleep
  <2>3. CASE FreeEnd(p)
    <3>1. \/ lpc' = "returned"
          \/ /\ msgList' = msgList /\ lpc' = lpc /\ wakeAt' = wakeAt
             /\ threadExit' = threadExit /\ when' = when
      BY <2>3 DEF FreeEnd
    <3>2. Posted => Posted'
      BY <1>0, <2>3 DEF FreeEnd
    <3> QED BY <1>1, <1>3, <3>1, <3>2
  <2>4. CASE StopJoin(p)
    BY <1>1, <2>4 DEF StopJoin
  <2> QED BY <1>8, <2>1, <2>2, <2>3, <2>4, <2>5, <2>6 DEF Finish
<1> QED BY <1>4, <1>5, <1>6, <1>7, <1>8 DEF Next, LooperStep

\* What enters the list of a looper thread that is gone is late.
LEMMA NextLateInv == TypeInv /\ LooperCallInv /\ LifeInv /\ LateInv /\ [Next]_vars => LateInv'
<1> SUFFICES ASSUME TypeInv, LooperCallInv, LifeInv, LateInv, [Next]_vars PROVE LateInv'
  OBVIOUS
<1> USE DEF nodeVars, listVars, threadVars, looperVars, callVars, appVars, histVars, bounds
<1> DEFINE Away == {"none", "returned"}
<1>1. ASSUME lpc' \notin Away
      PROVE  LateInv'
  BY <1>1 DEF LateInv
<1>2. ASSUME Queued' \subseteq Queued, late' = late, lpc' = lpc \/ lpc \in Away
      PROVE  LateInv'
  BY <1>2 DEF LateInv
<1>3. CASE UNCHANGED vars \/ Tick \/ DestroyFree \/ Terminated
  BY <1>2, <1>3 DEF vars, Tick, DestroyFree, Terminated, Queued
<1>4. CASE LooperStep \/ LooperSpuriousWakeUp
  BY <1>1, <1>4 DEF LooperStep, LooperWait, LooperTimedWait, LooperExit, LooperTake,
       LooperCount, LooperWakeUp, LooperSpuriousWakeUp, WakeUp, LooperTimeout, LooperHandle,
       LooperHandled, LooperNoHandler, LooperFree, LooperClear
<1>5. ASSUME NEW p \in Thread, Call(p)
      PROVE  LateInv'
  <2>1. ASSUME NEW m \in Msg, NEW delay \in Nat, NEW to, PostBegin(p, m, delay, to)
        PROVE  LateInv'
    BY <1>2, <2>1 DEF PostBegin, Queued
  <2>2. ASSUME NEW M, NEW kind, FreeCall(p, M, kind)
        PROVE  LateInv'
    BY <1>2, <2>2 DEF FreeCall, LockAndFree, Queued
  <2>3. CASE mlooper_start(p)
    BY <1>1, <1>2, <2>3 DEF mlooper_start, Queued
  <2>4. CASE mlooper_stop(p) \/ mlooper_destroy(p)
    BY <1>2, <2>4 DEF mlooper_stop, mlooper_destroy, Queued
  <2> QED BY ConstantsAssumption, <1>5, <2>1, <2>2, <2>3, <2>4 DEF Call,
             mlooper_post_message_front, mlooper_post_message_delay,
             mlooper_remove_message, mlooper_remove_message_if,
             mlooper_remove_self_message, mlooper_remove_self_message_if,
             mlooper_clear_self_message, mlooper_clear_message
<1>6. ASSUME NEW p \in Thread, Finish(p)
      PROVE  LateInv'
  <2>1. CASE PostDelayInsert(p) \/ PostFrontInsert(p)
    <3>1. PICK m \in Posting(p), i \in 1..Len(msgList)+1 : Inserted(p, m, i)
      BY <2>1, InsertEffect
    <3>2. /\ Queued' = Queued \cup {m}
          /\ lpc' = lpc
          /\ late' = IF lpc \in Away THEN late \cup {m} ELSE late
      BY <3>1 DEF Inserted
    <3> QED BY <1>1, <3>2 DEF LateInv
  <2>2. CASE FreeOne(p)
    <3>1. PICK i \in 1..Len(msgList) : Removed(i)
      BY <2>2, FreeOneEffect
    <3>2. Queued' \subseteq Queued /\ late' = late /\ lpc' = lpc
      BY <3>1 DEF Removed, LifeInv, PendingInv
    <3> QED BY <1>2, <3>2
  <2>3. CASE FreeEnd(p)
    <3>1. CASE p = Looper /\ lpc = "clearing"
      <4>1. pc[p] = "clear" /\ Queued \cap arg[p] = {} /\ msgList' = msgList
        BY <2>3, <3>1 DEF FreeEnd, LooperCallInv
      <4>2. Queued' = {}
        BY <4>1 DEF TypeInv, LockInv, Queued
      <4> QED BY <4>2 DEF LateInv
    <3>2. CASE ~(p = Looper /\ lpc = "clearing")
      BY <1>2, <2>3, <3>2 DEF FreeEnd, Queued
    <3> QED BY <3>1, <3>2
  <2>4. CASE StopSignal(p)
    <3>1. msgList' = msgList /\ late' = late /\ (lpc' = lpc \/ lpc' = "lock")
      BY <2>4 DEF StopSignal, Signal, WakeUp
    <3> QED BY <1>1, <1>2, <3>1 DEF Queued
  <2>5. CASE StopJoin(p)
    BY <1>2, <2>5 DEF StopJoin, Queued
  <2>6. CASE PostEnd(p) \/ FreeCount(p)
    <3>1. msgList' = msgList /\ late' = late /\ (lpc' = lpc \/ lpc' = "lock")
      BY <2>6 DEF PostEnd, FreeCount, Signal, WakeUp
    <3> QED BY <1>1, <1>2, <3>1 DEF Queued
  <2> QED BY <1>6, <2>1, <2>2, <2>3, <2>4, <2>5, <2>6 DEF Finish
<1> QED BY <1>3, <1>4, <1>5, <1>6 DEF Next

\* The invariant that ties the list, the hands of the threads and what the
\* callbacks saw together is inductive.
THEOREM Invariance == Spec => []IInv
<1>1. IInv /\ [Next]_vars => IInv'
  <2> SUFFICES ASSUME IInv, [Next]_vars PROVE IInv'
    OBVIOUS
  <2>1. /\ TypeInv /\ LooperCallInv /\ ClosingInv /\ LifeInv
        /\ ListSorted /\ SentInv /\ AheadInv /\ NoOversleep /\ LateInv
    BY DEF IInv, OrderInv
  <2>2. TypeInv'
    BY <2>1, NextTypeOK, NextLockInv, NextHandInv DEF TypeInv
  <2>3. LooperCallInv' /\ ClosingInv'
    BY <2>1, NextCallInv
  <2>4. LifeInv'
    BY <2>1, NextLifeInv
  <2>5. OrderInv'
    BY <2>1, NextListSorted, NextSentInv, NextAheadInv DEF OrderInv
  <2>6. NoOversleep' /\ LateInv'
    BY <2>1, NextNoOversleep, NextLateInv
  <2> QED BY <2>2, <2>3, <2>4, <2>5, <2>6 DEF IInv
<1> QED BY InitIInv, <1>1, PTL DEF Spec

\* No message that a thread still holds has been freed, and every message some
\* callback has freed is among the finished ones.
LEMMA FreedIsFinished ==
  ASSUME TypeInv, LifeInv
  PROVE  /\ \A m \in Queued : ~Freed(m)
         /\ \A p \in Thread : \A m \in Posting(p) : ~Freed(m)
         /\ node # None => ~Freed(node)
         /\ \A m \in Msg : Freed(m) <=> m # node /\ state[m] \notin {"UNKNOWN", "PENDING"}
<1>0. /\ node \in Msg \cup {None} /\ None \notin Msg /\ Queued \subseteq Msg
      /\ arg \in [Thread -> SUBSET Msg]
      /\ node # None <=> lpc \in {"taken", "deliver", "handling", "free"}
  BY ConstantsAssumption, QueuedInMsg DEF TypeInv, TypeOK, HandInv
<1>1. \A p \in Thread : Posting(p) \subseteq Msg
  BY <1>0 DEF Posting
<1>2. ASSUME NEW m \in Msg, calls[m] \in {<<>>, <<"handle">>, <<"timeout">>}
      PROVE  ~Freed(m)
  BY <1>2 DEF Freed
<1>3. ASSUME NEW m \in Msg, calls[m] \in Finished
      PROVE  Freed(m)
  <2>1. CASE calls[m] = <<"handle", "free">> \/ calls[m] = <<"discard", "free">>
    <3>1. 2 \in DOMAIN calls[m] /\ calls[m][2] = "free"
      BY <2>1
    <3> QED BY <3>1 DEF Freed
  <2>2. CASE calls[m] = <<"timeout", "discard", "free">>
    <3>1. 3 \in DOMAIN calls[m] /\ calls[m][3] = "free"
      BY <2>2
    <3> QED BY <3>1 DEF Freed
  <2> QED BY <1>3, <2>1, <2>2 DEF Finished
<1>4. node # None => ~Freed(node)
  BY <1>0, <1>2 DEF LifeInv, InHandInv
<1>5. \A m \in Msg : m # node =>
        /\ state[m] \in {"UNKNOWN", "PENDING"} => ~Freed(m)
        /\ state[m] \notin {"UNKNOWN", "PENDING"} => Freed(m)
  BY <1>2, <1>3 DEF LifeInv, CallsInv
<1>6. \A m \in Queued : m # node /\ state[m] = "PENDING"
  BY DEF LifeInv, PendingInv
<1>7. \A p \in Thread : \A m \in Posting(p) : m # node /\ state[m] = "PENDING"
  BY DEF LifeInv, PendingInv
<1> QED BY <1>0, <1>1, <1>4, <1>5, <1>6, <1>7

\* A node is in one place at a time and in none of them once it was freed: no
\* interleaving of posts, removals, clears and the looper thread frees a
\* message twice or uses it after the free.
THEOREM NodesStayAlive == Spec => []NodesAlive
<1>1. IInv => NodesAlive
  <2> SUFFICES ASSUME IInv PROVE NodesAlive
    OBVIOUS
  <2>1. TypeInv /\ LifeInv /\ PendingInv
    BY DEF IInv, LifeInv
  <2>2. \A m \in Msg : m \in Queued \/ m = node => ~Freed(m)
    BY <2>1, FreedIsFinished, ConstantsAssumption
  <2>3. \A p \in Thread : \A m \in Posting(p) : ~Freed(m)
    BY <2>1, FreedIsFinished
  <2> QED BY <2>1, <2>2, <2>3 DEF NodesAlive, PendingInv
<1> QED BY <1>1, Invariance, PTL

\* Every message is handled or timed out at most once, discarded exactly if it
\* was not handled, and freed exactly once, last.
THEOREM CallbacksFollowProtocol == Spec => []CallbackProtocol
<1>1. IInv => CallbackProtocol
  <2> SUFFICES ASSUME IInv, NEW m \in Msg
               PROVE  \/ calls[m] = <<>>
                      \/ m = node /\ calls[m] \in {<<"handle">>, <<"timeout">>}
                      \/ m # node /\ calls[m] \in Finished
    BY DEF CallbackProtocol, Finished
  <2>1. HandInv /\ InHandInv /\ CallsInv /\ None \notin Msg
    BY ConstantsAssumption DEF IInv, TypeInv, LifeInv
  <2>2. CASE m = node
    BY <2>1, <2>2 DEF HandInv, InHandInv
  <2>3. CASE m # node
    BY <2>1, <2>3 DEF CallsInv
  <2> QED BY <2>2, <2>3
<1> QED BY <1>1, Invariance, PTL

\* The list is always in the order of the due times, and a message that entered
\* it earlier and is not due later is never overtaken.
THEOREM MessagesInOrder == Spec => []InOrder
<1>1. IInv => InOrder
  BY DEF IInv, OrderInv, InOrder, StableOrder, AheadInv
<1> QED BY <1>1, Invariance, PTL

\* The looper thread never sleeps past the due time of the first message, nor
\* when it has been told to exit: no wake-up is lost.
THEOREM NeverOversleeps == Spec => []NoOversleep
<1>1. IInv => NoOversleep
  BY DEF IInv
<1> QED BY <1>1, Invariance, PTL

\* What mlooper_stop leaves in the list was posted when no looper thread was
\* there to take it.
THEOREM OnlyLateMessagesLeft == Spec => []LeftoverOnlyIfLate
<1>1. IInv => LeftoverOnlyIfLate
  BY DEF IInv, LateInv, LeftoverOnlyIfLate
<1> QED BY <1>1, Invariance, PTL

\* mlooper_destroy frees the locks and the looper when no thread is in the API,
\* holds a lock or waits, and no looper thread exists.
THEOREM DestroyedIsQuiescent == Spec => []DestroyIsQuiescent
<1>1. IInv => DestroyIsQuiescent
  <2> SUFFICES ASSUME IInv, destroyed
               PROVE  /\ lpc = "none" /\ msgMutex = None /\ threadMutex = None
                      /\ \A p \in Thread : pc[p] = "idle"
    BY DEF DestroyIsQuiescent
  <2>1. /\ TypeOK /\ LockInv /\ ThreadInv /\ LooperCallInv /\ ClosingInv
        /\ Looper \notin Client /\ Thread = Client \cup {Looper} /\ None \notin Thread
    BY ConstantsAssumption DEF IInv, TypeInv, Thread
  <2>2. lpc = "none" /\ \A q \in Client : pc[q] = "idle"
    BY <2>1 DEF ClosingInv
  <2>3. pc[Looper] = "idle"
    BY <2>1, <2>2 DEF LooperCallInv
  <2>4. \A p \in Thread : pc[p] = "idle"
    BY <2>1, <2>2, <2>3
  <2>5. msgMutex \in Thread \cup {None} /\ threadMutex \in Thread \cup {None}
    BY <2>1 DEF TypeOK
  <2>6. msgMutex = None /\ threadMutex = None
    BY <2>1, <2>2, <2>4, <2>5 DEF LockInv, Locked, ThreadInv
  <2> QED BY <2>2, <2>4, <2>6
<1> QED BY <1>1, Invariance, PTL

-----------------------------------------------------------------------------
(* The message loop implements the delay queue                             *)

Gone == {m \in Msg : Freed(m)}
Settled == {m \in Msg : m # node /\ state[m] \notin {"UNKNOWN", "PENDING"}}

\* The freed messages are those whose state says that they are done with.
LEMMA GoneIsSettled == TypeInv /\ LifeInv => Gone = Settled
BY FreedIsFinished DEF Gone, Settled

\* The same after a step.
LEMMA GoneIsSettledNext == (TypeInv /\ LifeInv => Gone = Settled)'
BY GoneIsSettled, PTL

\* A message that is being posted is in no place of the delay queue.
LEMMA PostingIsFresh ==
  TypeInv /\ LifeInv => \A p \in Thread : \A m \in Posting(p) :
                          m \in Msg /\ m \notin Queued \cup Gone \cup {node}
<1> SUFFICES ASSUME TypeInv, LifeInv, NEW p \in Thread, NEW m \in Posting(p)
             PROVE  m \in Msg /\ m \notin Queued \cup Gone \cup {node}
  OBVIOUS
<1>1. m \in Msg
  BY DEF TypeInv, TypeOK, Posting
<1> QED BY <1>1, FreedIsFinished DEF LifeInv, PendingInv, Gone

\* A posting function chooses the due time of a fresh message, and refuses it
\* at once if the message would expire before.
LEMMA PostBeginBox ==
  ASSUME TypeInv, TypeInv', LifeInv, LifeInv', NEW p \in Thread, NEW m \in Msg,
         NEW delay \in Nat, NEW to \in {"post_front", "post_delay"},
         PostBegin(p, m, delay, to)
  PROVE  Box!Schedule(m) \/ Box!Refuse(m)
<1>0. /\ when \in [Msg -> Nat] /\ when' \in [Msg -> Nat]
      /\ state \in [Msg -> MessageState] /\ node \in Msg \cup {None}
      /\ node # None <=> lpc \in {"taken", "deliver", "handling", "free"}
  BY DEF TypeInv, TypeOK, HandInv
<1>1. /\ state[m] = "UNKNOWN" /\ when' = [when EXCEPT ![m] = clock + delay]
      /\ UNCHANGED <<clock, msgList, node>> /\ Queued' = Queued
  BY DEF PostBegin, listVars, looperVars, Queued
<1>2. m \notin Queued /\ m # node /\ m \notin Settled
  <2>1. m # node
    BY <1>0, <1>1, ConstantsAssumption DEF LifeInv, InHandInv
  <2> QED BY <1>1, <2>1 DEF LifeInv, PendingInv, Settled
<1>3. Gone = Settled /\ Gone' = Settled'
  BY GoneIsSettled, GoneIsSettledNext
<1>4. \A x \in Msg \ {m} : when'[x] = when[x]
  BY <1>0, <1>1
<1>5. Box!Fresh(m) /\ Box!Reschedule(m)
  BY <1>0, <1>2, <1>3, <1>4 DEF Box!Fresh, Box!Reschedule, Gone
<1>6. CASE state' = [state EXCEPT ![m] = "PENDING"]
  <2>1. Settled' = Settled
    BY <1>0, <1>1, <1>2, <1>6 DEF Settled
  <2> QED BY <1>1, <1>3, <1>5, <2>1 DEF Box!Schedule, Gone
<1>7. CASE state' = [state EXCEPT ![m] = "DISCARDED"]
  <2>1. Settled' = Settled \cup {m}
    BY <1>0, <1>1, <1>2, <1>7 DEF Settled
  <2> QED BY <1>1, <1>3, <1>5, <2>1 DEF Box!Refuse, Gone
<1> QED BY <1>6, <1>7 DEF PostBegin

\* An insertion puts a fresh message in the box, no later than it was due.
LEMMA InsertBox ==
  ASSUME TypeInv, TypeInv', LifeInv, LifeInv', NEW p \in Thread,
         PostDelayInsert(p) \/ PostFrontInsert(p)
  PROVE  \E m \in Msg : Box!Accept(m)
<1>0. /\ when \in [Msg -> Nat] /\ when' \in [Msg -> Nat]
      /\ msgList \in Seq(Msg)
  BY DEF TypeInv, TypeOK
<1>1. PICK m \in Posting(p), i \in 1..Len(msgList)+1 : Inserted(p, m, i)
  BY InsertEffect
<1>2. m \in Msg /\ m \notin Queued \cup Gone \cup {node}
  BY PostingIsFresh
<1>3. Gone' = Gone
  <2>1. Gone = Settled /\ Gone' = Settled'
    BY GoneIsSettled, GoneIsSettledNext
  <2>2. Settled' = Settled
    BY <1>1 DEF Inserted, Settled
  <2> QED BY <2>1, <2>2
<1>4. \A x \in Msg \ {m} : when'[x] = when[x]
  BY <1>0, <1>1, <1>2 DEF Inserted
<1>5. when'[m] <= when[m]
  <2>1. CASE when' = when
    BY <1>0, <1>2, <2>1
  <2>2. CASE when' = [when EXCEPT ![m] = FrontWhen(m)]
    <3>1. when'[m] = FrontWhen(m) /\ when[m] \in Nat
      BY <1>0, <1>2, <2>2
    <3>2. FrontWhen(m) <= when[m]
      BY <3>1 DEF FrontWhen
    <3> QED BY <3>1, <3>2
  <2> QED BY <1>1, <2>1, <2>2 DEF Inserted
<1>6. Queued' = Queued \cup {m} /\ UNCHANGED <<clock, node>>
  BY <1>1 DEF Inserted
<1>7. Box!Fresh(m) /\ Box!Reschedule(m)
  BY <1>0, <1>2, <1>4 DEF Box!Fresh, Box!Reschedule, Gone
<1> QED BY <1>2, <1>3, <1>5, <1>6, <1>7 DEF Box!Accept, Gone

\* A turn of a removal or a clear drops a pending message.
LEMMA FreeOneBox ==
  ASSUME TypeInv, TypeInv', LifeInv, LifeInv', NEW p \in Thread, FreeOne(p)
  PROVE  \E m \in Msg : Box!Drop(m)
<1>0. state \in [Msg -> MessageState] /\ Queued \subseteq Msg
  BY QueuedInMsg DEF TypeInv, TypeOK
<1>1. PICK i \in 1..Len(msgList) : Removed(i)
  BY FreeOneEffect
<1> DEFINE m == msgList[i]
<1>2. /\ m \in Queued /\ m \in Msg /\ Queued' = Queued \ {m}
      /\ UNCHANGED <<clock, when, node>>
      /\ state' = [state EXCEPT ![m] = "DISCARDED"]
  BY <1>0, <1>1 DEF Removed, LifeInv, PendingInv
<1>3. m # node
  BY <1>2 DEF LifeInv, PendingInv
<1> HIDE DEF m
<1>4. Settled' = Settled \cup {m}
  BY <1>0, <1>2, <1>3 DEF Settled
<1>5. Gone' = Gone \cup {m}
  <2>1. Gone = Settled /\ Gone' = Settled'
    BY GoneIsSettled, GoneIsSettledNext
  <2> QED BY <1>4, <2>1
<1> QED BY <1>2, <1>5 DEF Box!Drop, Gone

\* The looper thread takes the earliest message, and not before it is due.
LEMMA TakeBox ==
  ASSUME TypeInv, TypeInv', LifeInv, LifeInv', ListSorted, LooperTake
  PROVE  \E m \in Msg : Box!Deliver(m)
<1>0. /\ when \in [Msg -> Nat] /\ Queued \subseteq Msg
      /\ msgList \in Seq(Msg) /\ Len(msgList) \in Nat /\ DOMAIN msgList = 1..Len(msgList)
  BY QueuedInMsg, LenProperties DEF TypeInv, TypeOK
<1> DEFINE m == msgList[1]
<1>1. /\ 1 \in 1..Len(msgList) /\ Head(msgList) = m /\ node' = m
      /\ m \in Queued /\ Queued' = Queued \ {m}
      /\ UNCHANGED <<clock, when, state>>
  BY TakeEffect DEF LifeInv, PendingInv
<1>2. node = None /\ m # node
  BY <1>1 DEF LooperTake, AtTop, TypeInv, HandInv, LifeInv, PendingInv
<1>3. when[m] <= clock
  BY <1>1 DEF LooperTake, Due
<1>4. \A x \in Queued : when[m] <= when[x]
  <2>1. SUFFICES ASSUME NEW x \in Queued PROVE when[m] <= when[x]
    OBVIOUS
  <2>2. PICK j \in 1..Len(msgList) : msgList[j] = x
    BY <1>0 DEF Queued, ToSet
  <2>3. CASE j = 1
    BY <1>0, <2>2, <2>3
  <2>4. CASE j # 1
    <3>1. 1 < j /\ 1 \in DOMAIN msgList /\ j \in DOMAIN msgList
      BY <1>0, <1>1, <2>4
    <3> QED BY <2>2, <3>1 DEF ListSorted
  <2> QED BY <2>3, <2>4
<1>5. state[m] = "PENDING"
  BY <1>1 DEF LifeInv, PendingInv
<1> HIDE DEF m
<1>6. Settled' = Settled
  BY <1>0, <1>1, <1>2, <1>5, ConstantsAssumption DEF Settled
<1>7. Gone' = Gone
  <2>1. Gone = Settled /\ Gone' = Settled'
    BY GoneIsSettled, GoneIsSettledNext
  <2> QED BY <1>6, <2>1
<1> QED BY <1>0, <1>1, <1>2, <1>3, <1>4, <1>7 DEF Box!Deliver, Gone

\* The free after the callbacks finishes the message in hand.
LEMMA LooperFreeBox ==
  ASSUME TypeInv, TypeInv', LifeInv, LifeInv', LooperFree
  PROVE  Box!Finish
<1>0. /\ node # None /\ node \in Msg /\ None \notin Msg
      /\ state[node] \notin {"UNKNOWN", "PENDING"}
  BY ConstantsAssumption DEF LooperFree, TypeInv, TypeOK, HandInv, LifeInv, InHandInv
<1>1. /\ node' = None /\ UNCHANGED <<clock, when, state>> /\ Queued' = Queued
  BY DEF LooperFree, nodeVars, listVars, Queued
<1>2. Settled' = Settled \cup {node}
  BY <1>0, <1>1 DEF Settled
<1>3. Gone' = Gone \cup {node}
  <2>1. Gone = Settled /\ Gone' = Settled'
    BY GoneIsSettled, GoneIsSettledNext
  <2> QED BY <1>2, <2>1
<1> QED BY <1>0, <1>1, <1>3 DEF Box!Finish, Gone

\* The other steps of the looper thread with the message are not seen outside.
LEMMA LooperStutter ==
  ASSUME TypeInv, TypeInv', LifeInv, LifeInv',
         LooperTimeout \/ LooperHandle \/ LooperHandled \/ LooperNoHandler
  PROVE  UNCHANGED Box!vars
<1>0. state \in [Msg -> MessageState]
  BY DEF TypeInv, TypeOK
<1>1. /\ UNCHANGED <<clock, when, node>> /\ Queued' = Queued
      /\ \A m \in Msg : m # node => state'[m] = state[m]
  BY <1>0 DEF LooperTimeout, LooperHandle, LooperHandled, LooperNoHandler, listVars, Queued
<1>2. Gone' = Gone
  <2>1. Gone = Settled /\ Gone' = Settled'
    BY GoneIsSettled, GoneIsSettledNext
  <2>2. Settled' = Settled
    BY <1>1 DEF Settled
  <2> QED BY <2>1, <2>2
<1> QED BY <1>1, <1>2 DEF Box!vars, Gone

\* A step that touches no message is a tick of the clock or not seen outside.
LEMMA QuietBox ==
  ASSUME Quiet, clock' \in {clock, clock + 1}
  PROVE  Box!Tick \/ UNCHANGED Box!vars
<1>1. UNCHANGED <<when, node>> /\ Queued' = Queued /\ Gone' = Gone
  BY DEF Quiet, Queued, Gone, Freed
<1> QED BY <1>1 DEF Box!Tick, Box!vars, Gone

\* Every step of the looper is a step of the delay queue, or not seen outside.
LEMMA BoxStep == IInv /\ IInv' /\ [Next]_vars => [Box!Next]_(Box!vars)
<1> SUFFICES ASSUME IInv, IInv', [Next]_vars PROVE Box!Next \/ UNCHANGED Box!vars
  OBVIOUS
<1>1. TypeInv /\ LifeInv /\ ListSorted /\ LooperCallInv /\ TypeInv' /\ LifeInv'
  BY DEF IInv, OrderInv
<1>2. CASE Quiet /\ clock' \in {clock, clock + 1}
  BY <1>2, QuietBox DEF Box!Next
<1>3. CASE \E p \in Thread, m \in Msg, delay \in Nat, to \in {"post_front", "post_delay"} :
             PostBegin(p, m, delay, to)
  BY <1>1, <1>3, PostBeginBox DEF Box!Next
<1>4. CASE \E p \in Thread : PostDelayInsert(p) \/ PostFrontInsert(p) \/ FreeOne(p)
  BY <1>1, <1>4, InsertBox, FreeOneBox DEF Box!Next
<1>5. CASE \/ LooperTake \/ LooperTimeout \/ LooperHandle \/ LooperHandled
           \/ LooperNoHandler \/ LooperFree
  BY <1>1, <1>5, TakeBox, LooperStutter, LooperFreeBox DEF Box!Next
<1> QED BY <1>1, <1>2, <1>3, <1>4, <1>5, NextCases

\* The looper starts as an empty delay queue.
LEMMA BoxInit == Init => Box!Init
<1> SUFFICES ASSUME Init PROVE Box!Init
  OBVIOUS
<1>1. Queued = {} /\ {m \in Msg : Freed(m)} = {}
  BY DEF Init, Queued, ToSet, Freed
<1> QED BY <1>1 DEF Init, Box!Init

\* The message loop is a delay queue: it delivers the earliest due message
\* first and none before it is due, one at a time, and loses and repeats none.
THEOREM DelayQueueImplemented == Spec => ImplementsDelayQueue
<1>1. IInv /\ IInv' /\ [Next]_vars => [Box!Next]_(Box!vars)
  BY BoxStep
<1> QED BY <1>1, BoxInit, Invariance, PTL DEF Spec, ImplementsDelayQueue, Box!Spec
=============================================================================
