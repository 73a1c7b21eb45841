------------------------ MODULE ProfileHandlerProofs ------------------------
(***************************************************************************)
(* Proofs about ProfileHandler, for every set of threads and tokens.       *)
(***************************************************************************)
EXTENDS ProfileHandler, SequenceTheorems, TLAPS

(* Erasing the node at position i of a list of tokens leaves a list of    *)
(* tokens one shorter (list::erase in UnregisterCallback).               *)
LEMMA RemoveAtType ==
  ASSUME NEW S, NEW s \in Seq(S), NEW i \in 1..Len(s)
  PROVE  /\ RemoveAt(s, i) \in Seq(S)
         /\ Len(RemoveAt(s, i)) = Len(s) - 1
  <1>1. \A j \in 1..Len(s) : s[j] \in S
    OBVIOUS
  <1>2. SubSeq(s, 1, i-1) \in Seq(S) /\ Len(SubSeq(s, 1, i-1)) = i-1
    BY <1>1, SubSeqProperties
  <1>3. SubSeq(s, i+1, Len(s)) \in Seq(S)
        /\ Len(SubSeq(s, i+1, Len(s))) = Len(s) - i
    BY <1>1, SubSeqProperties
  <1>4. /\ SubSeq(s, 1, i-1) \o SubSeq(s, i+1, Len(s)) \in Seq(S)
        /\ Len(SubSeq(s, 1, i-1) \o SubSeq(s, i+1, Len(s)))
             = Len(SubSeq(s, 1, i-1)) + Len(SubSeq(s, i+1, Len(s)))
    BY <1>2, <1>3, ConcatProperties, Zenon
  <1>5. (i-1) + (Len(s) - i) = Len(s) - 1
    OBVIOUS
  <1>6. QED
    BY <1>2, <1>3, <1>4, <1>5, Zenon DEF RemoveAt

(* The token a thread unregisters is in the list, so IndexOf finds it.     *)
LEMMA IndexOfFound ==
  ASSUME NEW k, callbacks \in Seq(Tokens), k \in Range(callbacks)
  PROVE  /\ IndexOf(k) \in 1..Len(callbacks)
         /\ callbacks[IndexOf(k)] = k
  BY DEF IndexOf, Range

-----------------------------------------------------------------------------
(* The event source's operations keep its state well typed.               *)

LEMMA SetTimerType ==
  ASSUME ESTypeOK, NEW t \in Threads, NEW on \in BOOLEAN, SetTimer(t, on)
  PROVE  timer' \in [Threads -> BOOLEAN]
  BY DEF ESTypeOK, SetTimer

LEMMA ESRegisterThreadType ==
  ASSUME ESTypeOK, NEW t \in Threads, NEW c, ESRegisterThread(t, c)
  PROVE  ESTypeOK'
  BY SetTimerType DEF ESRegisterThread, StartTimer, StopTimer, ESTypeOK,
                      SharingStates, esVars

LEMMA ESRegisteredCallbackType ==
  ASSUME ESTypeOK, NEW t \in Threads, NEW c, ESRegisteredCallback(t, c)
  PROVE  ESTypeOK'
  BY SetTimerType DEF ESRegisteredCallback, StartTimer, ESTypeOK

LEMMA ESUnregisteredCallbackType ==
  ASSUME ESTypeOK, NEW t \in Threads, NEW c, ESUnregisteredCallback(t, c)
  PROVE  ESTypeOK'
  BY SetTimerType DEF ESUnregisteredCallback, StopTimer, ESTypeOK

LEMMA ESResetType ==
  ASSUME ESTypeOK, NEW t \in Threads, ESReset(t)
  PROVE  ESTypeOK'
  BY SetTimerType DEF ESReset, StopTimer, ESTypeOK, SharingStates

-----------------------------------------------------------------------------

LEMMA InitIInv == Init => IInv
  <1> SUFFICES ASSUME Init PROVE IInv
    OBVIOUS
  <1>1. TypeOK
    <2>1. ESTypeOK
      BY DEF Init, ESInit, ESTypeOK, SharingStates
    <2>2. callbacks \in Seq(Tokens) /\ invoked \in [Threads -> Seq(Tokens)]
      BY DEF Init
    <2>3. QED
      BY <2>1, <2>2, NoThreadAssumption DEF Init, TypeOK, PCs, HStates
  <1>2. LockInv
    BY NoThreadAssumption DEF Init, LockInv
  <1>3. SignalLockInv
    BY DEF Init, SignalLockInv, HoldSL
  <1>4. CountInv
    BY NoThreadAssumption DEF Init, CountInv, WaitSL
  <1>5. OpInv
    BY DEF Init, OpInv
  <1>6. QED
    BY <1>1, <1>2, <1>3, <1>4, <1>5 DEF IInv

(* Only the thread holding control_lock_ is inside an operation.          *)
LEMMA OthersIdle ==
  ASSUME TypeOK, LockInv, NEW t \in Threads, ctl = t,
         NEW u \in Threads, u # t
  PROVE  pc[u] = "idle"
  BY DEF LockInv

LEMMA AllIdle ==
  ASSUME TypeOK, LockInv, ctl = NoThread, NEW u \in Threads
  PROVE  pc[u] = "idle"
  BY NoThreadAssumption DEF LockInv

-----------------------------------------------------------------------------
(* Each action preserves IInv.                                            *)

LEMMA RegisterThreadIInv ==
  ASSUME IInv, NEW t \in Threads, RegisterThread(t)
  PROVE  IInv'
  <1> USE DEF IInv
  <1>1. TypeOK'
    <2>1. ESTypeOK'
      BY ESRegisterThreadType DEF RegisterThread, TypeOK
    <2>2. oneSetBy' \in Threads \cup {NoThread}
      BY DEF RegisterThread, TypeOK
    <2>3. QED
      BY <2>1, <2>2 DEF RegisterThread, TypeOK
  <1>2. QED
    BY <1>1 DEF RegisterThread, LockInv, SignalLockInv, CountInv, OpInv

LEMMA RegisterCallbackBeginIInv ==
  ASSUME IInv, NEW t \in Threads, RegisterCallbackBegin(t)
  PROVE  IInv'
  <1> USE DEF IInv, RegisterCallbackBegin, Goto, Running
  <1>1. PICK k \in FreeTokens : op' = [op EXCEPT ![t] = k]
    OBVIOUS
  <1>2. k \in Tokens
    BY DEF FreeTokens
  <1>3. \A u \in Threads : u # t => pc[u] = "idle"
    BY AllIdle
  <1>4. TypeOK'
    BY <1>1, <1>2 DEF TypeOK, ESTypeOK, esVars, PCs
  <1>5. LockInv'
    BY <1>3, NoThreadAssumption DEF LockInv, TypeOK
  <1>6. SignalLockInv'
    BY <1>3 DEF SignalLockInv, HoldSL, TypeOK
  <1>7. CountInv'
    BY <1>3 DEF CountInv, WaitSL, TypeOK
  <1>8. OpInv'
    BY <1>1, <1>2, <1>3 DEF OpInv, TypeOK
  <1>9. QED
    BY <1>4, <1>5, <1>6, <1>7, <1>8

LEMMA RegisterCallbackPushIInv ==
  ASSUME IInv, NEW t \in Threads, RegisterCallbackPush(t)
  PROVE  IInv'
  <1> USE DEF IInv, RegisterCallbackPush, Goto, Running, AcquireSignalLock
  <1>1. op[t] \in Tokens
    BY DEF OpInv
  <1>2. ctl = t
    BY DEF LockInv
  <1>3. \A u \in Threads : u # t => pc[u] = "idle"
    BY <1>2, OthersIdle
  <1>4. /\ Append(callbacks, op[t]) \in Seq(Tokens)
        /\ Len(Append(callbacks, op[t])) = Len(callbacks) + 1
    BY <1>1, AppendProperties DEF TypeOK
  <1>5. TypeOK'
    BY <1>4 DEF TypeOK, ESTypeOK, esVars, PCs
  <1>6. LockInv'
    BY DEF LockInv
  <1>7. SignalLockInv'
    BY <1>3 DEF SignalLockInv, HoldSL, TypeOK, Mutator, Handler
  <1>8. CountInv'
    <2>1. callback_count = Len(callbacks)
      BY <1>2 DEF CountInv, WaitSL
    <2>2. ASSUME NEW u \in Threads
          PROVE  /\ pc'[u] \in WaitSL \cup {"gs_rel"} => callback_count' = Len(callbacks')
                 /\ pc'[u] = "rc_rel" => callback_count' + 1 = Len(callbacks')
                 /\ pc'[u] = "uc_rel" => callback_count' = Len(callbacks') + 1
                 /\ pc'[u] = "rs_rel" => callbacks' = <<>>
      <3>1. CASE u = t
        BY <3>1, <1>4, <2>1 DEF WaitSL, TypeOK
      <3>2. CASE u # t
        BY <3>2, <1>3 DEF WaitSL, TypeOK
      <3>3. QED
        BY <3>1, <3>2
    <2>3. QED
      BY <1>2, <2>2, NoThreadAssumption DEF CountInv
  <1>9. OpInv'
    BY <1>1, <1>3 DEF OpInv, TypeOK
  <1>10. QED
    BY <1>5, <1>6, <1>7, <1>8, <1>9

LEMMA RegisterCallbackEndIInv ==
  ASSUME IInv, NEW t \in Threads, RegisterCallbackEnd(t)
  PROVE  IInv'
  <1> USE DEF IInv, RegisterCallbackEnd, Goto, Running, ReleaseSignalLock
  <1>1. op[t] \in Tokens
    BY DEF OpInv
  <1>2. ctl = t
    BY DEF LockInv
  <1>3. \A u \in Threads : pc'[u] = "idle"
    BY <1>2, OthersIdle DEF TypeOK
  <1>4. callback_count + 1 = Len(callbacks)
    BY DEF CountInv
  <1>5. \A u \in Threads : hstate[u] # "run"
    BY DEF SignalLockInv, HoldSL, Mutator, Handler
  <1>6. TypeOK'
    <2>1. ESTypeOK'
      BY ESRegisteredCallbackType DEF TypeOK
    <2>2. held' \in [Threads -> SUBSET Tokens]
      BY <1>1 DEF TypeOK
    <2>3. QED
      BY <2>1, <2>2, NoTokenAssumption, NoThreadAssumption DEF TypeOK, PCs
  <1>7. LockInv'
    BY <1>3, NoThreadAssumption DEF LockInv
  <1>8. SignalLockInv'
    BY <1>3, <1>5 DEF SignalLockInv, HoldSL
  <1>9. CountInv'
    BY <1>3, <1>4 DEF CountInv, WaitSL
  <1>10. OpInv'
    BY <1>3 DEF OpInv
  <1>11. QED
    BY <1>6, <1>7, <1>8, <1>9, <1>10

LEMMA UnregisterCallbackBeginIInv ==
  ASSUME IInv, NEW t \in Threads, UnregisterCallbackBegin(t)
  PROVE  IInv'
  <1> USE DEF IInv, UnregisterCallbackBegin, Goto, Running
  <1>1. PICK k \in held[t] : k \in Range(callbacks) /\ op' = [op EXCEPT ![t] = k]
    OBVIOUS
  <1>2. k \in Tokens
    BY DEF TypeOK
  <1>3. \A u \in Threads : u # t => pc[u] = "idle"
    BY AllIdle
  <1>4. TypeOK'
    BY <1>1, <1>2 DEF TypeOK, ESTypeOK, esVars, PCs
  <1>5. LockInv'
    BY <1>3, NoThreadAssumption DEF LockInv, TypeOK
  <1>6. SignalLockInv'
    BY <1>3 DEF SignalLockInv, HoldSL, TypeOK
  <1>7. CountInv'
    BY <1>3 DEF CountInv, WaitSL, TypeOK
  <1>8. OpInv'
    BY <1>1, <1>2, <1>3 DEF OpInv, TypeOK
  <1>9. QED
    BY <1>4, <1>5, <1>6, <1>7, <1>8

LEMMA UnregisterCallbackEraseIInv ==
  ASSUME IInv, NEW t \in Threads, UnregisterCallbackErase(t)
  PROVE  IInv'
  <1> USE DEF IInv, UnregisterCallbackErase, Goto, Running, AcquireSignalLock
  <1>1. op[t] \in Tokens /\ op[t] \in Range(callbacks)
    BY DEF OpInv
  <1>2. ctl = t
    BY DEF LockInv
  <1>3. \A u \in Threads : u # t => pc[u] = "idle"
    BY <1>2, OthersIdle
  <1>4. /\ IndexOf(op[t]) \in 1..Len(callbacks)
    BY <1>1, IndexOfFound DEF TypeOK
  <1>5. /\ callbacks' \in Seq(Tokens)
        /\ Len(callbacks') = Len(callbacks) - 1
    BY <1>4, RemoveAtType DEF TypeOK
  <1>6. callback_count = Len(callbacks)
    BY <1>2 DEF CountInv, WaitSL
  <1>7. TypeOK'
    BY <1>5 DEF TypeOK, ESTypeOK, esVars, PCs
  <1>8. LockInv'
    BY DEF LockInv
  <1>9. SignalLockInv'
    BY <1>3 DEF SignalLockInv, HoldSL, TypeOK, Mutator, Handler
  <1>10. CountInv'
    <2>1. ASSUME NEW u \in Threads
          PROVE  /\ pc'[u] \in WaitSL \cup {"gs_rel"} => callback_count' = Len(callbacks')
                 /\ pc'[u] = "rc_rel" => callback_count' + 1 = Len(callbacks')
                 /\ pc'[u] = "uc_rel" => callback_count' = Len(callbacks') + 1
                 /\ pc'[u] = "rs_rel" => callbacks' = <<>>
      <3>1. CASE u = t
        BY <3>1, <1>5, <1>6 DEF WaitSL, TypeOK
      <3>2. CASE u # t
        BY <3>2, <1>3 DEF WaitSL, TypeOK
      <3>3. QED
        BY <3>1, <3>2
    <2>2. QED
      BY <1>2, <2>1, NoThreadAssumption DEF CountInv
  <1>11. OpInv'
    BY <1>1, <1>3 DEF OpInv, TypeOK
  <1>12. QED
    BY <1>7, <1>8, <1>9, <1>10, <1>11

LEMMA UnregisterCallbackEndIInv ==
  ASSUME IInv, NEW t \in Threads, UnregisterCallbackEnd(t)
  PROVE  IInv'
  <1> USE DEF IInv, UnregisterCallbackEnd, Goto, Running, ReleaseSignalLock
  <1>1. op[t] \in Tokens
    BY DEF OpInv
  <1>2. ctl = t
    BY DEF LockInv
  <1>3. \A u \in Threads : pc'[u] = "idle"
    BY <1>2, OthersIdle DEF TypeOK
  <1>4. callback_count = Len(callbacks) + 1
    BY DEF CountInv
  <1>5. \A u \in Threads : hstate[u] # "run"
    BY DEF SignalLockInv, HoldSL, Mutator, Handler
  <1>6. TypeOK'
    <2>1. ESTypeOK'
      BY ESUnregisteredCallbackType DEF TypeOK
    <2>2. held' \in [Threads -> SUBSET Tokens]
      BY DEF TypeOK
    <2>3. callback_count' \in Nat
      BY <1>4 DEF TypeOK
    <2>4. QED
      BY <2>1, <2>2, <2>3, NoTokenAssumption, NoThreadAssumption DEF TypeOK, PCs
  <1>7. LockInv'
    BY <1>3, NoThreadAssumption DEF LockInv
  <1>8. SignalLockInv'
    BY <1>3, <1>5 DEF SignalLockInv, HoldSL
  <1>9. CountInv'
    BY <1>3, <1>4 DEF CountInv, WaitSL
  <1>10. OpInv'
    BY <1>3 DEF OpInv
  <1>11. QED
    BY <1>6, <1>7, <1>8, <1>9, <1>10

LEMMA ResetBeginIInv ==
  ASSUME IInv, NEW t \in Threads, ResetBegin(t)
  PROVE  IInv'
  <1> USE DEF IInv, ResetBegin, Goto, Running
  <1>1. \A u \in Threads : u # t => pc[u] = "idle"
    BY AllIdle
  <1>2. TypeOK'
    BY DEF TypeOK, ESTypeOK, esVars, PCs
  <1>3. LockInv'
    BY <1>1, NoThreadAssumption DEF LockInv, TypeOK
  <1>4. SignalLockInv'
    BY <1>1 DEF SignalLockInv, HoldSL, TypeOK
  <1>5. CountInv'
    BY <1>1 DEF CountInv, WaitSL, TypeOK
  <1>6. OpInv'
    BY <1>1 DEF OpInv, TypeOK
  <1>7. QED
    BY <1>2, <1>3, <1>4, <1>5, <1>6

LEMMA GetStateBeginIInv ==
  ASSUME IInv, NEW t \in Threads, GetStateBegin(t)
  PROVE  IInv'
  <1> USE DEF IInv, GetStateBegin, Goto, Running
  <1>1. \A u \in Threads : u # t => pc[u] = "idle"
    BY AllIdle
  <1>2. TypeOK'
    BY DEF TypeOK, ESTypeOK, esVars, PCs
  <1>3. LockInv'
    BY <1>1, NoThreadAssumption DEF LockInv, TypeOK
  <1>4. SignalLockInv'
    BY <1>1 DEF SignalLockInv, HoldSL, TypeOK
  <1>5. CountInv'
    BY <1>1 DEF CountInv, WaitSL, TypeOK
  <1>6. OpInv'
    BY <1>1 DEF OpInv, TypeOK
  <1>7. QED
    BY <1>2, <1>3, <1>4, <1>5, <1>6

LEMMA ResetClearIInv ==
  ASSUME IInv, NEW t \in Threads, ResetClear(t)
  PROVE  IInv'
  <1> USE DEF IInv, ResetClear, Goto, Running, AcquireSignalLock
  <1>2. ctl = t
    BY DEF LockInv
  <1>3. \A u \in Threads : u # t => pc[u] = "idle"
    BY <1>2, OthersIdle
  <1>7. TypeOK'
    BY DEF TypeOK, ESTypeOK, esVars, PCs
  <1>8. LockInv'
    BY DEF LockInv
  <1>9. SignalLockInv'
    BY <1>3 DEF SignalLockInv, HoldSL, TypeOK, Mutator, Handler
  <1>10. CountInv'
    BY <1>2, <1>3, NoThreadAssumption DEF CountInv, WaitSL, TypeOK
  <1>11. OpInv'
    BY <1>3 DEF OpInv, TypeOK
  <1>12. QED
    BY <1>7, <1>8, <1>9, <1>10, <1>11

LEMMA ResetEndIInv ==
  ASSUME IInv, NEW t \in Threads, ResetEnd(t)
  PROVE  IInv'
  <1> USE DEF IInv, ResetEnd, Goto, Running, ReleaseSignalLock
  <1>2. ctl = t
    BY DEF LockInv
  <1>3. \A u \in Threads : pc'[u] = "idle"
    BY <1>2, OthersIdle DEF TypeOK
  <1>4. callbacks = <<>>
    BY DEF CountInv
  <1>5. \A u \in Threads : hstate[u] # "run"
    BY DEF SignalLockInv, HoldSL, Mutator, Handler
  <1>6. TypeOK'
    <2>1. ESTypeOK'
      BY ESResetType DEF TypeOK
    <2>2. QED
      BY <2>1, NoThreadAssumption DEF TypeOK, PCs
  <1>7. LockInv'
    BY <1>3, NoThreadAssumption DEF LockInv
  <1>8. SignalLockInv'
    BY <1>3, <1>5 DEF SignalLockInv, HoldSL
  <1>9. CountInv'
    BY <1>3, <1>4 DEF CountInv, WaitSL
  <1>10. OpInv'
    BY <1>3 DEF OpInv
  <1>11. QED
    BY <1>6, <1>7, <1>8, <1>9, <1>10

LEMMA GetStateReadIInv ==
  ASSUME IInv, NEW t \in Threads, GetStateRead(t)
  PROVE  IInv'
  <1> USE DEF IInv, GetStateRead, Goto, Running, AcquireSignalLock
  <1>2. ctl = t
    BY DEF LockInv
  <1>3. \A u \in Threads : u # t => pc[u] = "idle"
    BY <1>2, OthersIdle
  <1>7. TypeOK'
    BY DEF TypeOK, ESTypeOK, esVars, PCs
  <1>8. LockInv'
    BY DEF LockInv
  <1>9. SignalLockInv'
    BY <1>3 DEF SignalLockInv, HoldSL, TypeOK, Mutator, Handler
  <1>10. CountInv'
    BY <1>2, <1>3, NoThreadAssumption DEF CountInv, WaitSL, TypeOK
  <1>11. OpInv'
    BY <1>3 DEF OpInv, TypeOK
  <1>12. QED
    BY <1>7, <1>8, <1>9, <1>10, <1>11

LEMMA GetStateEndIInv ==
  ASSUME IInv, NEW t \in Threads, GetStateEnd(t)
  PROVE  IInv'
  <1> USE DEF IInv, GetStateEnd, Goto, Running, ReleaseSignalLock
  <1>2. ctl = t
    BY DEF LockInv
  <1>3. \A u \in Threads : pc'[u] = "idle"
    BY <1>2, OthersIdle DEF TypeOK
  <1>4. callback_count = Len(callbacks)
    BY DEF CountInv
  <1>5. \A u \in Threads : hstate[u] # "run"
    BY DEF SignalLockInv, HoldSL, Mutator, Handler
  <1>6. TypeOK'
    BY NoThreadAssumption DEF TypeOK, ESTypeOK, esVars, PCs
  <1>7. LockInv'
    BY <1>3, NoThreadAssumption DEF LockInv
  <1>8. SignalLockInv'
    BY <1>3, <1>5 DEF SignalLockInv, HoldSL
  <1>9. CountInv'
    BY <1>3, <1>4 DEF CountInv, WaitSL
  <1>10. OpInv'
    BY <1>3 DEF OpInv
  <1>11. QED
    BY <1>6, <1>7, <1>8, <1>9, <1>10

LEMMA DeliverIInv ==
  ASSUME IInv, NEW t \in Threads, Deliver(t)
  PROVE  IInv'
  <1> USE DEF IInv, Deliver
  <1>1. pc[t] = "idle"
    BY DEF LockInv
  <1>2. TypeOK'
    BY DEF TypeOK, ESTypeOK, esVars, HStates
  <1>3. LockInv'
    BY DEF LockInv
  <1>4. SignalLockInv'
    BY <1>1 DEF SignalLockInv, TypeOK
  <1>5. CountInv' /\ OpInv'
    BY DEF CountInv, OpInv
  <1>6. QED
    BY <1>2, <1>3, <1>4, <1>5

LEMMA HandlerAcquireIInv ==
  ASSUME IInv, NEW t \in Threads, HandlerAcquire(t)
  PROVE  IInv'
  <1> USE DEF IInv, HandlerAcquire
  <1>1. pc[t] = "idle"
    BY DEF SignalLockInv, TypeOK
  <1>2. \A u \in Threads : pc[u] \notin HoldSL /\ hstate[u] # "run"
    BY DEF SignalLockInv, TypeOK
  <1>3. callbacks # <<>> => callbacks[1] \in Tokens
    BY DEF TypeOK
  <1>4. TypeOK'
    BY <1>3, NoTokenAssumption DEF TypeOK, ESTypeOK, esVars, HStates, Handler
  <1>5. LockInv'
    BY DEF LockInv
  <1>6. SignalLockInv'
    BY <1>1, <1>2 DEF SignalLockInv, TypeOK, Mutator, Handler
  <1>7. CountInv' /\ OpInv'
    BY DEF CountInv, OpInv
  <1>8. QED
    BY <1>4, <1>5, <1>6, <1>7

LEMMA HandlerInvokeIInv ==
  ASSUME IInv, NEW t \in Threads, HandlerInvoke(t)
  PROVE  IInv'
  <1> USE DEF IInv, HandlerInvoke
  <1>1. hit[t] \in Tokens
    BY DEF TypeOK
  <1>2. Succ(hit[t]) \in Tokens \cup {NoToken}
    <2>1. CASE hit[t] \in Range(callbacks) /\ IndexOf(hit[t]) < Len(callbacks)
      <3>1. IndexOf(hit[t]) \in 1..Len(callbacks)
        BY <2>1, IndexOfFound DEF TypeOK
      <3>2. QED
        BY <2>1, <3>1 DEF Succ, TypeOK
    <2>2. CASE ~(hit[t] \in Range(callbacks) /\ IndexOf(hit[t]) < Len(callbacks))
      BY <2>2 DEF Succ
    <2>3. QED
      BY <2>1, <2>2
  <1>3. Append(invoked[t], hit[t]) \in Seq(Tokens)
    BY <1>1, AppendProperties DEF TypeOK
  <1>4. TypeOK'
    BY <1>2, <1>3 DEF TypeOK, ESTypeOK, esVars
  <1>5. LockInv' /\ SignalLockInv' /\ CountInv' /\ OpInv'
    BY DEF LockInv, SignalLockInv, CountInv, OpInv
  <1>6. QED
    BY <1>4, <1>5

LEMMA HandlerReturnIInv ==
  ASSUME IInv, NEW t \in Threads, HandlerReturn(t)
  PROVE  IInv'
  <1> USE DEF IInv, HandlerReturn
  <1>1. sl = <<t, Handler>>
    BY DEF SignalLockInv
  <1>2. \A u \in Threads : pc[u] \notin HoldSL
    BY <1>1 DEF SignalLockInv, TypeOK, Mutator, Handler
  <1>3. \A u \in Threads : u # t => hstate[u] # "run"
    BY <1>1 DEF SignalLockInv, TypeOK
  <1>4. TypeOK'
    BY DEF TypeOK, ESTypeOK, esVars, HStates
  <1>5. LockInv'
    BY DEF LockInv
  <1>6. SignalLockInv'
    BY <1>2, <1>3 DEF SignalLockInv, TypeOK
  <1>7. CountInv' /\ OpInv'
    BY DEF CountInv, OpInv
  <1>8. QED
    BY <1>4, <1>5, <1>6, <1>7

LEMMA StutterIInv ==
  ASSUME IInv, UNCHANGED vars
  PROVE  IInv'
  BY DEF vars, phVars, esVars, IInv, TypeOK, ESTypeOK, LockInv,
         SignalLockInv, CountInv, OpInv

-----------------------------------------------------------------------------
(* IInv is an inductive invariant of Spec.                                 *)
LEMMA NextIInv == IInv /\ [Next]_vars => IInv'
  <1> SUFFICES ASSUME IInv, [Next]_vars PROVE IInv'
    OBVIOUS
  <1>1. CASE Next
    BY <1>1, RegisterThreadIInv, RegisterCallbackBeginIInv,
       RegisterCallbackPushIInv, RegisterCallbackEndIInv,
       UnregisterCallbackBeginIInv, UnregisterCallbackEraseIInv,
       UnregisterCallbackEndIInv, ResetBeginIInv, ResetClearIInv,
       ResetEndIInv, GetStateBeginIInv, GetStateReadIInv, GetStateEndIInv,
       DeliverIInv, HandlerAcquireIInv, HandlerInvokeIInv, HandlerReturnIInv
    DEF Next
  <1>2. CASE UNCHANGED vars
    BY <1>2, StutterIInv
  <1>3. QED
    BY <1>1, <1>2

THEOREM IInvInvariant == Spec => []IInv
  BY InitIInv, NextIInv, PTL DEF Spec

(* Type correctness: every variable of ProfileHandler and of the timer    *)
(* event source stays in its type.                                       *)
THEOREM TypeCorrect == Spec => []TypeOK
  BY IInvInvariant, PTL DEF IInv

(* A signal handler never spins on signal_lock_ held by the code it        *)
(* interrupted (the self-deadlock the DisableHandler() calls prevent).    *)
THEOREM NoSelfDeadlockInvariant == Spec => []NoSelfDeadlock
  <1>1. IInv => NoSelfDeadlock
    BY DEF IInv, SignalLockInv, NoSelfDeadlock, HoldSL, TypeOK
  <1>2. QED
    BY <1>1, IInvInvariant, PTL

-----------------------------------------------------------------------------
(* The handler is installed between operations exactly when callbacks are *)
(* registered.  Inside an operation it is off (LockInv), so each step     *)
(* that ends an operation sets it from the count it leaves behind.        *)

LEMMA EnabledStep ==
  ASSUME IInv, HandlerEnabledIffCallbacks, [Next]_vars
  PROVE  HandlerEnabledIffCallbacks'
  <1> USE DEF HandlerEnabledIffCallbacks
  <1>1. ASSUME NEW t \in Threads, RegisterCallbackEnd(t) PROVE HandlerEnabledIffCallbacks'
    BY <1>1 DEF RegisterCallbackEnd, IInv, TypeOK
  <1>2. ASSUME NEW t \in Threads, UnregisterCallbackEnd(t) PROVE HandlerEnabledIffCallbacks'
    <2>1. ~enabled
      BY <1>2 DEF UnregisterCallbackEnd, Goto, IInv, LockInv
    <2>2. QED
      BY <1>2, <2>1 DEF UnregisterCallbackEnd, IInv, TypeOK
  <1>3. ASSUME NEW t \in Threads, ResetEnd(t) PROVE HandlerEnabledIffCallbacks'
    <2>1. ~enabled
      BY <1>3 DEF ResetEnd, Goto, IInv, LockInv
    <2>2. QED
      BY <1>3, <2>1 DEF ResetEnd
  <1>4. ASSUME NEW t \in Threads, GetStateEnd(t) PROVE HandlerEnabledIffCallbacks'
    <2>1. ~enabled
      BY <1>4 DEF GetStateEnd, Goto, IInv, LockInv
    <2>2. QED
      BY <1>4, <2>1 DEF GetStateEnd, IInv, TypeOK
  <1>5. ASSUME NEW t \in Threads,
               \/ RegisterCallbackBegin(t) \/ UnregisterCallbackBegin(t)
               \/ ResetBegin(t) \/ GetStateBegin(t)
        PROVE  HandlerEnabledIffCallbacks'
    BY <1>5, NoThreadAssumption
    DEF RegisterCallbackBegin, UnregisterCallbackBegin, ResetBegin, GetStateBegin
  <1>6. ASSUME NEW t \in Threads,
               \/ RegisterCallbackPush(t) \/ UnregisterCallbackErase(t)
               \/ ResetClear(t) \/ GetStateRead(t)
        PROVE  HandlerEnabledIffCallbacks'
    <2>1. ctl = t
      BY <1>6 DEF RegisterCallbackPush, UnregisterCallbackErase, ResetClear,
                  GetStateRead, Goto, IInv, LockInv
    <2>2. QED
      BY <1>6, <2>1, NoThreadAssumption
      DEF RegisterCallbackPush, UnregisterCallbackErase, ResetClear, GetStateRead
  <1>7. ASSUME NEW t \in Threads,
               \/ RegisterThread(t) \/ Deliver(t) \/ HandlerAcquire(t)
               \/ HandlerInvoke(t) \/ HandlerReturn(t)
        PROVE  HandlerEnabledIffCallbacks'
    BY <1>7 DEF RegisterThread, Deliver, HandlerAcquire, HandlerInvoke,
                HandlerReturn
  <1>8. CASE UNCHANGED vars
    BY <1>8 DEF vars, phVars
  <1>9. QED
    BY <1>1, <1>2, <1>3, <1>4, <1>5, <1>6, <1>7, <1>8 DEF Next

(* Between operations the signal handler is installed exactly when        *)
(* callbacks are registered: EnableHandler/DisableHandler in              *)
(* RegisterCallback, UnregisterCallback, GetState and Reset.              *)
THEOREM HandlerEnabledInvariant == Spec => []HandlerEnabledIffCallbacks
  <1>1. Init => HandlerEnabledIffCallbacks
    BY DEF Init, HandlerEnabledIffCallbacks
  <1>2. QED
    BY <1>1, EnabledStep, IInvInvariant, PTL DEF Spec

=============================================================================
