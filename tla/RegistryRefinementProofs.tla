--------------------- MODULE RegistryRefinementProofs ----------------------
(***************************************************************************)
(* Proof that ProfileHandler implements CallbackRegistry under the        *)
(* refinement mapping callbacks_ -> registry, AbsHandles -> handles,      *)
(* interrupts_ -> ticks: every step of the two-lock protocol or of the    *)
(* signal handler is an atomic registry step or leaves the mapped state   *)
(* unchanged.                                                             *)
(***************************************************************************)
EXTENDS ProfileHandlerProofs

-----------------------------------------------------------------------------
(* FreshInv is preserved.  Only the thread holding control_lock_ is at a  *)
(* label, and only its Begin step moves it to rc_sl or uc_sl, choosing a  *)
(* token not in the list or one it holds; no other step of any thread     *)
(* changes the list, the held tokens or op while it waits there.         *)

\* The steps after which no thread is at rc_sl or uc_sl.
LEMMA NoneWaiting ==
  ASSUME IInv, NEW t \in Threads, ctl = t,
         pc'[t] \notin {"rc_sl", "uc_sl"},
         \A u \in Threads : u # t => pc'[u] = pc[u]
  PROVE  FreshInv'
  BY OthersIdle DEF IInv, FreshInv

\* The steps that change none of pc, op, callbacks and held.
LEMMA FreshUnchanged ==
  ASSUME FreshInv, UNCHANGED <<pc, op, callbacks, held>>
  PROVE  FreshInv'
  BY DEF FreshInv

LEMMA NextFreshInv ==
  ASSUME IInv, FreshInv, [Next]_vars
  PROVE  FreshInv'
  <1> USE DEF Goto
  <1>1. CASE \E t \in Threads :
               \/ RegisterThread(t) \/ Deliver(t) \/ HandlerAcquire(t)
               \/ HandlerInvoke(t) \/ HandlerReturn(t)
    BY <1>1, FreshUnchanged
    DEF RegisterThread, Deliver, HandlerAcquire, HandlerInvoke, HandlerReturn
  <1>2. ASSUME NEW t \in Threads, RegisterCallbackBegin(t)
        PROVE  FreshInv'
    <2>1. PICK k \in FreeTokens : op' = [op EXCEPT ![t] = k]
      BY <1>2 DEF RegisterCallbackBegin
    <2>2. \A u \in Threads : u # t => pc[u] = "idle"
      BY <1>2, AllIdle DEF IInv, RegisterCallbackBegin
    <2>3. QED
      BY <1>2, <2>1, <2>2 DEF RegisterCallbackBegin, FreshInv, FreeTokens,
                              IInv, TypeOK
  <1>3. ASSUME NEW t \in Threads, UnregisterCallbackBegin(t)
        PROVE  FreshInv'
    <2>1. PICK k \in held[t] : k \in Range(callbacks)
                               /\ op' = [op EXCEPT ![t] = k]
      BY <1>3 DEF UnregisterCallbackBegin
    <2>2. \A u \in Threads : u # t => pc[u] = "idle"
      BY <1>3, AllIdle DEF IInv, UnregisterCallbackBegin
    <2>3. QED
      BY <1>3, <2>1, <2>2 DEF UnregisterCallbackBegin, FreshInv, IInv, TypeOK
  <1>4. ASSUME NEW t \in Threads,
               \/ ResetBegin(t) \/ GetStateBegin(t)
        PROVE  FreshInv'
    <2>1. \A u \in Threads : u # t => pc[u] = "idle"
      BY <1>4, AllIdle DEF IInv, ResetBegin, GetStateBegin
    <2>2. QED
      BY <1>4, <2>1 DEF ResetBegin, GetStateBegin, FreshInv, IInv, TypeOK
  <1>5. ASSUME NEW t \in Threads,
               \/ RegisterCallbackPush(t) \/ RegisterCallbackEnd(t)
               \/ UnregisterCallbackErase(t) \/ UnregisterCallbackEnd(t)
               \/ ResetClear(t) \/ ResetEnd(t)
               \/ GetStateRead(t) \/ GetStateEnd(t)
        PROVE  FreshInv'
    <2>1. pc[t] # "idle"
      BY <1>5 DEF RegisterCallbackPush, RegisterCallbackEnd,
                  UnregisterCallbackErase, UnregisterCallbackEnd, ResetClear,
                  ResetEnd, GetStateRead, GetStateEnd
    <2>2. ctl = t
      BY <2>1 DEF IInv, LockInv
    <2>3. pc'[t] \notin {"rc_sl", "uc_sl"}
          /\ \A u \in Threads : u # t => pc'[u] = pc[u]
      BY <1>5 DEF RegisterCallbackPush, RegisterCallbackEnd,
                  UnregisterCallbackErase, UnregisterCallbackEnd, ResetClear,
                  ResetEnd, GetStateRead, GetStateEnd, IInv, TypeOK
    <2>4. QED
      BY <2>2, <2>3, NoneWaiting
  <1>6. CASE UNCHANGED vars
    BY <1>6, FreshUnchanged DEF vars, phVars
  <1>7. QED
    BY <1>1, <1>2, <1>3, <1>4, <1>5, <1>6 DEF Next

(* IInv /\ FreshInv is an invariant of ProfileHandler: the token          *)
(* RegisterCallback picked is not in callbacks_ until its push, and the    *)
(* token UnregisterCallback was given is held by its caller until the      *)
(* erase, whatever other threads and handlers do in between.             *)
THEOREM RInvInvariant == Spec => []RInv
  <1>1. Init => FreshInv
    BY DEF Init, FreshInv
  <1>2. IInv /\ FreshInv /\ [Next]_vars => FreshInv'
    BY NextFreshInv
  <1>3. QED
    BY <1>1, <1>2, InitIInv, NextIInv, PTL DEF Spec, RInv

-----------------------------------------------------------------------------
(* The refinement mapping.                                                *)

LEMMA InitRefines == Init => Registry!RegInit
  BY DEF Init, Registry!RegInit, AbsHandles

\* A step that changes neither callbacks_, interrupts_ nor the mapped
\* handles is a stuttering step of the registry.
LEMMA Stutter ==
  ASSUME UNCHANGED <<callbacks, interrupts>>, AbsHandles' = AbsHandles
  PROVE  [Registry!RegNext]_Registry!regVars
  BY DEF Registry!regVars

\* While nobody is at rs_rel, the mapped handles of a thread outside
\* rc_rel and uc_rel are the tokens it holds.
LEMMA HandlesHeld ==
  ASSUME NEW u \in Threads, \A v \in Threads : pc[v] # "rs_rel",
         pc[u] \notin {"rc_rel", "uc_rel"}
  PROVE  AbsHandles[u] = held[u]
  BY DEF AbsHandles

\* The same in the next state.
LEMMA HandlesHeldNext ==
  ASSUME NEW u \in Threads, \A v \in Threads : pc'[v] # "rs_rel",
         pc'[u] \notin {"rc_rel", "uc_rel"}
  PROVE  AbsHandles'[u] = held'[u]
  BY DEF AbsHandles

\* Steps that leave pc, op and held alone leave the mapped handles alone.
LEMMA HandlesUnchanged ==
  ASSUME UNCHANGED <<pc, op, held>>
  PROVE  AbsHandles' = AbsHandles
  BY DEF AbsHandles

\* Every step of a thread between two labels other than rc_rel, uc_rel and
\* rs_rel, with held unchanged and the other threads idle, keeps the
\* mapped handles: before and after, every thread's handles are its held
\* tokens.
LEMMA HandlesQuiet ==
  ASSUME TypeOK, NEW t \in Threads, UNCHANGED held,
         pc[t] \notin {"rc_rel", "uc_rel", "rs_rel"},
         pc'[t] \notin {"rc_rel", "uc_rel", "rs_rel"},
         \A u \in Threads : u # t => pc[u] = "idle" /\ pc'[u] = "idle"
  PROVE  AbsHandles' = AbsHandles
  <1>1. \A u \in Threads : AbsHandles[u] = held[u]
    BY HandlesHeld
  <1>2. \A u \in Threads : AbsHandles'[u] = held'[u]
    BY HandlesHeldNext
  <1>3. QED
    BY <1>1, <1>2 DEF AbsHandles

-----------------------------------------------------------------------------
(* Each step maps to a registry step or a stutter.                        *)

\* RegisterCallback's push is an atomic Register of the fresh token.
LEMMA PushRefines ==
  ASSUME RInv, NEW t \in Threads, RegisterCallbackPush(t)
  PROVE  Registry!Register(t, op[t])
  <1> USE DEF RegisterCallbackPush, Goto
  <1>1. op[t] \in Tokens /\ op[t] \notin Range(callbacks)
    BY DEF RInv, IInv, OpInv, FreshInv
  <1>2. ctl = t /\ \A u \in Threads : u # t => pc[u] = "idle"
    BY OthersIdle DEF RInv, IInv, LockInv
  <1>3. \A u \in Threads : u # t => AbsHandles'[u] = AbsHandles[u]
    BY <1>2, HandlesHeld, HandlesHeldNext DEF RInv, IInv, TypeOK
  <1>4. AbsHandles'[t] = AbsHandles[t] \cup {op[t]}
    BY <1>2, HandlesHeld DEF AbsHandles, RInv, IInv, TypeOK
  <1>5. AbsHandles' = [AbsHandles EXCEPT ![t] = @ \cup {op[t]}]
    BY <1>3, <1>4 DEF AbsHandles
  <1>6. callbacks' = Append(callbacks, op[t]) /\ UNCHANGED interrupts
    OBVIOUS
  <1>7. op[t] \in Tokens \ Range(callbacks)
    BY <1>1
  <1>8. QED
    BY <1>5, <1>6, <1>7 DEF Registry!Register, Registry!Range, Range

\* UnregisterCallback's erase is an atomic Unregister of the held token.
LEMMA EraseRefines ==
  ASSUME RInv, NEW t \in Threads, UnregisterCallbackErase(t)
  PROVE  Registry!Unregister(t, op[t])
  <1> USE DEF UnregisterCallbackErase, Goto
  <1>1. op[t] \in held[t] /\ op[t] \in Range(callbacks)
    BY DEF RInv, IInv, OpInv, FreshInv
  <1>2. ctl = t /\ \A u \in Threads : u # t => pc[u] = "idle"
    BY OthersIdle DEF RInv, IInv, LockInv
  <1>3. IndexOf(op[t]) \in 1..Len(callbacks)
        /\ callbacks[IndexOf(op[t])] = op[t]
    BY <1>1, IndexOfFound DEF RInv, IInv, TypeOK
  <1>4. AbsHandles[t] = held[t]
    BY <1>2, HandlesHeld DEF RInv, IInv, TypeOK
  <1>5. \A u \in Threads : u # t => AbsHandles'[u] = AbsHandles[u]
    BY <1>2, HandlesHeld, HandlesHeldNext DEF RInv, IInv, TypeOK
  <1>6. AbsHandles'[t] = held[t] \ {op[t]}
    BY <1>2 DEF AbsHandles, RInv, IInv, TypeOK
  <1>7. AbsHandles' = [AbsHandles EXCEPT ![t] = @ \ {op[t]}]
    BY <1>4, <1>5, <1>6 DEF AbsHandles
  <1>8. callbacks' = RemoveAt(callbacks, IndexOf(op[t])) /\ UNCHANGED interrupts
    OBVIOUS
  <1>9. QED
    BY <1>1, <1>3, <1>4, <1>7, <1>8
    DEF Registry!Unregister, Registry!RemoveAt, RemoveAt

\* Reset's clear is an atomic ResetAll.
LEMMA ClearRefines ==
  ASSUME RInv, NEW t \in Threads, ResetClear(t)
  PROVE  Registry!ResetAll
  <1>1. AbsHandles' = [c \in Threads |-> {}]
    BY DEF ResetClear, Goto, AbsHandles, RInv, IInv, TypeOK
  <1>2. QED
    BY <1>1 DEF ResetClear, Registry!ResetAll

\* The End steps hand the token over to held: the mapped handles stay.
LEMMA EndsStutter ==
  ASSUME RInv, NEW t \in Threads,
         RegisterCallbackEnd(t) \/ UnregisterCallbackEnd(t) \/ ResetEnd(t)
  PROVE  AbsHandles' = AbsHandles
  <1> USE DEF Goto
  <1>1. pc[t] # "idle" /\ \A u \in Threads : pc'[u] = "idle"
    <2>1. pc[t] # "idle" /\ pc'[t] = "idle"
      BY DEF RegisterCallbackEnd, UnregisterCallbackEnd, ResetEnd, RInv,
             IInv, TypeOK
    <2>2. ctl = t
      BY <2>1 DEF RInv, IInv, LockInv
    <2>3. QED
      BY <2>1, <2>2, OthersIdle DEF RegisterCallbackEnd,
         UnregisterCallbackEnd, ResetEnd, RInv, IInv, TypeOK
  <1>2. \A u \in Threads : AbsHandles'[u] = held'[u]
    BY <1>1, HandlesHeldNext
  <1>3. ASSUME NEW u \in Threads PROVE AbsHandles'[u] = AbsHandles[u]
    <2>1. CASE RegisterCallbackEnd(t)
      BY <2>1, <1>1, <1>2, OthersIdle DEF RegisterCallbackEnd, AbsHandles,
         RInv, IInv, TypeOK, LockInv
    <2>2. CASE UnregisterCallbackEnd(t)
      BY <2>2, <1>1, <1>2, OthersIdle DEF UnregisterCallbackEnd, AbsHandles,
         RInv, IInv, TypeOK, LockInv
    <2>3. CASE ResetEnd(t)
      BY <2>3, <1>2 DEF ResetEnd, AbsHandles
    <2>4. QED
      BY <2>1, <2>2, <2>3
  <1>4. QED
    BY <1>3 DEF AbsHandles

\* The Begin steps and GetState's read and end move only their own thread
\* between labels that do not change the mapped handles.
LEMMA QuietStutter ==
  ASSUME RInv, NEW t \in Threads,
         \/ RegisterCallbackBegin(t) \/ UnregisterCallbackBegin(t)
         \/ ResetBegin(t) \/ GetStateBegin(t)
         \/ GetStateRead(t) \/ GetStateEnd(t)
  PROVE  AbsHandles' = AbsHandles
  <1> USE DEF Goto
  <1>1. \A u \in Threads : u # t => pc[u] = "idle"
    <2>1. CASE ctl = NoThread
      BY <2>1, AllIdle DEF RInv, IInv
    <2>2. CASE ctl # NoThread
      <3>1. pc[t] # "idle"
        BY <2>2 DEF RegisterCallbackBegin, UnregisterCallbackBegin, ResetBegin,
                    GetStateBegin, GetStateRead, GetStateEnd
      <3>2. ctl = t
        BY <3>1 DEF RInv, IInv, LockInv
      <3>3. QED
        BY <3>2, OthersIdle DEF RInv, IInv
    <2>3. QED
      BY <2>1, <2>2
  <1>2. /\ UNCHANGED held
        /\ pc[t] \notin {"rc_rel", "uc_rel", "rs_rel"}
        /\ pc'[t] \notin {"rc_rel", "uc_rel", "rs_rel"}
        /\ \A u \in Threads : u # t => pc'[u] = pc[u]
    BY DEF RegisterCallbackBegin, UnregisterCallbackBegin, ResetBegin,
           GetStateBegin, GetStateRead, GetStateEnd, RInv, IInv, TypeOK
  <1>3. QED
    BY <1>1, <1>2, HandlesQuiet DEF RInv, IInv

LEMMA NextRefines ==
  ASSUME RInv, [Next]_vars
  PROVE  [Registry!RegNext]_Registry!regVars
  <1>1. CASE \E t \in Threads :
               \/ RegisterThread(t) \/ Deliver(t)
               \/ HandlerInvoke(t) \/ HandlerReturn(t)
    <2>1. UNCHANGED <<pc, op, held, callbacks, interrupts>>
      BY <1>1 DEF RegisterThread, Deliver, HandlerInvoke, HandlerReturn
    <2>2. QED
      BY <2>1, HandlesUnchanged, Stutter
  <1>2. ASSUME NEW t \in Threads, HandlerAcquire(t)
        PROVE  [Registry!RegNext]_Registry!regVars
    <2>1. UNCHANGED <<pc, op, held, callbacks>> /\ interrupts' = interrupts + 1
      BY <1>2 DEF HandlerAcquire
    <2>2. AbsHandles' = AbsHandles
      BY <2>1, HandlesUnchanged
    <2>3. Registry!Tick
      BY <2>1, <2>2 DEF Registry!Tick
    <2>4. QED
      BY <2>3 DEF Registry!RegNext
  <1>3. ASSUME NEW t \in Threads,
               \/ RegisterCallbackBegin(t) \/ UnregisterCallbackBegin(t)
               \/ ResetBegin(t) \/ GetStateBegin(t)
               \/ GetStateRead(t) \/ GetStateEnd(t)
        PROVE  [Registry!RegNext]_Registry!regVars
    <2>1. UNCHANGED <<callbacks, interrupts>>
      BY <1>3 DEF RegisterCallbackBegin, UnregisterCallbackBegin, ResetBegin,
                  GetStateBegin, GetStateRead, GetStateEnd
    <2>2. QED
      BY <1>3, <2>1, QuietStutter, Stutter
  <1>4. ASSUME NEW t \in Threads,
               RegisterCallbackEnd(t) \/ UnregisterCallbackEnd(t) \/ ResetEnd(t)
        PROVE  [Registry!RegNext]_Registry!regVars
    <2>1. UNCHANGED <<callbacks, interrupts>>
      BY <1>4 DEF RegisterCallbackEnd, UnregisterCallbackEnd, ResetEnd
    <2>2. QED
      BY <1>4, <2>1, EndsStutter, Stutter
  <1>5. ASSUME NEW t \in Threads, RegisterCallbackPush(t)
        PROVE  [Registry!RegNext]_Registry!regVars
    <2>1. op[t] \in Tokens
      BY <1>5 DEF RInv, IInv, OpInv, RegisterCallbackPush, Goto
    <2>2. QED
      BY <1>5, <2>1, PushRefines DEF Registry!RegNext
  <1>6. ASSUME NEW t \in Threads, UnregisterCallbackErase(t)
        PROVE  [Registry!RegNext]_Registry!regVars
    <2>1. op[t] \in Tokens
      BY <1>6 DEF RInv, IInv, OpInv, UnregisterCallbackErase, Goto
    <2>2. QED
      BY <1>6, <2>1, EraseRefines DEF Registry!RegNext
  <1>7. ASSUME NEW t \in Threads, ResetClear(t)
        PROVE  [Registry!RegNext]_Registry!regVars
    BY <1>7, ClearRefines DEF Registry!RegNext
  <1>8. CASE UNCHANGED vars
    <2>1. UNCHANGED <<pc, op, held, callbacks, interrupts>>
      BY <1>8 DEF vars, phVars
    <2>2. QED
      BY <2>1, HandlesUnchanged, Stutter
  <1>9. QED
    BY <1>1, <1>2, <1>3, <1>4, <1>5, <1>6, <1>7, <1>8 DEF Next

(* ProfileHandler implements CallbackRegistry: for every set of threads    *)
(* and tokens, every behaviour of the two-lock protocol and the signal    *)
(* handler, seen through callbacks_, the handed-out tokens and            *)
(* interrupts_, is a behaviour of the atomic registry.                     *)
THEOREM RegistryRefinement == Spec => ImplementsRegistry
  <1>1. Spec => []RInv
    BY RInvInvariant
  <1>2. Init => Registry!RegInit
    BY InitRefines
  <1>3. RInv /\ [Next]_vars => [Registry!RegNext]_Registry!regVars
    BY NextRefines
  <1>4. QED
    BY <1>1, <1>2, <1>3, PTL DEF Spec, ImplementsRegistry, Registry!RegSpec


(* Between operations (control_lock_ free) callback_count_ is the length   *)
(* of callbacks_, no token is listed twice, and the tokens listed are      *)
(* exactly those RegisterCallback handed out and UnregisterCallback has    *)
(* not yet taken back.  It follows from the registry's own invariant,     *)
(* carried over by the refinement: with every thread idle the mapped      *)
(* handles are the tokens the threads hold.                               *)
THEOREM RegistryIntegrityInvariant == Spec => []RegistryIntegrity
  <1>1. Spec => []Registry!RegInv
    BY RegistryRefinement, Registry!RegInvariant, PTL DEF ImplementsRegistry
  <1>2. IInv /\ Registry!RegInv => RegistryIntegrity
    <2> SUFFICES ASSUME IInv, Registry!RegInv, ctl = NoThread
                 PROVE  /\ callback_count = Len(callbacks)
                        /\ IsInjective(callbacks)
                        /\ Range(callbacks) = UNION {held[u] : u \in Threads}
      BY DEF RegistryIntegrity
    <2>1. \A u \in Threads : pc[u] = "idle"
      BY AllIdle DEF IInv
    <2>2. \A u \in Threads : AbsHandles[u] = held[u]
      BY <2>1, HandlesHeld
    <2>3. callback_count = Len(callbacks)
      BY DEF IInv, CountInv
    <2>4. IsInjective(callbacks)
          /\ Range(callbacks) = UNION {AbsHandles[u] : u \in Threads}
      BY DEF Registry!RegInv, Registry!IsInjective, IsInjective,
             Registry!Range, Range
    <2>5. QED
      BY <2>2, <2>3, <2>4
  <1>3. QED
    BY <1>1, <1>2, IInvInvariant, PTL

=============================================================================
