--------------------------- MODULE DispatchProofs ---------------------------
(***************************************************************************)
(* Proofs that the signal handler walks callbacks_ as it is: what a        *)
(* running handler has called, followed by the rest of the list from its  *)
(* iterator, is the whole list.  The argument: signal_lock_ keeps every   *)
(* change of callbacks_ out while a handler runs, so the handler stands at *)
(* a fixed position of an unchanging list (HandlerPos); and callbacks_     *)
(* never lists a token twice (the registry invariant carried over by the  *)
(* refinement), so the position of its iterator's token is that position. *)
(***************************************************************************)
EXTENDS RegistryRefinementProofs

(* The strengthening of DispatchConsistent: a running handler stands at a *)
(* position i of callbacks_; it has called the first i - 1 callbacks and *)
(* its iterator points at the i-th, or at end() past the last one.  It    *)
(* holds because signal_lock_ keeps every change of callbacks_ out while  *)
(* a handler runs.                                                        *)
HandlerPos ==
  \A t \in Threads : hstate[t] = "run" =>
    \E i \in 1..Len(callbacks) + 1 :
      /\ invoked[t] = SubSeq(callbacks, 1, i - 1)
      /\ i <= Len(callbacks) => hit[t] = callbacks[i]
      /\ i = Len(callbacks) + 1 => hit[t] = NoToken

\* callbacks_ never lists a token twice, in any state (not only between
\* operations): the registry's invariant seen through the refinement.
LEMMA CallbacksInjective == Spec => []IsInjective(callbacks)
  <1>1. Registry!RegInv => IsInjective(callbacks)
    BY DEF Registry!RegInv, Registry!IsInjective, IsInjective
  <1>2. QED
    BY <1>1, RegistryRefinement, Registry!RegInvariant, PTL
       DEF ImplementsRegistry

\* In a list without repeats, IndexOf finds a token at its own position.
LEMMA IndexOfInjective ==
  ASSUME callbacks \in Seq(Tokens), IsInjective(callbacks),
         NEW i \in 1..Len(callbacks)
  PROVE  IndexOf(callbacks[i]) = i
  BY DEF IndexOf, IsInjective

\* ++it from the i-th node of a list without repeats.
LEMMA SuccAt ==
  ASSUME callbacks \in Seq(Tokens), IsInjective(callbacks),
         NEW i \in 1..Len(callbacks)
  PROVE  /\ i < Len(callbacks) => Succ(callbacks[i]) = callbacks[i + 1]
         /\ i = Len(callbacks) => Succ(callbacks[i]) = NoToken
  <1>1. IndexOf(callbacks[i]) = i
    BY IndexOfInjective
  <1>2. callbacks[i] \in Range(callbacks)
    BY DEF Range
  <1>3. QED
    BY <1>1, <1>2 DEF Succ

-----------------------------------------------------------------------------
(* Each action preserves HandlerPos.                                      *)

HPos(t, i) ==
  /\ invoked[t] = SubSeq(callbacks, 1, i - 1)
  /\ i <= Len(callbacks) => hit[t] = callbacks[i]
  /\ i = Len(callbacks) + 1 => hit[t] = NoToken

LEMMA HandlerPosDef ==
  HandlerPos <=> \A t \in Threads : hstate[t] = "run" =>
                   \E i \in 1..Len(callbacks) + 1 : HPos(t, i)
  BY DEF HandlerPos, HPos

\* A step that changes neither the list nor any handler's progress, and
\* starts no handler running.
LEMMA HandlerPosQuiet ==
  ASSUME HandlerPos, UNCHANGED <<callbacks, hit, invoked>>,
         \A u \in Threads : hstate'[u] = "run" => hstate[u] = "run"
  PROVE  HandlerPos'
  BY DEF HandlerPos

\* A step that takes signal_lock_ in ordinary code: no handler runs then.
LEMMA HandlerPosLocked ==
  ASSUME IInv, NEW t \in Threads, AcquireSignalLock(t), UNCHANGED hstate
  PROVE  HandlerPos'
  <1>1. \A u \in Threads : hstate[u] # "run"
    BY DEF AcquireSignalLock, IInv, SignalLockInv
  <1>2. QED
    BY <1>1 DEF HandlerPos

LEMMA HandlerAcquirePos ==
  ASSUME IInv, HandlerPos, NEW t \in Threads, HandlerAcquire(t)
  PROVE  HandlerPos'
  <1> USE DEF HandlerAcquire
  <1>1. \A u \in Threads : hstate[u] # "run"
    BY DEF IInv, SignalLockInv
  <1>2. callbacks \in Seq(Tokens) /\ hit \in [Threads -> Tokens \cup {NoToken}]
          /\ invoked \in [Threads -> Seq(Tokens)] /\ hstate \in [Threads -> HStates]
    BY DEF IInv, TypeOK
  <1>3. \A u \in Threads : hstate'[u] = "run" => u = t
    BY <1>1, <1>2
  <1>4. HPos(t, 1)'
    <2>1. invoked'[t] = SubSeq(callbacks', 1, 0)
      BY <1>2
    <2>2. CASE callbacks = <<>>
      BY <1>2, <2>1, <2>2 DEF HPos
    <2>3. CASE callbacks # <<>>
      <3>1. 1 <= Len(callbacks)
        BY <1>2, <2>3
      <3>2. hit'[t] = callbacks'[1]
        BY <1>2, <2>3
      <3>3. QED
        BY <2>1, <3>1, <3>2 DEF HPos
    <2>4. QED
      BY <2>2, <2>3
  <1>5. 1 \in 1..Len(callbacks') + 1
    BY <1>2
  <1>6. QED
    BY <1>3, <1>4, <1>5 DEF HandlerPos, HPos

LEMMA HandlerInvokePos ==
  ASSUME IInv, IsInjective(callbacks), HandlerPos,
         NEW t \in Threads, HandlerInvoke(t)
  PROVE  HandlerPos'
  <1> USE DEF HandlerInvoke
  <1>1. callbacks \in Seq(Tokens) /\ hit \in [Threads -> Tokens \cup {NoToken}]
          /\ invoked \in [Threads -> Seq(Tokens)]
    BY DEF IInv, TypeOK
  <1>2. PICK i \in 1..Len(callbacks) + 1 : HPos(t, i)
    BY HandlerPosDef
  <1>3. i \in 1..Len(callbacks) /\ hit[t] = callbacks[i]
    BY <1>2, NoTokenAssumption DEF HPos
  <1>4. invoked'[t] = SubSeq(callbacks, 1, i)
    <2>1. invoked'[t] = Append(SubSeq(callbacks, 1, i - 1), callbacks[i])
      BY <1>1, <1>2, <1>3 DEF HPos
    <2>2. SubSeq(callbacks, 1, i - 1) \in Seq(Tokens)
      BY <1>1, <1>3, SubSeqProperties
    <2>3. Append(SubSeq(callbacks, 1, i - 1), callbacks[i])
            = SubSeq(callbacks, 1, i - 1) \o << callbacks[i] >>
      BY <1>1, <1>3, <2>2, AppendIsConcat
    <2>4. SubSeq(callbacks, 1, i)
            = SubSeq(callbacks, 1, i - 1) \o << callbacks[i] >>
      BY <1>1, <1>3, SubSeqRecursiveSecond
    <2>5. QED
      BY <2>1, <2>3, <2>4
  <1>5. HPos(t, i + 1)'
    <2>1. hit'[t] = Succ(callbacks[i])
      BY <1>1, <1>3
    <2>2. QED
      BY <1>1, <1>3, <1>4, <2>1, SuccAt DEF HPos
  <1>6. ASSUME NEW u \in Threads, u # t, hstate'[u] = "run"
        PROVE  \E j \in 1..Len(callbacks') + 1 : HPos(u, j)'
    <2>1. PICK j \in 1..Len(callbacks) + 1 : HPos(u, j)
      BY <1>6, HandlerPosDef
    <2>2. QED
      BY <1>1, <1>6, <2>1 DEF HPos
  <1>7. i + 1 \in 1..Len(callbacks') + 1
    BY <1>1, <1>3
  <1>8. \E j \in 1..Len(callbacks') + 1 : HPos(t, j)'
    BY <1>5, <1>7
  <1>9. QED
    BY <1>6, <1>8 DEF HandlerPos, HPos

LEMMA NextHandlerPos ==
  ASSUME IInv, IsInjective(callbacks), HandlerPos, [Next]_vars
  PROVE  HandlerPos'
  <1>1. ASSUME NEW t \in Threads,
               \/ RegisterThread(t) \/ RegisterCallbackBegin(t)
               \/ RegisterCallbackEnd(t) \/ UnregisterCallbackBegin(t)
               \/ UnregisterCallbackEnd(t) \/ ResetBegin(t) \/ ResetEnd(t)
               \/ GetStateBegin(t) \/ GetStateRead(t) \/ GetStateEnd(t)
        PROVE  HandlerPos'
    <2>1. UNCHANGED <<callbacks, hit, invoked, hstate>>
      BY <1>1 DEF RegisterThread, RegisterCallbackBegin, RegisterCallbackEnd,
                  UnregisterCallbackBegin, UnregisterCallbackEnd, ResetBegin,
                  ResetEnd, GetStateBegin, GetStateRead, GetStateEnd
    <2>2. QED
      BY <2>1, HandlerPosQuiet
  <1>2. ASSUME NEW t \in Threads,
               RegisterCallbackPush(t) \/ UnregisterCallbackErase(t)
                 \/ ResetClear(t)
        PROVE  HandlerPos'
    BY <1>2, HandlerPosLocked
       DEF RegisterCallbackPush, UnregisterCallbackErase, ResetClear
  <1>3. ASSUME NEW t \in Threads, Deliver(t) \/ HandlerReturn(t)
        PROVE  HandlerPos'
    <2>1. hstate \in [Threads -> HStates]
      BY DEF IInv, TypeOK
    <2>2. QED
      BY <1>3, <2>1, HandlerPosQuiet DEF Deliver, HandlerReturn
  <1>4. CASE UNCHANGED vars
    BY <1>4, HandlerPosQuiet DEF vars, phVars
  <1>5. QED
    BY <1>1, <1>2, <1>3, <1>4, HandlerAcquirePos, HandlerInvokePos DEF Next

THEOREM HandlerPosInvariant == Spec => []HandlerPos
  <1>1. Init => HandlerPos
    BY DEF Init, HandlerPos
  <1>2. QED
    BY <1>1, NextHandlerPos, IInvInvariant, CallbacksInjective, PTL DEF Spec

-----------------------------------------------------------------------------
(* From the position to the list.                                         *)

\* A handler at position i has called the first i - 1 callbacks, and From
\* of its iterator is the rest of the list.
LEMMA PosDispatch ==
  ASSUME TypeOK, IsInjective(callbacks), NEW t \in Threads,
         NEW i \in 1..Len(callbacks) + 1, HPos(t, i)
  PROVE  invoked[t] \o From(hit[t]) = callbacks
  <1>1. callbacks \in Seq(Tokens)
    BY DEF TypeOK
  <1>2. CASE i <= Len(callbacks)
    <2>1. hit[t] = callbacks[i] /\ hit[t] # NoToken
          /\ hit[t] \in Range(callbacks)
      BY <1>1, <1>2, NoTokenAssumption DEF HPos, Range
    <2>2. IndexOf(hit[t]) = i
      BY <1>1, <1>2, <2>1, IndexOfInjective
    <2>3. From(hit[t]) = SubSeq(callbacks, i, Len(callbacks))
      BY <2>1, <2>2 DEF From
    <2>4. SubSeq(callbacks, 1, i - 1) \o SubSeq(callbacks, i, Len(callbacks))
            = SubSeq(callbacks, 1, Len(callbacks))
      <3>1. /\ 1 \in 1..Len(callbacks) + 1
            /\ i - 1 \in 1 - 1..Len(callbacks)
            /\ Len(callbacks) \in i - 1..Len(callbacks)
            /\ (i - 1) + 1 = i
        BY <1>1, <1>2
      <3>2. SubSeq(callbacks, 1, i - 1) \o SubSeq(callbacks, (i - 1) + 1, Len(callbacks))
              = SubSeq(callbacks, 1, Len(callbacks))
        BY <1>1, <3>1, ConcatAdjacentSubSeq
      <3>3. QED
        BY <3>1, <3>2
    <2>5. QED
      BY <1>1, <2>3, <2>4, SubSeqFull DEF HPos
  <1>3. CASE i = Len(callbacks) + 1
    <2>1. From(hit[t]) = <<>>
      BY <1>3 DEF HPos, From
    <2>2. invoked[t] = callbacks
      BY <1>1, <1>3, SubSeqFull DEF HPos
    <2>3. QED
      BY <1>1, <2>1, <2>2, ConcatEmptySeq
  <1>4. i <= Len(callbacks) \/ i = Len(callbacks) + 1
    BY <1>1
  <1>5. QED
    BY <1>2, <1>3, <1>4, Zenon

(* A running signal handler walks callbacks_ as it is: the callbacks it   *)
(* has called, followed by the rest of the list from its iterator, are    *)
(* exactly callbacks_.  No callback is skipped, called twice, or called    *)
(* through a token RegisterCallback, UnregisterCallback or Reset has      *)
(* already taken out, for any number of threads and tokens.               *)
THEOREM DispatchConsistentInvariant == Spec => []DispatchConsistent
  <1>1. TypeOK /\ IsInjective(callbacks) /\ HandlerPos => DispatchConsistent
    BY PosDispatch, HandlerPosDef DEF DispatchConsistent
  <1>2. QED
    BY <1>1, TypeCorrect, CallbacksInjective, HandlerPosInvariant, PTL

=============================================================================
