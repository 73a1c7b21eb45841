--------------------------- MODULE ProfileHandler ---------------------------
(***************************************************************************)
(* ProfileHandler of src/profile-handler.cc: the callback registry, the   *)
(* two-lock mutation protocol and the SIGPROF/SIGALRM dispatcher, composed *)
(* with the timer event source (TimerEventSource).                         *)
(*                                                                         *)
(* Every thread runs one public operation at a time (pc).  A signal may   *)
(* preempt any thread whose timer is armed while the handler is installed; *)
(* the handler then runs on that thread (hstate) until it returns, and the *)
(* thread's own operation cannot move meanwhile.                          *)
(*                                                                         *)
(* Locks: control_lock_ (ctl) is held by a thread or by nobody;            *)
(* signal_lock_ (sl) is held by a thread in one of two contexts, the      *)
(* ordinary code ("mutator") or the signal handler running on it          *)
(* ("handler"), or by nobody (<<>>).  The steps of an operation that      *)
(* touch only state guarded by control_lock_ are merged into one step;    *)
(* the window in which signal_lock_ is held is a state of its own, since  *)
(* that is where a signal on the same thread would spin forever.          *)
(***************************************************************************)
EXTENDS TimerEventSource, Integers, Sequences, SequencesExt

CONSTANTS
  Tokens,         \* addresses new ProfileHandlerToken may return
  NoToken,        \* the end() iterator / no token
  NoThread,       \* nobody holds control_lock_
  MaxInterrupts   \* bound on the signals delivered in a run

ASSUME NoTokenAssumption == NoToken \notin Tokens
ASSUME NoThreadAssumption == NoThread \notin Threads
ASSUME MaxInterruptsAssumption == MaxInterrupts \in Nat

VARIABLES
  pc,             \* pc[t]: where thread t is in its current operation
  op,             \* op[t]: the token the operation of t works on
  ctl,            \* holder of control_lock_, or NoThread
  sl,             \* <<t, ctx>> holding signal_lock_, or <<>>
  enabled,        \* the signal disposition is SignalHandler (not SIG_IGN)
  callbacks,      \* callbacks_: the registry, a list of tokens
  callback_count, \* callback_count_
  interrupts,     \* interrupts_
  hstate,         \* hstate[t]: the signal handler on thread t
  hit,            \* hit[t]: the handler's list iterator on thread t
  invoked,        \* invoked[t]: callbacks the handler on t has called so far
  held,           \* held[t]: tokens returned to t and not yet unregistered
  oneSetBy        \* the thread whose RegisterThread left TIMERS_ONE_SET

phVars == <<pc, op, ctl, sl, enabled, callbacks, callback_count, interrupts,
            hstate, hit, invoked, held, oneSetBy>>
vars == <<phVars, esVars>>

Mutator == "mutator"
Handler == "handler"

PCs == {"idle", "rc_sl", "rc_rel", "uc_sl", "uc_rel",
        "rs_sl", "rs_rel", "gs_sl", "gs_rel"}
HStates == {"none", "spin", "run"}

TypeOK ==
  /\ ESTypeOK
  /\ pc \in [Threads -> PCs]
  /\ op \in [Threads -> Tokens \cup {NoToken}]
  /\ ctl \in Threads \cup {NoThread}
  /\ sl \in {<<>>} \cup (Threads \X {Mutator, Handler})
  /\ enabled \in BOOLEAN
  /\ callbacks \in Seq(Tokens)
  /\ callback_count \in Nat
  /\ interrupts \in Nat
  /\ hstate \in [Threads -> HStates]
  /\ hit \in [Threads -> Tokens \cup {NoToken}]
  /\ invoked \in [Threads -> Seq(Tokens)]
  /\ held \in [Threads -> SUBSET Tokens]
  /\ oneSetBy \in Threads \cup {NoThread}

Init ==
  /\ ESInit
  /\ pc = [u \in Threads |-> "idle"]
  /\ op = [u \in Threads |-> NoToken]
  /\ ctl = NoThread
  /\ sl = <<>>
  /\ enabled = FALSE      \* the constructor's DisableHandler()
  /\ callbacks = <<>>
  /\ callback_count = 0
  /\ interrupts = 0
  /\ hstate = [u \in Threads |-> "none"]
  /\ hit = [u \in Threads |-> NoToken]
  /\ invoked = [u \in Threads |-> <<>>]
  /\ held = [u \in Threads |-> {}]
  /\ oneSetBy = NoThread

-----------------------------------------------------------------------------
(* Helpers.                                                                *)

\* Thread t runs its own code: no signal handler is running on it.
Running(t) == hstate[t] = "none"

\* pc[t] moves from one label to the next.
Goto(t, from, to) ==
  /\ pc[t] = from
  /\ pc' = [pc EXCEPT ![t] = to]

\* SpinLockHolder sl(&signal_lock_) in ordinary code, and its release.
AcquireSignalLock(t) == sl = <<>> /\ sl' = <<t, Mutator>>
ReleaseSignalLock(t) == sl' = <<>>

\* The position of token k in callbacks_ (the loop of UnregisterCallback).
IndexOf(k) == CHOOSE i \in 1..Len(callbacks) : callbacks[i] = k

\* ++it on a list iterator: the node after k, or end().
Succ(k) ==
  IF k \in Range(callbacks) /\ IndexOf(k) < Len(callbacks)
    THEN callbacks[IndexOf(k) + 1] ELSE NoToken

\* Tokens that new may hand out: not live and not in a pending registration.
FreeTokens == Tokens \ (Range(callbacks) \cup Range(op))

-----------------------------------------------------------------------------
(* ProfileHandler::RegisterThread: control_lock_ around the event        *)
(* source's RegisterThread.  The detection comment requires the two calls *)
(* of a detection round to come from different threads; callers respect  *)
(* that (the conjunct on oneSetBy).                                       *)
RegisterThread(t) ==
  /\ pc[t] = "idle" /\ Running(t)
  /\ ctl = NoThread
  /\ timer_sharing = TIMERS_ONE_SET => oneSetBy # t
  /\ ESRegisterThread(t, callback_count)
  /\ oneSetBy' = IF timer_sharing = TIMERS_UNTOUCHED THEN t ELSE oneSetBy
  /\ UNCHANGED <<pc, op, ctl, sl, enabled, callbacks, callback_count,
                 interrupts, hstate, hit, invoked, held>>

(* ProfileHandler::RegisterCallback: new token; control_lock_;           *)
(* DisableHandler().                                                      *)
\* Fault variant: RegisterCallback without its DisableHandler().
RegisterCallbackBeginNoDisable(t) ==
  /\ Running(t)
  /\ ctl = NoThread
  /\ Goto(t, "idle", "rc_sl")
  /\ \E k \in FreeTokens : op' = [op EXCEPT ![t] = k]
  /\ ctl' = t
  /\ UNCHANGED <<sl, enabled, callbacks, callback_count, interrupts, hstate,
                 hit, invoked, held, oneSetBy, esVars>>

RegisterCallbackBegin(t) ==
  /\ Running(t)
  /\ ctl = NoThread
  /\ Goto(t, "idle", "rc_sl")
  /\ \E k \in FreeTokens : op' = [op EXCEPT ![t] = k]
  /\ ctl' = t
  /\ enabled' = FALSE
  /\ UNCHANGED <<sl, callbacks, callback_count, interrupts, hstate, hit,
                 invoked, held, oneSetBy, esVars>>

\* signal_lock_; callbacks_.push_back(token).
RegisterCallbackPush(t) ==
  /\ Running(t)
  /\ Goto(t, "rc_sl", "rc_rel")
  /\ AcquireSignalLock(t)
  /\ callbacks' = Append(callbacks, op[t])
  /\ UNCHANGED <<op, ctl, enabled, callback_count, interrupts, hstate, hit,
                 invoked, held, oneSetBy, esVars>>

\* Release signal_lock_; ++callback_count_; RegisteredCallback;
\* EnableHandler(); release control_lock_; return the token.
RegisterCallbackEnd(t) ==
  /\ Running(t)
  /\ Goto(t, "rc_rel", "idle")
  /\ ReleaseSignalLock(t)
  /\ callback_count' = callback_count + 1
  /\ ESRegisteredCallback(t, callback_count + 1)
  /\ enabled' = TRUE
  /\ ctl' = NoThread
  /\ held' = [held EXCEPT ![t] = @ \cup {op[t]}]
  /\ op' = [op EXCEPT ![t] = NoToken]
  /\ UNCHANGED <<callbacks, interrupts, hstate, hit, invoked, oneSetBy>>

(* ProfileHandler::UnregisterCallback(token): control_lock_; find the    *)
(* token in callbacks_; DisableHandler().  Callers pass tokens they hold, *)
(* which are always found: the "Invalid token" FATAL is not reached.     *)
UnregisterCallbackBegin(t) ==
  /\ Running(t)
  /\ ctl = NoThread
  /\ Goto(t, "idle", "uc_sl")
  /\ \E k \in held[t] :
       /\ k \in Range(callbacks)
       /\ op' = [op EXCEPT ![t] = k]
  /\ ctl' = t
  /\ enabled' = FALSE
  /\ UNCHANGED <<sl, callbacks, callback_count, interrupts, hstate, hit,
                 invoked, held, oneSetBy, esVars>>

\* signal_lock_; delete *it; callbacks_.erase(it).
\* Fault variant: the front of the list erased instead of the token found.
UnregisterCallbackEraseFront(t) ==
  /\ Running(t)
  /\ Goto(t, "uc_sl", "uc_rel")
  /\ AcquireSignalLock(t)
  /\ callbacks' = Tail(callbacks)
  /\ UNCHANGED <<op, ctl, enabled, callback_count, interrupts, hstate, hit,
                 invoked, held, oneSetBy, esVars>>

\* Fault variant: the erase done without taking signal_lock_.
UnregisterCallbackEraseNoLock(t) ==
  /\ Running(t)
  /\ Goto(t, "uc_sl", "uc_rel")
  /\ callbacks' = RemoveAt(callbacks, IndexOf(op[t]))
  /\ UNCHANGED <<op, ctl, sl, enabled, callback_count, interrupts, hstate, hit,
                 invoked, held, oneSetBy, esVars>>

UnregisterCallbackErase(t) ==
  /\ Running(t)
  /\ Goto(t, "uc_sl", "uc_rel")
  /\ AcquireSignalLock(t)
  /\ callbacks' = RemoveAt(callbacks, IndexOf(op[t]))
  /\ UNCHANGED <<op, ctl, enabled, callback_count, interrupts, hstate, hit,
                 invoked, held, oneSetBy, esVars>>

\* Release signal_lock_; --callback_count_; EnableHandler() if callbacks
\* remain; UnregisteredCallback; release control_lock_.
\* Fault variant: the count recomputed from the list after the erase and
\* decremented again.
UnregisterCallbackEndRecount(t) ==
  /\ Running(t)
  /\ Goto(t, "uc_rel", "idle")
  /\ ReleaseSignalLock(t)
  /\ callback_count' = Len(callbacks) - 1
  /\ enabled' = (Len(callbacks) - 1 > 0 \/ enabled)
  /\ ESUnregisteredCallback(t, Len(callbacks) - 1)
  /\ ctl' = NoThread
  /\ held' = [held EXCEPT ![t] = @ \ {op[t]}]
  /\ op' = [op EXCEPT ![t] = NoToken]
  /\ UNCHANGED <<callbacks, interrupts, hstate, hit, invoked, oneSetBy>>

UnregisterCallbackEnd(t) ==
  /\ Running(t)
  /\ Goto(t, "uc_rel", "idle")
  /\ ReleaseSignalLock(t)
  /\ callback_count' = callback_count - 1
  /\ enabled' = (callback_count - 1 > 0 \/ enabled)
  /\ ESUnregisteredCallback(t, callback_count - 1)
  /\ ctl' = NoThread
  /\ held' = [held EXCEPT ![t] = @ \ {op[t]}]
  /\ op' = [op EXCEPT ![t] = NoToken]
  /\ UNCHANGED <<callbacks, interrupts, hstate, hit, invoked, oneSetBy>>

(* ProfileHandler::Reset: control_lock_; DisableHandler().               *)
ResetBegin(t) ==
  /\ Running(t)
  /\ ctl = NoThread
  /\ Goto(t, "idle", "rs_sl")
  /\ ctl' = t
  /\ enabled' = FALSE
  /\ UNCHANGED <<op, sl, callbacks, callback_count, interrupts, hstate, hit,
                 invoked, held, oneSetBy, esVars>>

\* signal_lock_; delete and erase every token.
ResetClear(t) ==
  /\ Running(t)
  /\ Goto(t, "rs_sl", "rs_rel")
  /\ AcquireSignalLock(t)
  /\ callbacks' = <<>>
  /\ UNCHANGED <<op, ctl, enabled, callback_count, interrupts, hstate, hit,
                 invoked, held, oneSetBy, esVars>>

\* Release signal_lock_; callback_count_ = 0; event_source_->Reset();
\* release control_lock_.  The tokens are destroyed, so their holders
\* drop them.
\* Fault variant: Reset without callback_count_ = 0.
ResetEndKeepCount(t) ==
  /\ Running(t)
  /\ Goto(t, "rs_rel", "idle")
  /\ ReleaseSignalLock(t)
  /\ ESReset(t)
  /\ ctl' = NoThread
  /\ held' = [u \in Threads |-> {}]
  /\ UNCHANGED <<op, enabled, callbacks, callback_count, interrupts, hstate,
                 hit, invoked, oneSetBy>>

ResetEnd(t) ==
  /\ Running(t)
  /\ Goto(t, "rs_rel", "idle")
  /\ ReleaseSignalLock(t)
  /\ callback_count' = 0
  /\ ESReset(t)
  /\ ctl' = NoThread
  /\ held' = [u \in Threads |-> {}]
  /\ UNCHANGED <<op, enabled, callbacks, interrupts, hstate, hit, invoked,
                 oneSetBy>>

(* ProfileHandler::GetState: control_lock_; DisableHandler().            *)
GetStateBegin(t) ==
  /\ Running(t)
  /\ ctl = NoThread
  /\ Goto(t, "idle", "gs_sl")
  /\ ctl' = t
  /\ enabled' = FALSE
  /\ UNCHANGED <<op, sl, callbacks, callback_count, interrupts, hstate, hit,
                 invoked, held, oneSetBy, esVars>>

\* signal_lock_; state->interrupts = interrupts_.
GetStateRead(t) ==
  /\ Running(t)
  /\ Goto(t, "gs_sl", "gs_rel")
  /\ AcquireSignalLock(t)
  /\ UNCHANGED <<op, ctl, enabled, callbacks, callback_count, interrupts,
                 hstate, hit, invoked, held, oneSetBy, esVars>>

\* Release signal_lock_; EnableHandler() if callbacks remain; release
\* control_lock_.
\* Fault variant: GetState re-enabling the handler unconditionally.
GetStateEndAlwaysEnable(t) ==
  /\ Running(t)
  /\ Goto(t, "gs_rel", "idle")
  /\ ReleaseSignalLock(t)
  /\ enabled' = TRUE
  /\ ctl' = NoThread
  /\ UNCHANGED <<op, callbacks, callback_count, interrupts, hstate, hit,
                 invoked, held, oneSetBy, esVars>>

GetStateEnd(t) ==
  /\ Running(t)
  /\ Goto(t, "gs_rel", "idle")
  /\ ReleaseSignalLock(t)
  /\ enabled' = (callback_count > 0 \/ enabled)
  /\ ctl' = NoThread
  /\ UNCHANGED <<op, callbacks, callback_count, interrupts, hstate, hit,
                 invoked, held, oneSetBy, esVars>>

-----------------------------------------------------------------------------
(* ProfileHandler::SignalHandler.  The kernel delivers the timer's signal *)
(* to thread t when its timer is armed and the disposition is the handler;*)
(* the signal stays blocked on t while its handler runs.                  *)
Deliver(t) ==
  /\ enabled
  /\ IsTimerRunning(t)
  /\ hstate[t] = "none"
  /\ interrupts + Cardinality({u \in Threads : hstate[u] # "none"})
       < MaxInterrupts
  /\ hstate' = [hstate EXCEPT ![t] = "spin"]
  /\ UNCHANGED <<pc, op, ctl, sl, enabled, callbacks, callback_count,
                 interrupts, hit, invoked, held, oneSetBy, esVars>>

\* SpinLockHolder sl(&signal_lock_); ticks = GetTicksSinceLastCall() (1
\* for timers); ++interrupts_; it = callbacks_.begin().
HandlerAcquire(t) ==
  /\ hstate[t] = "spin"
  /\ sl = <<>>
  /\ sl' = <<t, Handler>>
  /\ interrupts' = interrupts + 1
  /\ hit' = [hit EXCEPT ![t] = IF callbacks = <<>> THEN NoToken
                                                  ELSE callbacks[1]]
  /\ invoked' = [invoked EXCEPT ![t] = <<>>]
  /\ hstate' = [hstate EXCEPT ![t] = "run"]
  /\ UNCHANGED <<pc, op, ctl, enabled, callbacks, callback_count, held,
                 oneSetBy, esVars>>

\* (*it)->callback(...); ++it.
HandlerInvoke(t) ==
  /\ hstate[t] = "run"
  /\ hit[t] # NoToken
  /\ invoked' = [invoked EXCEPT ![t] = Append(@, hit[t])]
  /\ hit' = [hit EXCEPT ![t] = Succ(hit[t])]
  /\ UNCHANGED <<pc, op, ctl, sl, enabled, callbacks, callback_count,
                 interrupts, hstate, held, oneSetBy, esVars>>

\* Fault variant: the handler returns without releasing signal_lock_.
HandlerReturnKeepLock(t) ==
  /\ hstate[t] = "run"
  /\ hit[t] = NoToken
  /\ hstate' = [hstate EXCEPT ![t] = "none"]
  /\ UNCHANGED <<pc, op, ctl, sl, enabled, callbacks, callback_count,
                 interrupts, hit, invoked, held, oneSetBy, esVars>>

\* it == end(): release signal_lock_, return from the handler.
HandlerReturn(t) ==
  /\ hstate[t] = "run"
  /\ hit[t] = NoToken
  /\ sl' = <<>>
  /\ hstate' = [hstate EXCEPT ![t] = "none"]
  /\ UNCHANGED <<pc, op, ctl, enabled, callbacks, callback_count,
                 interrupts, hit, invoked, held, oneSetBy, esVars>>

-----------------------------------------------------------------------------
Next ==
  \E t \in Threads :
    \/ RegisterThread(t)
    \/ RegisterCallbackBegin(t) \/ RegisterCallbackPush(t)
    \/ RegisterCallbackEnd(t)
    \/ UnregisterCallbackBegin(t) \/ UnregisterCallbackErase(t)
    \/ UnregisterCallbackEnd(t)
    \/ ResetBegin(t) \/ ResetClear(t) \/ ResetEnd(t)
    \/ GetStateBegin(t) \/ GetStateRead(t) \/ GetStateEnd(t)
    \/ Deliver(t) \/ HandlerAcquire(t) \/ HandlerInvoke(t)
    \/ HandlerReturn(t)

Spec == Init /\ [][Next]_vars

(***************************************************************************)
(* Fairness.  A thread keeps running the code it is in: the steps of an   *)
(* operation after its Begin, and the steps of a running handler, are     *)
(* weakly fair (nothing but the thread itself can disable them once       *)
(* DisableHandler() has stopped new deliveries).  A handler spinning in   *)
(* SpinLockHolder retries without end, and the lock is free between any   *)
(* two holders, so its acquisition is strongly fair.  Starting an         *)
(* operation, registering a thread and delivering a signal are up to the *)
(* clients and the kernel and carry no fairness.                         *)
(***************************************************************************)
Fairness ==
  \A t \in Threads :
    /\ WF_vars(RegisterCallbackPush(t)) /\ WF_vars(RegisterCallbackEnd(t))
    /\ WF_vars(UnregisterCallbackErase(t)) /\ WF_vars(UnregisterCallbackEnd(t))
    /\ WF_vars(ResetClear(t)) /\ WF_vars(ResetEnd(t))
    /\ WF_vars(GetStateRead(t)) /\ WF_vars(GetStateEnd(t))
    /\ SF_vars(HandlerAcquire(t))
    /\ WF_vars(HandlerInvoke(t)) /\ WF_vars(HandlerReturn(t))

FairSpec == Spec /\ Fairness

-----------------------------------------------------------------------------
(* Properties.                                                             *)

\* The suffix of callbacks_ from node k on (end() gives <<>>); a node no
\* longer in the list gives <<k>>, which no prefix of callbacks_ completes.
From(k) ==
  IF k = NoToken THEN <<>>
  ELSE IF k \in Range(callbacks)
         THEN SubSeq(callbacks, IndexOf(k), Len(callbacks))
         ELSE <<k>>

(* A signal handler never spins on signal_lock_ while the code it         *)
(* interrupted on the same thread holds it: the DisableHandler() before   *)
(* every signal_lock_ acquisition in ordinary code rules that out.        *)
NoSelfDeadlock ==
  \A t \in Threads : hstate[t] = "spin" => sl # <<t, Mutator>>

(* A handler walking callbacks_ walks the list as it is: what it has     *)
(* called so far followed by the rest of the list from its iterator is   *)
(* exactly callbacks_, in registration order.  So no callback is skipped, *)
(* called twice, or called through a token already deleted.              *)
DispatchConsistent ==
  \A t \in Threads : hstate[t] = "run" => invoked[t] \o From(hit[t]) = callbacks

(* Between operations the handler is installed exactly when callbacks    *)
(* are registered (RegisterCallback enables it, UnregisterCallback and   *)
(* GetState re-enable it only while callbacks remain, Reset leaves it    *)
(* off).                                                                  *)
HandlerEnabledIffCallbacks ==
  ctl = NoThread => (enabled <=> callback_count > 0)

(* Between operations callback_count_ is the length of callbacks_, every *)
(* token is in the list once, and the live tokens are exactly the ones   *)
(* the callers hold.                                                      *)
RegistryIntegrity ==
  ctl = NoThread =>
    /\ callback_count = Len(callbacks)
    /\ IsInjective(callbacks)
    /\ Range(callbacks) = UNION {held[u] : u \in Threads}

(* Once timers are known to be shared, between operations the shared     *)
(* timer is armed exactly when callbacks are registered.  It needs a      *)
(* frequency whose interval setitimer accepts (see IntervalAccepted).     *)
SharedTimerIffCallbacks ==
  (ctl = NoThread /\ timer_sharing = TIMERS_SHARED) =>
    \A u \in Threads : timer[u] <=> callback_count > 0

(* Detection finds what the OS does: TIMERS_SHARED only when timers are   *)
(* shared, TIMERS_SEPARATE only when they are per thread.                 *)
DetectionSound ==
  /\ timer_sharing = TIMERS_SHARED => OSShared
  /\ timer_sharing = TIMERS_SEPARATE => ~OSShared

(* Every signal delivered to a thread is eventually handled to the end:  *)
(* the handler gets signal_lock_ although mutators and other handlers     *)
(* take it meanwhile, its walk of callbacks_ reaches end(), and it        *)
(* returns.                                                                *)
HandlerCompletes ==
  \A t \in Threads : hstate[t] # "none" ~> hstate[t] = "none"

(* Every operation a thread starts finishes: it gets signal_lock_ from    *)
(* the handlers that were already delivered when it disabled the handler. *)
OperationCompletes ==
  \A t \in Threads : pc[t] # "idle" ~> pc[t] = "idle"

-----------------------------------------------------------------------------
(***************************************************************************)
(* Refinement of CallbackRegistry.  Each operation takes effect at its    *)
(* signal_lock_ step, where callbacks_ changes; a token a caller is about *)
(* to receive, or has just given up, counts as held from that step on.    *)
(***************************************************************************)
AbsHandles ==
  [u \in Threads |->
     IF \E v \in Threads : pc[v] = "rs_rel" THEN {}
     ELSE IF pc[u] = "rc_rel" THEN held[u] \cup {op[u]}
     ELSE IF pc[u] = "uc_rel" THEN held[u] \ {op[u]}
     ELSE held[u]]

Registry == INSTANCE CallbackRegistry
              WITH Clients <- Threads, registry <- callbacks,
                   handles <- AbsHandles, ticks <- interrupts

(* ProfileHandler implements the atomic registry: seen at its signal_lock_ *)
(* steps, every run of the two-lock protocol and of the signal handler is *)
(* a run of atomic registrations of fresh tokens, unregistrations of held *)
(* tokens, resets and ticks.                                              *)
ImplementsRegistry == Registry!RegSpec

-----------------------------------------------------------------------------
(* The strengthening used by the proofs (ProfileHandlerProofs).            *)

\* The labels at which a thread holds control_lock_ with the handler off,
\* before and while it holds signal_lock_.
WaitSL == {"rc_sl", "uc_sl", "rs_sl", "gs_sl"}
HoldSL == {"rc_rel", "uc_rel", "rs_rel", "gs_rel"}

\* A thread is inside an operation exactly when it holds control_lock_,
\* and the handler is uninstalled for the whole operation.
LockInv ==
  /\ \A u \in Threads : pc[u] # "idle" <=> ctl = u
  /\ \A u \in Threads : pc[u] # "idle" => ~enabled

\* signal_lock_ is held by ordinary code exactly in the HoldSL window and by
\* a handler exactly while it runs; a thread with a handler on it has not
\* started an operation.
SignalLockInv ==
  /\ \A u \in Threads : sl = <<u, Mutator>> <=> pc[u] \in HoldSL
  /\ \A u \in Threads : sl = <<u, Handler>> <=> hstate[u] = "run"
  /\ \A u \in Threads : hstate[u] # "none" => pc[u] = "idle"

\* How the registry and callback_count_ stand at each label.
CountInv ==
  /\ ctl = NoThread => callback_count = Len(callbacks)
  /\ \A u \in Threads :
       /\ pc[u] \in WaitSL \cup {"gs_rel"} => callback_count = Len(callbacks)
       /\ pc[u] = "rc_rel" => callback_count + 1 = Len(callbacks)
       /\ pc[u] = "uc_rel" => callback_count = Len(callbacks) + 1
       /\ pc[u] = "rs_rel" => callbacks = <<>>

\* The token of an operation in flight.
OpInv ==
  \A u \in Threads :
    /\ pc[u] \in {"rc_sl", "rc_rel", "uc_sl", "uc_rel"} => op[u] \in Tokens
    /\ pc[u] = "uc_sl" => op[u] \in Range(callbacks)

IInv == TypeOK /\ LockInv /\ SignalLockInv /\ CountInv /\ OpInv

\* The token a registration is about to push is not in the list yet, and
\* the token an unregistration is about to erase is one its caller holds:
\* what the refinement of CallbackRegistry needs at the signal_lock_ step.
FreshInv ==
  \A u \in Threads :
    /\ pc[u] = "rc_sl" => op[u] \notin Range(callbacks)
    /\ pc[u] = "uc_sl" => op[u] \in held[u]

(* The invariant the refinement proof rests on: IInv, and the token in     *)
(* flight is fresh when RegisterCallback pushes it and held when           *)
(* UnregisterCallback erases it.                                           *)
RInv == IInv /\ FreshInv

\* With one process timer: every thread reads the same timer; the timer
\* armed by the first RegisterThread stays armed until detection; a second
\* RegisterThread therefore never concludes TIMERS_SEPARATE; and once
\* timers are known shared, callback_count_ and the timer move together in
\* every state, inside operations too, since both change in the same step.
\* It rests on StartTimer arming the timer: a frequency whose interval
\* setitimer accepts.
TimerInv ==
  OSShared /\ IntervalAccepted =>
    /\ \A u, v \in Threads : timer[u] = timer[v]
    /\ timer_sharing = TIMERS_ONE_SET => \A u \in Threads : timer[u]
    /\ timer_sharing # TIMERS_SEPARATE
    /\ timer_sharing = TIMERS_SHARED =>
         \A u \in Threads : timer[u] <=> callback_count > 0

=============================================================================
