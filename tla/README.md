# TLA+ models of `src/src/profile-handler.cc`

`profile-handler.cc` holds the process-wide profiling timer and its signal
handler. Clients (the CPU profiler, for example) register callbacks. Each
timer tick (SIGPROF or SIGALRM) calls every registered callback from the
signal handler.

## 1. The system

### Components

| Component | Code | Module |
|---|---|---|
| Callback registry and locking protocol (`RegisterThread`, `RegisterCallback`, `UnregisterCallback`, `Reset`, `GetState`) | `ProfileHandler`, lines 180-290 and 351-489 | `ProfileHandler`, refining `CallbackRegistry` |
| Signal dispatcher (`SignalHandler`) and signal disposition (`EnableHandler`, `DisableHandler`) | lines 512-552 | `ProfileHandler` |
| Interval-timer event source and its timer-sharing detection | `TimerProfileEventSource`, lines 128-176 and 356-510 | `TimerEventSource` |
| Frequency configuration and timer period | constructor lines 323-345, `StartTimer` lines 491-497 | `HandlerConfig` |
| Event-source selection (`BuildEventSource`) | lines 556-581 | `HandlerConfig` |
| Singleton gate (`Instance`, `Init`, `ProfileHandlerInitializer`) | lines 305-321 and 587-597 | not modelled |
| `ThreadProfileEventSource` | `profile-eventsource-timerthread.cc`, which is not in the repository | not modelled |
| `extern "C"` wrappers | lines 599-618 | the choices of `Next` |

### State

- **`control_lock_`** is the outer lock. It serialises the public operations and guards:
  - `callback_count_`;
  - the event source's `timer_sharing_`.
- **`signal_lock_`** is the inner lock. It guards:
  - `callbacks_`, a `std::list` of token pointers;
  - `interrupts_`.
- **The signal disposition** is either `SignalHandler` or `SIG_IGN`. It is process-wide.
- **The kernel's interval timer.** Whether it is one per process or one per thread depends on the threading library, and the code cannot tell which.

### How the parts interact

A mutator does the following, in this order:
1. takes `control_lock_`;
2. calls `DisableHandler()`, which sets `SIG_IGN`;
3. takes `signal_lock_` only to change the list or read `interrupts_`;
4. updates the count;
5. tells the event source the new count;
6. re-enables the handler if callbacks remain.

`SignalHandler` takes only `signal_lock_`. It increments `interrupts_` and walks the list.

The disable-before-lock discipline is what prevents a self-deadlock. Without it, a signal delivered to a thread that holds `signal_lock_` would spin forever on that same thread.

### Timer-sharing detection

The event source finds out whether timers are shared:
- The first `RegisterThread` arms the timer and sets `ONE_SET`.
- The next `RegisterThread`, which must come from another thread, checks `getitimer`:
  - if the timer is running, it sets `SHARED`;
  - otherwise it sets `SEPARATE`.
- With shared timers, the first callback starts the timer and the last one stops it.

### Hard behaviours

These are each listed as a hazard in `PROJECT.json`:
- a signal arriving between any two steps of a mutator;
- handlers on several threads walking the list while another thread mutates it;
- sequences of register, unregister and reset around a detection round;
- integer width in the frequency parse;
- the timer period at the boundary of what `setitimer` accepts.

## 2. Modules

- **`TimerEventSource`** models `TimerProfileEventSource`.
  - CONSTANTS:
    - `Threads`;
    - `OSShared`: the kernel shares one timer;
    - `Frequency`: `frequency_`, fixed after construction, in [1, 4000] (`FrequencyAssumption`, the constructor's clamp).
  - VARIABLES:
    - `timer[t]`: what `getitimer` on thread `t` reports;
    - `timer_sharing`.
  - `StartTimer` and `StopTimer` set every entry when `OSShared` holds, and only `timer[t]` otherwise.
  - `StartTimer` arms the timer only when `IntervalAccepted`: `setitimer` rejects `tv_usec = 1000000 / frequency_` when it reaches 1000000, and line 496 ignores the error, so at frequency 1 the timer is left as it was.
  - `ESRegisterThread`, `ESRegisteredCallback`, `ESUnregisteredCallback` and `ESReset` are action fragments. They are conjoined into the `ProfileHandler` step that calls them, with `control_lock_` held.
- **`ProfileHandler`** extends `TimerEventSource`. Each public operation is split at the points where another thread or a signal can observe a difference:
  - **Begin:** take `control_lock_`, pick the token, and `DisableHandler`.
  - **Signal-lock step:** take `signal_lock_` and change or read the list.
  - **End:** release `signal_lock_`; update the count and the event source; re-enable; release `control_lock_`.

  Steps that touch only state guarded by `control_lock_` are merged. This is sound because no other actor reads that state while the lock is held.

  The dispatcher has four actions:
  - `Deliver`: the kernel delivers the signal while the disposition is the handler and the thread's timer is armed;
  - `HandlerAcquire`: spin on `signal_lock_`, `++interrupts_`, `begin()`;
  - `HandlerInvoke`: one callback and `++it`;
  - `HandlerReturn`.

  While a handler is on thread `t`, the operation of `t` cannot move (`Running(t)`).

  Two variables exist for the properties:
  - `held[t]` records the tokens thread `t` owns;
  - `invoked[t]` records what the handler on `t` has called.

  The code is not changed by them.
- **`MCProfileHandler`** holds the model values and symmetry sets.
- **`HandlerConfig`** models the constructor's parse of `CPUPROFILE_FREQUENCY`.
  - It models `sscanf("%u%c")` into an `int32`: `strtoul` saturation and negation, then truncation to `UIntBits` read back as a signed value.
  - It also models `StartTimer`'s `1000000 / frequency`.
  - The environment string is abstracted to absent, not a number, or a sign, a magnitude and trailing characters.
  - It models `BuildEventSource` as the constructor calls it (empty argument). `UseEventSourceType` is lines 556-569: `CPUPROFILE_EVENT` first, then any `CPUPROFILE_REALTIME` (even empty), then `timer-cpu` for an empty result. `BuildEventSource` is the dispatch of lines 571-581 to a class and an `ITIMER_*`. `CPUPROFILE_EVENT` ranges over the three known names, the empty string and an unknown name.
- **`MCHandlerConfig`** scales the widths to 16 and 24 bits so that TLC's 32-bit integers can represent every wrap-around case. The behaviour classes are the same at 32 and 64 bits:
  - a value kept;
  - a value clamped;
  - a value wrapping negative;
  - a value wrapping to a small positive number;
  - a value saturating.
- **`CallbackRegistry`** is the abstract specification of what the public interface promises, every operation atomic:
  - `registry`: the live tokens in registration order, the order in which a tick calls them;
  - `handles[c]`: the tokens client `c` holds;
  - `ticks`: signals delivered.

  `Register` appends a fresh token, `Unregister` removes a held one, `ResetAll` destroys every token, `Tick` counts a signal. It is written from the interface in `profile-handler.h` and the spec, not from the code, so it has no map entries.
- **`ProfileHandler`** instantiates it as `Registry` with `callbacks_` for `registry`, `interrupts_` for `ticks`, and `AbsHandles` for `handles`. `AbsHandles` is `held` corrected at the labels between an operation's list step and its end: a registering thread already owns its pushed token, an unregistering one has already lost its erased token, and during `Reset` nobody owns anything. So each operation's list step is the abstract step, and all its other steps are stutters. `ImplementsRegistry` is `Registry!RegSpec`.
- **`ProfileHandlerProofs`** holds the TLAPS proofs of the safety invariants.
- **`RegistryRefinementProofs`** holds the proof that `ProfileHandler` refines `CallbackRegistry`, and of `RegistryIntegrity`.
- **`EventSourceProofs`** holds the proofs about the timer under `OSShared`.
- **`DispatchProofs`** holds the proofs about the signal handler's walk of the list.
- **`HandlerConfigProofs`** holds the proofs about the constructor's configuration.
- **`CallbackRegistry`** also holds its own invariant's proof and the `RemoveAt` lemmas it needs.

## 3. Runs

| Run | Checks | Result |
|---|---|---|
| `shared` (3 threads, 2 tokens, `OSShared = TRUE`, `Frequency = 100`, at most 3 signals) | `TypeOK`, `NoSelfDeadlock`, `DispatchConsistent`, `HandlerEnabledIffCallbacks`, `RegistryIntegrity`, `SharedTimerIffCallbacks`, `DetectionSound` | pass, about 200k states |
| `shared`, in addition | `ImplementsRegistry` | pass |
| `liveness` (2 threads, 2 tokens, `OSShared = FALSE`, at most 2 signals, `FairSpec`) | `HandlerCompletes`, `OperationCompletes` | pass, about 160k states |
| `iinv` (the `shared` instance) | `IInv` and `TimerInv`, the proofs' inductive invariants | pass, about 200k states |
| `config` (magnitudes at every edge, every `CPUPROFILE_EVENT` and `CPUPROFILE_REALTIME` class) | `FrequencyInRange`: `frequency_` in [1, 4000]; `EventSourceMatchesSpec` | pass, about 1.8k states |
| `detection_after_reset` | `DetectionSound` with per-thread timers | **violated** |
| `detection_frequency_one` | `DetectionSound` with a shared timer and `Frequency = 1` | **violated** |
| `frequency_clamp` | `FrequencyMatchesSpec` | **violated** |
| `timer_interval` | `TimerIntervalValid` | **violated** |

### Why these bounds

- **Three threads** let two handlers run beside a mutator, and let a pending handler sit on a third thread.
- **Two tokens** let a handler walk a list of two while the other token is erased or appended.
- **Three signals** let one handler fire between each pair of a mutator's steps.
- **`Frequency = 100`** (the default) stands for every frequency in 2..4000: the model uses the frequency only through `IntervalAccepted`, which is true for all of them. `Frequency = 1` is the other class and has its own run.
- The locking, dispatch and registry properties do not depend on how timers are shared (timer state only narrows `Deliver`), so they are checked once, with a shared timer. The `liveness` run uses per-thread timers, so that detection also reaches `TIMERS_SEPARATE` and its two steps of `RegisterThread` are exercised.

### Properties

- **`NoSelfDeadlock`:** no handler spins while its own thread holds `signal_lock_`.
- **`DispatchConsistent`:** for a running handler, what it has already called, followed by the list from its iterator on, is exactly `callbacks_`. So a handler never skips, repeats or calls a deleted callback.
- **`TimerInv`** (checked by `iinv`, used by the proofs): with one process timer and a frequency whose interval `setitimer` accepts, every thread reads the same timer. The timer armed by the first `RegisterThread` stays armed until detection ends, and once timers are shared it is armed exactly while `callback_count_` is positive.
- **`HandlerEnabledIffCallbacks`:** between operations, the handler is installed exactly when callbacks exist.
- **`RegistryIntegrity`:** between operations:
  - the count equals the list length;
  - the list is injective;
  - the live tokens are exactly the tokens held.
- **`SharedTimerIffCallbacks`:** once timers are known to be shared, the timer is armed exactly when callbacks exist.
- **`DetectionSound`:** detection agrees with the kernel. It holds with a shared timer at every frequency but 1.
- **`ImplementsRegistry`:** every behaviour, seen through the refinement mapping, is a behaviour of `CallbackRegistry`. It is what a client relies on: a token returned by `RegisterCallback` is in the list until it is unregistered or reset, the list keeps registration order, and nothing else changes it.
- **`HandlerCompletes`:** a handler that has been delivered eventually returns.
- **`OperationCompletes`:** a public operation that has begun eventually returns. Together with the above, no thread waits for ever on `control_lock_` or `signal_lock_`.
- **`EventSourceMatchesSpec`:** `CPUPROFILE_EVENT` selects the source whenever it is set (empty or unknown means `ITIMER_PROF`), else `CPUPROFILE_REALTIME` (set to anything) selects `ITIMER_REAL`, else `ITIMER_PROF`.

Every property of a passing run has a fault variant of the code that TLC catches. The variants are defined next to the code they replace:
- a dropped `DisableHandler`;
- an erase done without `signal_lock_`;
- an unconditional re-enable;
- a `Reset` that keeps the count;
- an off-by-one in `RegisteredCallback`;
- an `UnregisteredCallback` that ignores the sharing state;
- a count decremented twice;
- a handler that returns without releasing `signal_lock_`;
- an erase of the list's front instead of the token;
- a token picked that is already live;
- `CPUPROFILE_REALTIME` consulted before `CPUPROFILE_EVENT`.

### Findings

1. **`Reset` leaves per-thread timers armed** (line 470). With per-thread timers, `TimerProfileEventSource::Reset` stops nothing but still forgets the detection result. The next detection round then goes like this:
   1. `t2` registers and the state becomes `ONE_SET`.
   2. `t1` registers. `t1` still has the timer armed from before the `Reset`, so it concludes `TIMERS_SHARED`.
   3. Because the count is 0, `t1` stops its own timer.

   From then on, callbacks start and stop only the calling thread's timer, as if timers were shared. The spec says `Reset` returns the strategy to its pre-detection state.
2. **Large frequency overrides wrap instead of clamping** (line 334). `%u` stores into an `int32`:
   - values in [2^31, 2^32) read back as negative and fall back to 100;
   - values of 2^32 and above wrap (2^32+50 gives 50).

   The spec says a positive override clamps to 4000.
3. **`CPUPROFILE_FREQUENCY=1` never arms the timer** (line 494). It gives `tv_usec = 1000000`, which Linux rejects with `EINVAL`. `setitimer`'s result is ignored, so profiling is silently off. The spec allows frequency 1 and says a failure to set the timer is fatal.
4. **At frequency 1, detection misreads a shared timer as per-thread** (line 496). The first `RegisterThread`'s `StartTimer` fails silently, so the second thread sees no running timer and concludes `TIMERS_SEPARATE`. `RegisteredCallback` and `UnregisteredCallback` then never touch the timer (run `detection_frequency_one`).

### Assumptions

- **Fairness** (only in the `liveness` run, `FairSpec`):
  - every step of a thread after an operation's Begin, and every step of a running handler, is weakly fair. Once `DisableHandler()` has run, only the thread itself can move it on, and a running thread keeps running;
  - `HandlerAcquire` is strongly fair. The handler retries `SpinLockHolder` without end, and the lock is free between any two holders, so it is enabled infinitely often. Weak fairness is not enough: with it, TLC finds a behaviour where mutators on other threads take `signal_lock_` each time the handler could, and the handler never returns;
  - starting an operation, `RegisterThread` and `Deliver` have no fairness. They are up to the clients and the kernel;
  - callbacks return. A callback that loops holds `signal_lock_` for ever (hazard at line 546); that is the client's fault, not this code's.

  The liveness run does not check deadlock. The `shared` run does, and with the fault variants that leave `signal_lock_` held the liveness properties must be reported as such rather than as a deadlock.
- **Constants:**
  - `NoToken` and `NoThread` are not tokens or threads;
  - the unset value of an environment variable (`getenv`'s NULL) is none of the strings it may hold;
  - `WidthAssumption` bounds the integer widths so that 4000 fits in an `int32`. It also states two facts of arithmetic about powers of two that follow from those bounds: `2^w = 2 * 2^(w-1)`, and `2^UIntBits <= 2^ULongBits`. It states them because the provers have no axioms for `^`, and proving them for every `w` needs induction, which the provers cannot do here. TLC evaluates them on the `config` runs.
- **Callers:** the model's callers respect the code's documented contracts:
  - the two `RegisterThread` calls of a detection round come from different threads;
  - only held tokens are unregistered.

## 4. Proofs

`ProfileHandlerProofs` proves, for any non-empty set of threads, any set of tokens, either value of `OSShared` and any signal bound, `Spec => []IInv`. `IInv` is the conjunction of:
- `TypeOK`;
- `LockInv`: a thread is inside an operation exactly when it holds `control_lock_`, and the handler is off throughout;
- `SignalLockInv`: `signal_lock_` is held by ordinary code exactly at the labels after the list step, and by a handler exactly while it runs. A thread with a handler on it is idle.
- `CountInv`: the relation between `callback_count_` and the list at each label;
- `OpInv`: the token of an operation in flight.

The strengthening is needed for three reasons:
- `NoSelfDeadlock` alone is not inductive. Its preservation by `Deliver` needs `LockInv` (the handler is off while any thread is in an operation) and `SignalLockInv`.
- `HandlerEnabledIffCallbacks` needs `CountInv` to know what the count is when `End` re-enables.
- `TypeOK` needs `CountInv` for `callback_count - 1 \in Nat`.

The proof has one lemma per action and one step per conjunct the action can disturb. Lemmas on `RemoveAt` and `IndexOf` give the sequence facts.

The theorems are:
- `IInvInvariant`;
- `TypeCorrect`;
- `NoSelfDeadlockInvariant`;
- `HandlerEnabledInvariant`.

`RegistryRefinementProofs` proves `RegistryRefinement`: `Spec => ImplementsRegistry`, for the same constants. The argument follows the standard layout:
1. `RInvInvariant` (a lemma of the refinement): `Spec => []RInv`. `RInv` is `IInv` plus `FreshInv`: the token a registering thread picked is not in `callbacks_` before its push, and the token an unregistering thread was given is in its `held` before its erase. `FreshInv` is what makes the list step an abstract `Register` (its token is fresh) or `Unregister` (its token is held and in the list).
2. `InitRefines`: `Init => Registry!RegInit`.
3. `NextRefines`: `RInv /\ [Next]_vars => [Registry!RegNext]_Registry!regVars`, with one case per group of actions:
   - the push, the erase and the clear map to `Register`, `Unregister` and `ResetAll`;
   - `HandlerAcquire` maps to `Tick`;
   - every other step leaves `callbacks_`, `interrupts_` and `AbsHandles` unchanged. For a Begin this needs `LockInv`: no other thread is inside an operation, so no other thread's label changes what `AbsHandles` adds or removes.
4. The theorem follows by `PTL`.

`RegistryRefinementProofs` also proves `RegistryIntegrityInvariant`: `Spec => []RegistryIntegrity`. The argument goes through the abstract specification:
- `CallbackRegistry` proves `RegInvariant`: `RegSpec => []RegInv`. In `RegInv` the registry is injective, its range is the union of the clients' handles, and the handles are pairwise disjoint. The disjointness is the strengthening: without it, `Unregister` could remove a token another client still holds. The proof rests on lemmas that `RemoveAt` keeps a sequence injective and removes exactly one element from its range.
- Instantiated through `Registry`, `RegInvariant` and the refinement give `Spec => []Registry!RegInv`.
- With `control_lock_` free every thread is idle (`LockInv`), so `AbsHandles` is `held`, and `CountInv` gives the count.

`EventSourceProofs` proves `TimerInvariant`: `Spec => []TimerInv`, with one lemma per action that touches the timer. From it follow, under the hypotheses `OSShared` and `Frequency # 1`:
- `SharedTimerInvariant`: `SharedTimerIffCallbacks`;
- `DetectionSoundShared`: `DetectionSound`.

The hypotheses are needed, not a convenience. With per-thread timers the `detection_after_reset` run refutes `DetectionSound` (finding 1). At frequency 1 the `detection_frequency_one` run refutes it (finding 4). `FrequencyAccepted` proves that every other frequency in [1, 4000] gives an interval `setitimer` accepts.

`TimerInv` strengthens the two properties in two ways:
- it holds inside operations as well as between them, because the count and the timer change in the same step;
- it says the timer armed by the first `RegisterThread` is still armed when the second one looks. That is why detection cannot conclude `TIMERS_SEPARATE`.

`DispatchProofs` proves the handler's properties:
1. `CallbacksInjective`: `callbacks_` never lists a token twice, in every state. It is `Registry!RegInv` carried over by the refinement.
2. `HandlerPosInvariant`: `Spec => []HandlerPos`. `HandlerPos`, defined in `DispatchProofs`, is the strengthening of `DispatchConsistent`: a running handler stands at a position `i` of `callbacks_`, has called exactly the first `i - 1` callbacks, and its iterator points at the `i`-th or at `end()`.
   - Every step that changes the list takes `signal_lock_` with `sl = <<>>`, so by `SignalLockInv` no handler runs then.
   - `HandlerAcquire` starts at position 1.
   - `HandlerInvoke` moves from `i` to `i + 1`. Injectivity makes `IndexOf` of the `i`-th token equal `i`, so `Succ` is the next node.
3. `DispatchConsistentInvariant`: `Spec => []DispatchConsistent`. At position `i`, `From` of the iterator is `SubSeq(callbacks, i, Len)`, and the two halves concatenate to the list (`ConcatAdjacentSubSeq`, `SubSeqFull`). So no handler calls through a token already erased, and hence deleted (lines 431-433, 457-463).

`HandlerConfigProofs` proves two theorems for every width and every magnitude:
- `FrequencyInRangeInvariant`: the clamp's result is an integer in [1, 4000];
- `EventSourceInvariant`: `EventSourceMatchesSpec`, by cases on `CPUPROFILE_EVENT`.

The following are only model-checked:
- `HandlerCompletes` and `OperationCompletes`. Liveness under fairness, and `ENABLED`, are out of the prover's reach.
- `SharedTimerIffCallbacks` and `DetectionSound` with per-thread timers or at frequency 1. `SharedTimerIffCallbacks` is not checked there, and `DetectionSound` is false there (findings 1 and 4).
- The four violation runs. They are counterexamples, not theorems.

## 5. Not modelled

- **The singleton gate** (`Instance`, `Init`, `ProfileHandlerInitializer`, lines 305-321 and 587-597). `pthread_once` gives exactly-once construction, and the fallback runs only without threads. The model starts from the constructed object.
- **`ThreadProfileEventSource`.** Its file, `profile-eventsource-timerthread.cc`, is not in the repository. Only its selection is modelled.
- **The `RAW_LOG(FATAL)` path of `UnregisterCallback`** (line 444). It is reached only by a caller that unregisters a token it does not hold, which the interface forbids; the model's callers unregister only held tokens.
- **Two `RegisterThread` calls from one thread in a detection round** (line 379). This is a documented precondition on callers; the model assumes it.

## 6. Plan for later work

1. With `CPUPROFILE_EVENT` set to the empty string, `CPUPROFILE_REALTIME` is ignored (the event branch is taken, yielding an empty string and then `timer-cpu`). `EventSourceMatchesSpec` states the code's reading; the spec's wording does not settle whether that is intended.
2. Action properties of the timer: a thread's timer changes only in steps that also change `callback_count_` or the detection state.
