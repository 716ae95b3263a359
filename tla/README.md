# TLA+ models of the HDF5 library life cycle (`src/src/H5.c`)

This directory holds TLA+ models of the library-wide life cycle code of HDF5, in
`src/src/H5.c`. It also holds the TLC configurations that model-check them and
the TLAPS proofs about them.

## The system

`H5.c` owns the global state of the library. Its parts are listed below.

| Part | Code | State |
|---|---|---|
| Initialisation | `H5__init_package`, `H5_init_library` (107-288) | `H5_libinit_g`, `H5_debug_g`, `H5_dont_atexit_g` |
| Termination | `H5_term_library` (301-488) | `H5_libterm_g`, `H5_atclose_head`, the locals `pending`, `ntries`, `loop`, `at` |
| Shutdown loop | `DOWN(F)` and the do-while (359-452) | the subsystems' own state (external) |
| Atclose registry | `H5atclose` (1021-1047), the drain in term (328-352) | `H5_atclose_head` |
| Entry points | `H5open`, `H5close`, `H5dont_atexit` | none of their own |
| Debug configuration | `H5__debug_mask` (659-741) | `H5_debug_g` |
| Version guard | `H5_check_version`, `H5check_version` (833-984) | the static `checked` |
| Thin wrappers | memory, free lists, GC, version/threadsafe queries, user-callback sandbox | none in `H5.c` |

The parts interact as follows:

- Every API entry point (through `FUNC_ENTER_API` and `H5__init_package`) runs `H5_init_library` when neither flag is set.
- `H5_init_library` sets `H5_INIT_GLOBAL` first. It then clears the debug state and installs `H5_term_library` with `atexit` (once). Next it runs eleven subsystem inits; any of them can fail, and a failure leaves the flag set. Last, it parses `HDF5_DEBUG`, which may open streams.
- `H5close` and the `atexit` hook enter `H5_term_library`, which does the following in order:
  1. takes the API lock and sets `H5_TERM_GLOBAL`;
  2. runs the atclose callbacks newest first, and those callbacks may call back into the API;
  3. runs the shutdown loop;
  4. aborts a debug build if the loop gave up while error reporting is on;
  5. closes the debug streams and resets both flags.

## Modules

### `H5TermEngine`: the shutdown loop (lines 354-463)

**State.**

- `work[s]` abstracts what subsystem `s` still holds (IDs, open files, cache entries).
- `pending`, `ntries`, `loop` and `at` are the code's locals.
- `loop` is kept as the list of names written; `at` is the character count `sprintf` produces.
- `res` records what each call returned in the current sweep.
- `pc` is the next `DOWN` call (1..26), the do-while test, or `Done`.

**Actions.**

- **`Down`** is one expansion of `pending += DOWN(F)`.
  - The subsystem's `term_package` either returns 0 (no work) or releases one unit. Releasing a unit may hand a unit to a subsystem in `Feeds[s]`: closing a dataset can leave a file to close.
  - It then does the report bookkeeping of the macro, with its `(at + 8) < sizeof loop` and `(at + 5)` tests.
- **`SkipBlock`** is a failed `if (pending == 0)` gate. `GateAt` holds the 11 gates of the code.
- **`LoopTest`** is `while (pending && ntries++ < 100)`.

`MaxTries` stands for 100, and `LoopSize` for `sizeof loop`.

### `H5Lifecycle`: initialisation, termination, atclose, atexit (composes `H5TermEngine` by EXTENDS)

**State.**

- Code variables: `libinit`, `libterm`, `dontAtexit` and `atclose` (the list at `H5_atclose_head`, head first).
- `drain`: the nodes the walk has still to visit.
- `streams`: the length of `H5_debug_g.open_stream`.
- `atexitRegs`: how many times `atexit(H5_term_library)` ran.
- `subsInit`: the subsystem inits completed.
- `owner`: the API lock.
- `lpc` and `call`: where the lock holder is, and in which call.
- `ret`: the last result.
- History variables for the properties: `ran` and `registered`.

**Actions.**

- `EnterApi`, used by `H5open` and `H5atclose`: models `H5__init_package` together with the start of `H5_init_library`.
- `InitSubsystem`: one subsystem init. It may succeed or fail. A plugin's nested API call during the inits is not modelled as a step of its own: it sees `H5_INIT_GLOBAL` already set and returns. After the last init comes the debug mask, then the call's own body.
- `H5dont_atexit`.
- `TermLibrary`, used by `H5close` and `ProcessExit`.
- `AtcloseCallback`: one iteration of the atclose walk. The callback returns, queries `H5is_library_terminating`, or calls `H5atclose`.
- `AtcloseDone`: resets the head and enters the loop.
- `ShutdownStep`: the engine's steps.
- `TermFinish`: the abort in a debug build with error reporting on, or the stream close and flag reset.
- `ProcessEnded`: after exit or abort, the process stutters. This is the only place the system stops, so deadlock checking stays on.

**Threads and the lock.** Threads are serialised by the API lock: a thread may start a call only when the lock is free. An initialisation or a termination is a sequence of steps of the lock holder. The code that runs between those steps is the lock holder's own re-entrant code: atclose callbacks, which may register callbacks.

### `H5Version`: the version guard (lines 834-984), with `H5Strtol`

**State.**

- `checked` and `level` are the two statics of `H5_check_version`. They live for the whole process, across `H5close` and re-init.
- `env` is `HDF5_DISABLE_VERSION_CHECK`, a sequence of one-character strings.
- `infoOK` says whether the build's `H5_lib_vers_info_g` matches the string built at 949.
- `aborted` records the process ended by `abort()`.
- `warned` records the kinds of warning printed: version, release or info. The text itself is abstracted.
- `libinit` is `H5_INIT_GLOBAL`.
- History: `firstHdr` holds the numbers of the one check that was not a cached no-op, and `appCalls` holds the numbers passed to `H5check_version`.

**Actions.**

- `InitLibrary` (145-155) calls the check with the library's own numbers.
- `H5check_version(h)` (973-984) calls it with the application's numbers. It is NOINIT, so it does not start the library.
- `TermLibrary` clears the INIT flag.
- `ProcessAborted` stutters after `abort()`.
- `CheckVersion` is the whole of `H5_check_version`, in one step:
  - the cached return (847);
  - the environment read, `strtol(s, NULL, 0)` behind `isdigit`, as `Strtol0`;
  - the major/minor switch;
  - the release-exception loop (900-938) as `ReleaseException`. The loop's effect depends only on whether some entry of the table equals the header's or the library's release, so it is stated as that existential over the table's indices;
  - `checked = true` (941), which the two abort paths never reach;
  - the version-string warning at level 0 only.

`H5Strtol` gives `strtol` with base 0 on a digit-led string. It reads hex after `0x` plus a hex digit, octal after a leading `0`, and decimal otherwise. The number is the longest valid run, and `rest` is just after it.

### `H5DebugMask`: the `HDF5_DEBUG` parser (lines 660-741) and the stream close (466-473)

**State.**

- `pkgStream`, `trace`, `ttop`, `ttimes` and `openList` are the fields of `H5_debug_g`.
- `input`, `pos` and `cur` are the argument, `s` and the local `stream` of the running call.
- `phase` says which of the two calls at 283-284 is running, or that the library is live, closing or closed.
- FILE objects are numbered: `StdErr` is 0, `NullStream` is -1, and `k` is the k-th stream `fdopen` made. `files[k]` is its descriptor.
- `fdOpen` holds the process's open descriptors, and `closedFiles` the streams that were `fclose`d.

**Actions.** There is one action per branch of the loop:

- `NameToken` (668-716): the sign, the name, then `trace`, `ttop`, `ttimes`, `all` or a package.
- `FdToken` (717-736): `strtol`, then `fdopen`. On success comes either the pushed list record or a malloc failure, which `fclose`s the stream and returns, dropping the rest of the string. If `fdopen` fails, `stream` becomes NULL.
- `SkipChar` (737-739).
- `EndOfString`: the return. The return after `"-all"` starts the call on `HDF5_DEBUG`.

`TermStart`, `CloseStream` and `CloseDone` are the close loop of `H5_term_library`.

### `H5LibraryState`: what the life cycle promises

This module is the abstract state machine:

- `uninit -> init` by initialisation;
- `init -> term` by `H5close` or the atexit hook;
- `term -> uninit` when the loop ends;
- `term` ends in an abort;
- the process may exit from `uninit` or `init`.

`H5Lifecycle` instantiates it as `LibState`, with this refinement mapping:

- `lib` is `"term"` while `libterm` is set, `"init"` while `libinit` is set, and `"uninit"` otherwise;
- `ended` means the process exited or aborted.

`LibraryStateRefined` is the abstract `Spec` as a property.

### `H5ShutdownLoop`: what the shutdown loop promises

The abstract loop has the subsystems' `work`, the number of `sweeps` begun, and an `outcome`. Its steps are:

- `Release`: while running, a subsystem with work releases a unit or hands it to one in `Feeds`;
- `NewSweep`: while at most `MaxTries` sweeps have begun;
- `FinishClean`: only when no subsystem holds work;
- `GiveUp`: only once `MaxTries + 1` sweeps have begun.

`H5TermEngine` instantiates it as `Shutdown`. `sweeps` is `SweepsBegun`: `ntries + 1`, except after giving up, where the failing test's increment began no sweep. `outcome` is `LoopOutcome`, read from `pc = Done` and `pending`. The order of the 26 calls, the gates and the report buffer are left out. `ShutdownLoopRefined` is the abstract `Spec` as a property. It fixes the code's count of `MaxTries + 1` sweeps, so one more retry (mutant `LoopTestOffByOne`) breaks it.

### `H5VersionGuard`: what the version check promises

The abstract guard has one step, `Decide`. While no verdict is recorded, it picks a header from `Hdrs` and an override level. The verdict is then fixed:

- `"pass"` for a compatible header;
- `"aborted"` for an incompatible one at level 0;
- `"warned"` at level 1;
- `"pass"` above 1.

`H5Version` instantiates it as `Guard`. `hdr` is `firstHdr`, `lvl` is `level`, and the verdict is `VerdictOf`, which reads `aborted` and `warned`. `Bad` is the model's `Incompatible`. `VersionGuardRefined` is the guard's `Spec` as a property. It says that the first effective check decides once, by the policy, and that nothing afterwards (re-init, `H5check_version` calls, `H5close`) changes the outcome.

### `H5DebugStreams`: what the debug configuration promises about its streams

The abstract registry holds three sets: `opened`, `owned` and `closed`. Its steps are:

- `Open(k)`: a new stream is opened and owned;
- `OpenDropped(k)`: a new stream is opened and closed at once;
- `Release(k)`: an owned stream is closed and no longer owned.

`H5DebugMask` instantiates it as `Registry`. `opened` is `1..Len(files)`, `owned` is the elements of `openList`, and `closed` is `closedFiles`. `StreamRegistryRefined` is the registry's `Spec` as a property. It holds only if:

- the close loop pops each node it closes (line 471);
- no stream is pushed twice;
- a stream closed after a malloc failure was never pushed.

## Runs

| Run | Checks | Shows |
|---|---|---|
| `engine_pass` | `EngineTypeOK`, `CleanShutdown`, `LoopEnds`, `ShutdownLoopRefined`, `GateHonoured` | The loop ends for every start in which L, D_top, F and FL are busy, including a D_top/F hand-off cycle that never settles. It reports a clean shutdown only when no subsystem holds work. A subsystem behind a `pending == 0` gate is called only when every call before that gate returned 0 in the same sweep. |
| `engine_sweepcap` (violation) | `SweepCap` | The loop begins `MaxTries + 1` sweeps: 101 in the code, where the spec says 100. |
| `engine_phaseorder` (violation) | `PhaseOrder` | `A_top`..`T_top` run after `L` reported work in the same sweep, because they share L's gate. The spec lists them as a later phase. The property looks only at steps that call the subsystem, not at the skip of a gated block. |
| `engine_report` (violation) | `ReportNamesStuck` | `at` is never reset per sweep, so the failure message names subsystems that quiesced in the last sweep. |
| `lifecycle_pass` | `TypeOK`, `AtexitOnce`, `NoStreamLeak`, `AtcloseLIFO`, `LibraryStateRefined` | Over any sequence of opens, registrations, closes, `H5dont_atexit` calls, exits and failed inits by two threads: the atexit hook is installed once, no debug stream outlives a reset (the give-up path included), and callbacks registered outside termination run newest first. Every step is a step of `H5LibraryState` or a stutter. |
| `lifecycle_atclose_lost` (violation) | `AtcloseLIFO` | A callback that registers another callback during termination loses it: the node goes in front of the walk and is dropped with the head. |
| `lifecycle_open_ready` (violation) | `OpenMeansReady` | After a failed subsystem init, the next `H5open` succeeds with later subsystems never initialised. |
| `version_pass` | `VerdictPolicy`, `VersionGuardRefined` | Over init, re-init and `H5check_version` with five header triples and seven override strings, the process aborts exactly when the one effective check saw an incompatible pair at level 0. A mismatch warning is printed exactly when it saw one at level 0 or 1. The model refines `H5VersionGuard`. |
| `version_noop_after_init` (violation) | `MismatchAborts` | After `H5_init_library`'s own check, `H5check_version(1,12,2)` against a 1.14 library returns without aborting, because `checked` is already set. |
| `debugmask_pass` | `OpenStreamsTracked`, `StreamsOwned`, `StreamRegistryRefined` | Over ten `HDF5_DEBUG` strings with names, signs, open and closed descriptors and malloc failures, no `fdopen`ed stream is lost. Until termination, no setting refers to a closed stream. The parser and the close loop refine `H5DebugStreams`: each stream is opened once, owned from then until it is closed, and never closed twice. |
| `debugmask_failed_open` (violation) | `CurrentStreamKept` | `9,f,trace`: descriptor 9 is not open, so `stream` becomes NULL and `f` is switched off. The spec says a failed open keeps the current stream. |
| `debugmask_shared_fd` (violation) | `OwnedStreamsWritable` | `+,3,3-ttop`, with the malloc of the second record failing: the code `fclose`s the second stream on descriptor 3, which closes the descriptor the first, owned, stream writes to. Termination later `fclose`s it again. The spec says opened streams are tracked and closed during termination. |

### Bounds, and why they are enough

**Engine.**

- `MaxTries = 3` gives four sweeps. That is enough for a hand-off of work from D_top to F and back to be cut off by the cap, and for the off-by-one to show.
- `LoopSize = 16` lets both the name branch and the `"..."` branch of `DOWN` fire, as well as the branch that writes nothing.
- `MaxWork = 2` lets a subsystem receive work while it still holds some.
- The busy set covers:
  - a top-block subsystem (D_top) and the gate leader (L);
  - a middle-phase subsystem (F);
  - one of the innermost gated subsystems (FL).

**Lifecycle.**

- Two threads and two callbacks, with symmetry over each; no liveness property is checked under symmetry.
- An atclose list of two nodes, so LIFO order is observable.
- One debug descriptor.
- `MaxTries = 1`, so the loop can give up.
- A debug build, so the abort path is reached.

**Version guard.**

- The library is 1.14.2 with the code's exception table `{0}`.
- The headers are:
  - equal;
  - release-only differences, one non-exception (1.14.5) and one in the table (1.14.0);
  - a minor mismatch and a major mismatch.
- The override strings are: unset, non-digit (`a`), `1`, `2`, hex `0x2`, `08` (octal, read as 0) and `010` (read as 8).
- So every arm of both switches and every base of `strtol` is reached. Values of 2^31 and above, where the unsigned cast wraps, are beyond TLC's integers.

**Debug mask.**

- There are two packages (`a`, `f`), and open descriptors `{1,2,3,8}`.
- The ten strings reach:
  - every name branch, signed and unsigned, and an empty name after a sign;
  - an open and a closed descriptor;
  - hex, octal and `08`;
  - the malloc failure at every descriptor token;
  - a descriptor named twice (`3,3`), which `fdopen` opens as two streams on one descriptor;
  - two streams on the list at close.

### Fairness

`EngineSpec` assumes weak fairness of the loop's steps. The loop is straight-line code of one thread holding the API lock, and nothing in it blocks.

`LoopEnds` holds because of the cap, not because of fairness. With the cap removed (mutant `LoopTestNoCap`), the D_top/F cycle runs for ever.

The lifecycle spec is checked for safety only. Applications are free never to call the library again, so no fairness is assumed of them. The version guard and the debug mask are checked for safety only: the parse is a finite loop, and an application need not call anything.

## Mutants

Every property of a passing run is shown to be sensitive to a plausible bug in the code it is about:

| Mutant | Bug it models | Property that catches it |
|---|---|---|
| `TermPackageNoGuard` | releasing without work | `EngineTypeOK` |
| `DownOverwrite` | `pending =` for `+=` | `CleanShutdown` |
| `LoopTestNoCap` | no retry cap | `LoopEnds` |
| `DownNoGate` | a gated call made with work pending | `GateHonoured` |
| `LoopTestOffByOne` | `ntries++ <= 100`, one retry too many | `ShutdownLoopRefined` |
| `InitSubsystemOverrun` | one init too many | `TypeOK` |
| `EnterApiNoDontAtexit` | flag not set after `atexit` | `AtexitOnce` |
| `TermFinishStreamsOnConvergence` | streams freed only on convergence, as the spec's words suggest | `NoStreamLeak` |
| `ApiBodyAppend` | append instead of prepend | `AtcloseLIFO` |
| `ReleaseExceptionLibraryOnly` | exception loop tests only the library's release | `VerdictPolicy` |
| `TermLibraryResetsChecked` | `H5_term_library` clears the `checked` static | `VersionGuardRefined` |
| `RecordAllocFailedNoClose` | malloc failure returns without `fclose` | `OpenStreamsTracked` |
| `RecordAllocFailedNoReturn` | malloc failure `fclose`s and carries on with that stream | `StreamsOwned` |
| `CloseStreamNoPop` | the close loop does not advance the list head (471 lost) | `StreamRegistryRefined` |
| `TermFinishNoInitReset` | `H5_INIT_GLOBAL` not cleared at the end of termination | `LibraryStateRefined` |

## Proofs (`H5TermEngineProofs`, checked by TLAPS)

- **`EngineTypeCorrect`**: `EngineSpec => []EngineTypeOK`. It holds for every cap, buffer size, work bound, hand-off graph and set of initial work vectors allowed by the ASSUMEs (`MaxTries`, `MaxWork`, `LoopSize` in `Nat`, `Feeds` a map into subsets, `WorkInit` bounded).
  - The step proof has one case per action.
  - `Down` is split on whether the called subsystem holds work. When it does, the step is split on a plain release versus a hand-off; the hand-off uses the lemma `MoveWork`.
  - The report's two branches are separate steps.
- **`CleanShutdownHolds`**: `EngineSpec => []CleanShutdown`.
  - `CleanShutdown` is not inductive: a state at `Done` with `pending = 0` says nothing of how it was reached.
  - The strengthening `CleanInv` says: while `pending = 0`, every subsystem called so far in the current sweep holds no work.
  - A call that returns 0 changes no work and leaves `pending` at 0. A call that returns work makes `pending` nonzero until the next sweep resets it, and that reset starts the sweep over from call 1.
  - At `Done` with `pending = 0`, all 26 calls precede `pc`, so every subsystem holds no work.

- **`ShutdownLoopRefinedHolds`**: `EngineSpec => ShutdownLoopRefined`.
  - The invariant `RefInv` is `EngineTypeOK`, `CleanInv` and `SweepInv`. `SweepInv` says that outside `Done`, `ntries <= MaxTries`. TLC checked `RefInv` on the engine run.
  - A `Down` call on a subsystem without work, and a `SkipBlock`, are stutters (`ShutdownStutter`). A `Down` call on a subsystem with work is `Release`.
  - The loop test has three cases:
    - with `pending = 0` it is `FinishClean`, and `CleanInv` at the end of the sweep gives the empty work;
    - with work pending under the cap it is `NewSweep`;
    - with work pending at the cap it is `GiveUp`, and `SweepInv` pins `ntries` to `MaxTries`.
- **`GateHonouredHolds`**: `EngineSpec => GateHonoured`.
  - The invariant `GateInv` adds three facts to `EngineTypeOK`. While `pending = 0`, every call of the sweep so far returned 0 (`ZeroSoFar`). At every gate already passed, the calls before it returned 0 (`GatesPassed`). The calls at and after `pc` have no result yet in this sweep (`NotYetCalled`). TLC checked `GateInv` on the engine run.
  - `NameInjective` says the 26 calls name distinct subsystems, so recording one result leaves the others alone.
  - A `Down` at a gate is enabled only with `pending = 0`, so `ZeroSoFar` gives the gate's condition. A `SkipBlock` calls nobody, and a new sweep clears every result.

## Proofs (`H5LifecycleProofs`, checked by TLAPS)

These hold for every set of threads and callbacks, every `MaxAtclose`, `DebugFds` and build type, and whatever the callbacks do (the re-registering callbacks included).

- **`TypeCorrect`**: `Spec => []TypeOK`.
- **`AtexitOnceHolds`**: `Spec => []AtexitOnce`.
- **`NoStreamLeakHolds`**: `Spec => []NoStreamLeak`.

All three rest on the inductive invariant `LifeInv`, which TLC also checks as an invariant of the lifecycle run. `LifeInv` strengthens the properties with three facts:

- `CallOK`: a running `H5atclose` names a real callback, so the list stays well typed when the body runs after the inits.
- `atexitRegs = 1 => dontAtexit`: the hook is installed only while the flag is clear, and the flag is never cleared again. This is what makes `AtexitOnce` inductive.
- `lpc \in {"initsub", "drain", "loop"} => libinit`: inside an initialisation or a termination the flag is set. So the streams opened by the debug mask are opened with it set.

The step proof has one lemma per action. It reuses `EngineTypeStep` for the loop's steps. To keep the module free of RECURSIVE operators, `H5Lifecycle` defines `Reverse` as a function rather than taking it from SequencesExt.

What is only model-checked:

- the liveness property `LoopEnds`, since TLAPS does not handle liveness under fairness or `ENABLED`;
- `AtcloseLIFO` in general, which fails when a callback registers during termination (see `lifecycle_atclose_lost`). Without re-registration it is proved in `H5AtcloseProofs`;
- the violations.

## Proofs (`H5LifecycleRefinement`, checked by TLAPS)

- **`LibraryStateRefinedHolds`**: `Spec => LibraryStateRefined`, for every set of threads and callbacks and every bound.
  - The initial state maps to `uninit`, not ended.
  - `LibState!Next` is not closed under the code's steps by itself, because `EnterApi` and `H5close` are enabled only at an idle lock.
  - The invariant `TermInv` says `H5_TERM_GLOBAL` is set exactly while the lock holder is in the drain or the loop, or has aborted. With it, a step from an idle state never sees `libterm`. The walk and the loop change neither flag, and `TermFinish` is `EndTerm` or `AbortTerm`.
  - There is one lemma per action, and the last step combines them `BY PTL`.

## Proofs (`H5DebugMaskProofs`, checked by TLAPS)

- **`OpenStreamsTrackedHolds`** and **`StreamsOwnedHolds`** hold for every package table, every set of `HDF5_DEBUG` strings and every set of open descriptors allowed by `DebugMaskAssumption`.
  - Neither property is inductive alone. The malloc-failure step is safe only because the stream it closes has not been pushed, and because returning leaves no parse running with it: from the `H5Pset_debug_mask` call, the `HDF5_DEBUG` call that follows starts again at stderr; from the `HDF5_DEBUG` call, the call ends with `cur` unchanged and no later step reads it before the next re-init.
  - The invariant `DebugInv` is the two properties plus `ShapeOK` (numbers are naturals, `phase` is a phase).
  - The lemmas `RangeHeadTail` and `RangeCons` give the elements of a sequence after `Tail` and after a push on the front.
  - The name branch is split on the `CASE` arms; their exclusivity comes from `Pkgs \cap Reserved = {}`.
- **`StreamRegistryRefinedHolds`**: `Spec => StreamRegistryRefined`, under the same assumptions.
  - The initial state maps to the empty registry.
  - The invariant `RegInv` adds the following to `DebugInv`:
    - `openList` is injective (`IsInjective` from the Functions module);
    - the list and the closed set are stream numbers already made;
    - they are disjoint.
  - TLC checked `RegInv` as an invariant of the debug-mask run before the proof.
  - A descriptor token that is open maps to `Open(k)` or `OpenDropped(k)`, with `k = Len(files) + 1` fresh. One that is not open maps to a stutter.
  - A close step maps to `Release(Head(openList))`. The lemma `InjectiveTail` shows the elements of the tail are those of the list minus the head, which is what `owned' = owned \ {k}` needs. `InjectiveCons` keeps the list injective when a fresh stream is pushed.
- **Only model-checked:** `TypeOK` of `H5DebugMask`. The value and the rest of `Strtol0` come from a recursive function over the digits and a `CHOOSE` of the end of the digit run. Bounding them needs induction over the input, which the provers cannot instantiate.

## Proofs (`H5AtcloseProofs`, checked by TLAPS)

- **`AtcloseLIFOHolds`**: `ASSUME "register" \notin CbActs PROVE Spec => []AtcloseLIFO`. It holds for every set of threads, every `MaxAtclose` and every build.
  - The hypothesis excludes callbacks that call `H5atclose` during termination. With them the property fails (run `lifecycle_atclose_lost`), so the theorem states exactly the case the code gets right.
  - The invariant `LIFOInv` says two things. `atclose` is the reverse of the registration history. During the drain, the callbacks already run followed by those still to run are the list as it stood. TLC checked `LIFOInv` together with `LifeInv` on the lifecycle run.
  - Lemmas: `ReverseAppend` says a prepend in `H5atclose` matches an append to the history. `ConcatMoveHead` says one drain iteration moves the head from `drain` to `ran`.

## Proofs (`H5VersionProofs`, checked by TLAPS)

- **`VerdictPolicyHolds`**: `Spec => []VerdictPolicy`, for every library version, exception table, header set and override set.
  - The invariant `VerdictInv` adds the following to the policy:
    - `firstHdr` is one of the headers or `NoHdr`;
    - `warned` holds only warning kinds;
    - `firstHdr = NoHdr` exactly when the check has neither completed nor aborted.
  - With `VerdictInv`, a fresh check decides by `Incompatible` and the level (`FreshCheck`), and a cached one changes nothing (`CachedCheck`: with `checked` set, the early return is the only enabled branch of `CheckVersion`).
- **`VersionGuardRefinedHolds`**: `Spec => VersionGuardRefined`.
  - Every step is a stutter of the guard or its one `Decide`. A fresh check maps to `Decide`; a cached check, `TermLibrary` and an abort map to stutters (`StepKinds`, `GuardStep`).
- **Only model-checked:** `TypeOK` of `H5Version` (the `Strtol0` bound, as for the debug mask), and the violations.

## Not modelled, and why

- **Nested `H5close` from an atclose callback (hazard at 332):** the spec forbids it. The code would re-enter `H5_term_library` under the recursive lock, and `H5_TERM_GLOBAL` is not tested there. The callbacks are external code, so modelling one that calls `H5close` models a contract violation, not H5.c. It is left as a hazard.
- **Negative `term_package` results (375), stale error-reporting setting (325), whether giving up was necessary (459), and what other threads observe under the lock (311):** each depends on code outside `H5.c` (the subsystems, `H5E`, the lock implementation). The models choose those values nondeterministically and state no property that would separate them.
- **MPI `MPI_COMM_SELF` hook:** parallel builds only. It just calls `H5_term_library`, which is modelled.
- **Memory facade (`H5allocate_memory`, `H5resize_memory`, `H5free_memory`):** stateless forwards to `H5MM`, with no state in `H5.c` to interleave.
- **Free lists and GC (`H5garbage_collect`, `H5set_free_list_limits`, `H5get_free_list_sizes`):** forwards to `H5FL`, whose state lives outside `H5.c`.
- **`H5get_libversion` and `H5is_library_threadsafe`:** they return constants.
- **User-callback sandbox (`H5_user_cb_prepare`/`_restore`):** it saves and restores the error stack, which lives in `H5E`. It is folded into one callback step.
- **What the subsystems' `term_package` functions do internally:** those functions live outside `H5.c`. They are abstracted to work units.
- **Output text:** warnings and debug output are abstracted to their kind or left out. No property is about wording.

## Plan for later work

1. Feed the streams of `H5DebugMask` into `H5Lifecycle` by `INSTANCE`, replacing the abstract `DebugFds` count.
2. Model the report buffer's contents after giving up in `H5ShutdownLoop`, so that the stale report (`engine_report`) can be stated against the abstract loop.
3. Bound `Strtol0` by a non-recursive characterisation, so that `TypeOK` of the version and debug modules can be proved.
