# helgrind+: a TLA+ verification project

helgrind+ (`src/trunk/helgrind`) is a race detector that runs a client program
under Valgrind and watches its memory accesses, its locks and its other
synchronisation. This directory holds TLA+ models of the parts that decide what
is reported, the TLC runs that check them on small instances, and TLAPS proofs
of the results that matter most, for instances of any size.

All paths below are relative to `src/trunk/helgrind`.

## 1. Inventory

Valgrind runs one client thread at a time and calls the tool at every memory
access and, through wrappers around libpthread, before and after every
synchronisation call. The tool itself is sequential: a handler runs to its end.
What is concurrent is the client: between two handlers any other client thread
may run, and in particular between the moment libpthread grants a lock and the
moment the tool hears of it.

| Part | State | Operations | Talks to |
|---|---|---|---|
| Vector timestamps (`libhb_core.c`, "vts primitives") | sorted arrays of (thread, time) | singleton, tick, join, cmp, cmp_structural | VTS table |
| VTS table (`libhb_core.c`) | `vts_set`, `vts_tab` with reference counts and free list, two result caches, the next GC threshold | find-or-add, rcinc/rcdec, join2, getOrdering, tick, do_GC | shadow memory (counts at write-back), threads, SOs |
| Shadow memory, "ZSM" (`libhb_core.c`) | direct-mapped write-back cache over compressed lines in SecMaps | read, write, apply a state machine, flush, write-back | VTS table, memory state machine |
| libhb interface (`libhb.h`, `libhb_uka_so_api.h`) | a VtsID per thread and per synchronisation object (SO) | init, create, SO alloc/dealloc/send/recv/join/extract, range_new, range_noaccess, copy_shadow_state, maybe_GC | VTS table |
| Memory state machine, three builds: standard (`libhb_core.c`), ukas (`libhb_ukas_*.h`), ukal (`libhb_ukal_*.h`) | a shadow value per location: state, VtsID, lockset | msm_read, msm_write | timestamps and locksets of the accessing thread |
| Lock bookkeeping (`hg_main.c`, `hg_lock_n_thread.c`) | `map_locks`, a Lock per address (kind, heldW, bag of holders), locksetA and locksetW per thread | the mutex and rwlock events | state machines (locksets), order graph |
| Lock acquisition order graph (`hg_main.c`, `laog__...`) | links in both directions, exposition | acquire, delete, search | lock bookkeeping |
| Spin-lock detector (`hg_main_inc.c.h`) | a SpinLock record per address | onSpinRead, onSpinWrite, onExitSpinLoop, exit of a thread | state machine of ukas, locksets |
| Condition variables, semaphores, barriers, thread life cycle (`hg_main.c`) | tables from addresses to SOs and waiters | the corresponding events | libhb interface |
| Lost-signal detection (`hg_lsd.c`) | states per condition variable | signal, wait, read, write events | libhb interface |
| Loop detection (`hg_loops.c`, `hg_cfg.c`, `hg_dependency.c`) | control flow graphs of code blocks | analysis at instrumentation time | marks accesses as spinning |
| Word sets, interval unions (`hg_wordset.c`, `hg_interval.c`) | hash-consed sets, sorted intervals | set algebra | locksets, lost-signal detection |
| Conflicting-event map (`libhb_core.c`) | last accesses per address | bind, find | error messages |

What is hard to get right, and hard to test:

* VtsIDs are reused after a collection, while results are cached under VtsIDs
  and shadow values sit in a cache whose contents are deliberately not counted.
* A shadow value is one or two timestamps and a lockset; whether that is enough
  to judge the next access depends on the whole path that led there.
* The tool's view of a lock lags behind the client's; clients misuse locks and
  reuse their memory.
* The loops over two sorted arrays run off the end of either one first.
* A range of shadow memory is partly in the cache and partly not; a compressed
  line that does not compress any more moves to another array and back.
* The records of the spin-lock detector are keyed by address and ThreadId, both
  of which are used again while the records stay.
* A synchronisation call is reported before or after the library does it, and
  another thread's call, report, signal or timeout can come in between; a
  pthread_t is used again before the join of its last owner is reported.
* A signal that comes before the wait leaves no trace in the library, yet it
  orders the threads.

For each part the properties that make it correct are the ones of section 4.
The full list, by source line, is under `hazards` in `PROJECT.json`.

## 2. Modules

| Module | Models | Built on |
|---|---|---|
| `Threads` | the set of threads | |
| `VectorTS` | timestamps as functions from threads to times: tick, join, cmp | `Threads` |
| `VtsArray` | the same operations on the arrays the code has, one loop round per step | `VectorTS` (reference) |
| `LibhbClocks` | what libhb promises: a timestamp per thread, SO and cell, no VtsIDs. An abstract specification | `VectorTS` |
| `VtsTab` | the VTS table, reference counts, caches, GC and the write-back cache below every libhb operation. The implementation | refines `LibhbClocks` |
| `VtsTabUkal` | the same with ukal's ShM shadow values | `VtsTab` |
| `FlatShadow` | what shadow memory promises: one value per byte. An abstract specification | |
| `Zsm` | shadow memory as it is: cache lines as trees, Z and F lines, ranges and copies that go past the cache | compared with `FlatShadow` |
| `MsmEnv` | the client as a state machine sees it: clocks, SOs, locksets | `VectorTS` |
| `MsmHist` | ghost history of accesses and the judgements made from it | `MsmEnv` |
| `MsmStd`, `MsmUkas`, `MsmUkal` | the three memory state machines | `MsmHist`; `MsmUkas` refines `LibhbClocks` |
| `LockN` | the Lock record and its operations | `Threads` |
| `Laog` | the order graph as operators on a record | |
| `HgLocks` | lock bookkeeping with the external libpthread | `LockN`, `Laog` |
| `SpinLock` | the detector of locks among spin variables, with the part of loop tracking, shadow states and clocks that it touches | `LockN` |
| `HgThreads` | creation, exit and join of threads; ThreadIds and pthread_t values | `LibhbClocks` |
| `HgSem`, `HgBarrier`, `HgCond` | semaphores; barriers; condition variables with lost-signal detection | `HgThreads` |
| `HgSync` | the composition of the four above over one pool of SOs and one set of clocks | |
| `IvUnion` | unions of intervals (`hg_interval.c`) | |
| `MC...` | constants, symmetry and scope for TLC; `MCStructures` takes `VtsArray` and `IvUnion` together | |
| `..._proofs` | theorems and proofs; `HgSync_proofs` has those of `LibhbClocks` as well, `Structures_proofs` those of `VtsArray`, `IvUnion`, `SpinLock` and `Zsm` | the module of the same name |

How state and actions correspond to the code, where it is not evident from the
names (definitions keep the names of the source; `map` in `PROJECT.json` gives
the lines of each):

* **VtsTab.** The table is one record `vt`, so that a libhb function that makes
  several calls on the table is the composition of the calls, in the code's
  order. An action is a whole libhb function. `line` is the backing store,
  `tags0` and `lyns0` the cache. `libhb_maybe_GC` is enabled exactly under the
  code's condition (no free entry, table at the threshold), flushes the cache,
  counts, sweeps, rebuilds the free list, invalidates both result caches and
  sets the next threshold. There is one cell per cache line here; what is
  inside a line is in `Zsm`. `hash_VtsIDs` is the
  code's rotation and XOR, written as an addition because the two rotated values
  share no bit while VtsIDs stay below 64.
* **LibhbClocks** keeps the timestamp that a VtsID names. The refinement mapping
  of `VtsTab` looks VtsIDs up in the table, and cells in the cache first and
  then in the backing store. A VtsID that was collected too early maps to no
  timestamp, so `ImplementsClocks` fails on any dangling use.
* **MsmUkas, MsmUkal, MsmStd.** `msm_read` and `msm_write` are functions from the
  old shadow value to the new one, as in the code; `Read` and `Write` are whole
  handlers, with the timestamp of the thread, the report and the locksets. An
  access has a kind: plain, atomic (LOCK-prefixed), spinning, or attributed to a
  detected spin lock; the kind is an input here. `SpinLock` has the records from
  which the code decides that a variable is a lock. A write to a spin variable of ukas may
  change locksets through `HG_(onSpinWrite)`, which is modelled by its effects.
  `hist`, `race`, `lastW` and `hbRace` are ghosts: what a judge outside the tool
  would remember. A second access by one thread with one timestamp, one lockset
  and one kind is the same element of `hist`.
* **MsmStd** has one timestamp per thread where the code has viR and viW, which
  differ only after a weak send; `MsmEnv` sends strongly.
* **HgLocks.** A lock call is three steps: `LOCK_PRE` (tool), `Grant` or
  `TryFails` (libpthread, external), `LOCK_POST` (tool). An unlock is two:
  `UNLOCK_PRE` (tool), `RealUnlock` (external). Other threads run in between. A
  failing `tl_assert` sets `aborted`, after which nothing happens, as when the
  tool exits. `order` is a ghost.
* **Zsm.** The sizes are parameters: a line is one tree of 2^Depth bytes, Depth 1
  to 3 (the code: trees of 8 bytes, eight to a line), a Z line names DictSize values (the code: 4), and
  one SecMap stands for all. `descr` is the set of nodes that carry a value. An
  access of 1, 2, 4 or 8 bytes, aligned or not, is one action, with the pull-down
  and the normalisation that the code does on the way; so are the range
  operations, each with its part before, in and after whole lines. The functions
  for the four widths are the code's, one calling the next smaller twice in its
  slow case; a loop over a range is a recursive function of the number of pieces
  done. `Access`
  applies any function of `Msm`. Every action takes the corresponding step of
  `FlatShadow` along in `flat`. `rc` adds up the calls of rcinc and rcdec.
* **SpinLock.** The client is external: test-and-set locks and one-shot flags,
  waited for in loops that the analysis has a code block for, or none
  (`EmptyLoop`). A timestamp is the set of flags whose setting happens before it.
  `blame` is a ghost that notes, per address, what can lead the detector astray:
  two overlapping attempts, a loop without code block, a wait given up, a loop
  left by a return, memory used again. The write that `ExitOne` makes up for a spin
  variable that is no lock goes by the shadow state it finds, as any write
  (`plain_write`).
* **HgThreads and the modules above it.** A call is the report before it, the
  library's own step (external) and the report after it, as in the wrapper, with
  other threads in between. `hit` is a ghost that notes the unusual things that
  have happened (constant `Allowed`): a pthread_t reused before the join was
  reported, a join of the main thread, a semaphore above the tool's maximum, a
  barrier of zero threads, used by too many, or initialised again while in use, a wait with an invalid
  mutex or a failing one, a cond destroyed while a woken thread has not
  returned, a waiting loop left without its exit being seen, a spurious wake-up. A failing assertion sets `aborted`. `ended`, `joiner`,
  `semPosts`, `semWaiters`, `barReal` and `sent` are ghosts or the library's state.
* **IvUnion.** A union is the map the code has, with every interval under its
  start and under its end; `cover` and `grew` are ghosts.

## 3. Bounds, symmetry, fairness, deadlock

Every bound is a named constant in a guard, or the operator `Scope` of an MC
module, used as a TLC constraint. A scope restricts which states are explored
further and says in one place which combinations the run leaves out; states
just outside it are still checked.

| Bound | Where | Value | Why it is enough |
|---|---|---|---|
| `MaxTick` | own component of a thread | 2, 3 | two segments per thread are what it takes to be before, after or unordered with another thread's two |
| `MaxTab`, `FirstGCAt` | VTS table | 4, 2 | entries are freed and their ids given away again, both with a full and with a growing table |
| `NCache`, `NWay` | result caches, shadow cache | 1 | every two pairs of VtsIDs collide in a slot and every two cells in a way: the worst case for stale entries and evictions |
| `MaxHist` | different accesses in the history of a location | 4 to 6 | every pair of states of the machines is connected by that many accesses; the theorems of section 5 have no such limit |
| `MaxHold` | holds of one lock by one thread | 2 | tells recursive from single |
| `Depth`, `NLine`, `NWay`, `DictSize` | Zsm | 2, 3, 1, 1 | a line has two levels above bytes, a range has a first part, a whole line and a last part, every other line evicts, and two values already need an F line |
| `MaxOps` | Zsm, mode "long" | 2 | any two operations on three lines; mode "all" has every sequence of aligned accesses to two lines, with selected ranges |
| `NAddr`, three threads | SpinLock | 1 or 2 | a holder, a waiter and an intruder on one variable (mode "one"); two threads whose loops share a code block over two variables (mode "two") |
| `MaxTick`, four threads, four SOs, two pthread_t | HgSync | 5 | a ThreadId and a pthread_t change their owner while a third thread looks on |
| `SemMax`, `RecMax`, `AccMax` | HgSync | 1, 2, 1 | the code's 10000 units of a new semaphore, 8 recorded signals and 100 recorded accesses, so that each limit is reached |
| `MaxCount` | HgSync | 2 | a barrier with two seats and three threads |
| `MaxAddr` | IvUnion | 8 | room for three intervals that do not touch |
| `MaxTym`, `Thr = {1,2,3}` | VtsArray | times 1, 2 | arrays of length 0 to 3, with a thread first, last, between, absent, in one array or in both |

The theorems hold for every value of `MaxTick`, `MaxHist`, `MaxTab`, `NCache`, `NWay`,
`MaxHold`, `SemMax`, `RecMax`, `AccMax`, `MaxCount`, `NAddr` and `MaxAddr`, for any threads and
loops in `SpinLock` and any arrays in `VtsArray`, and for behaviours of `HgSync` in
which all kinds of objects and of unusual things meet, so there the bounds restrict nothing that was forgotten.

`MsmUkas` and `MsmUkal` are explored in the union of two scopes: two threads with
locks and all kinds of access, and three threads with an SO and plain accesses.
`VtsTab`: shadow memory with one SO and three entries, or two SOs and four
entries. `HgLocks`: the scope in `MCHgLocks` says how misuse, the number of locks
and the number of threads are combined. `HgSync`: a behaviour is about threads
that come and go, or about one family of objects; at most one unusual thing
happens in it, and the number of sends is bounded; the levels of lost-signal
detection above 0 have two threads, and level 1 has a second mutex, so that a
loop can wait for one cond with two. `SpinLock` in mode "two": at most one kind of
mishap.

Symmetry: threads other than the root, locks, SOs, pthread_t values, and cells
(with one way the line number does not matter) are interchangeable. No run with
symmetry checks liveness.

Fairness: only `Structures` has any, weak fairness of the next step of
`VtsArray`. A C function that has been called keeps running; the tool is
sequential. The client is under no obligation to do anything, so the other
modules have none.

Deadlock is checked except in `Structures`, where a function returns, in `Zsm`,
whose mode "long" ends after `MaxOps`, and in `HgLocks` and `HgSync`, where client
threads can really deadlock or end, the tool can abort, and ticks run out.

## 4. Runs

| Run | Result | What it shows |
|---|---|---|
| `VtsTab` | holds | A timestamp has one VtsID and back (`HashConsed`), the free list is exactly the free entries in the order the sweep left them, cached results are true of the table as it is now (`CachesCoherent`), counts are exact for what is counted (`RefsExact`), and the whole implements `LibhbClocks`; a VtsID in use that had been freed would break that. |
| `Structures` | holds | Results of the loops over arrays denote what `VectorTS` says, the order of `vts_set` is total and antisymmetric, every call returns; and an interval union holds exactly what was added, in intervals that do not meet, and says truly whether it grew (`IvUnionExact`). |
| `Zsm` | holds | The nodes with values cut a line up (`TreesSane`, which the code checks only when `CHECK_ZSM` is set), every F line in use belongs to one Z line and reference calls add up to what the store holds (`StoreExact`), and nobody can tell shadow memory from one value per byte (`ImplementsFlat`). |
| `MsmUkas` | holds | Consistent locking is never reported (`LockedIsSilent`), nor are accesses that synchronisation orders (`OrderedIsSilent`); a report is about a real disorder; the timestamp kept covers the last write when no locks are involved; and the machine moves timestamps only as `LibhbClocks` allows (`UsesClocks`). |
| `MsmUkal` | holds | The first three of these for ukal, and that the forgiving states ExclRW and ShM2 judge by an access that was made (`SecondChanceIsReal`). |
| `MsmStd` | holds | The pure happens-before machine reports a location if and only if it has had two conflicting unordered accesses (`FirstRaceExact`); and after a race its constraints still tell an unordered conflicting access when it comes (`LaterRacesFound`). Two reads may then be reported as well, because a racing read constrains later readers. |
| `SpinLock` | holds | The three places that say who holds a spin lock agree; a hold is real and an acquisition is seen, and a flag's edge arrives, except after the mishaps that each property names. |
| `HgLocks` | holds | Locksets and holder bags agree, the tool never credits a thread with a lock it does not hold, a client without fault gets no complaint about an unlock, and the paths of the order graph are exactly the acquisition orders seen between locks that still exist, also those through deleted locks. |
| `HgSync` | holds | The edges POSIX promises are there: join after exit, sole waiter after all posts, leaving a barrier after every arrival, woken after signal. A semaphore's stack has one SO per unit, a barrier's list is, while the tool runs, who is there, no SO leaks or is shared. A waiting loop at level 1 is left ordered after a lost signal. The tool's assertions fail only after the misdeeds that `FailuresHaveCauses` names. |
| `HgLocks_rwlock` | violated | `tl_assert(!lock->heldBy)` (`hg_main.c:1425`) fails when one of two readers of a rwlock unlocks. |
| `VtsTabUkal_shm` | violated | ukal's `SVal__mk_ShM` drops the VtsID, so the value names VtsID 0; after a collection of entry 0 its write-back fails the assertion in `VtsID__rcinc`. |
| `HgSync_bogus` | violated | A second `pthread_cond_wait` with a mutex that the caller does not hold fails `tl_assert(thr->waiting == False)` (`hg_lsd.c:1800`), since the first one was refused and left the flag set; `tests/tc23_bogus_condwait.c` makes four and expects the tool to go on. |

Every module has a type invariant, and `LibhbClocks` and `MsmStd` have properties
that no run repeats because section 5 proves them: `OwnComponentIsGreatest`
(nobody knows more of a thread's time than the thread), `ClockNeverMovesBack`,
`SendSeparates` (what follows a send is not covered by what was sent; this is why
comparing timestamps decides happens-before), `ConstraintsSane`.

Each property of a passing run has a mutant, a plausible mistake in one
definition, under which TLC finds it violated. The mutants are the operators
marked "Mutant" right before the definition they change.

Seen while modelling and not made a run: with `LIBHB_LOCK_INCUDED_HB` undefined
(`libhb.h:37`) handing over a lock moves no timestamp, so the standard machine,
which has no locksets, does not know of mutual exclusion. After a racy read
the standard machine constrains later reads as well (`libhb_core.c:3728`). A
write that empties the lockset in ukal's ShR is silent, although the comment
says "complain" (`libhb_ukal_core.h:716`). A Lock record keeps its kind when its
memory is reused without destruction, and a recursive acquisition is then put
down to a bug in libpthread. `laog_exposition` has no entry for an order that
was found through a path (`hg_main.c:3473`).

A location whose conflicting accesses are all ordered can be reported by ukas,
because a read in state ShM leaves its own timestamp (`libhb_ukas_core.h:472`);
the manual says that two reads are never checked (`docs/hg-manual.xml:552`). The
timestamp that a spinning read takes over is not that of the last write when
that write was unordered and under a lock; the comment at
`libhb_ukas_core.h:305` supposes it is.

`LIBHB_WRITE_N` is defined as `zsm_apply_range___msm_read` (`libhb.h:114`), so
writes of other sizes than 1, 2, 4 and 8 bytes, and those by system calls, count
as reads, and `zsm_apply_range___msm_write` is never called. `ivUnionIntersect`
has no caller that runs (`hg_loops.c:1661`).

The exceptions in the properties of `SpinLock` and `HgSync` are needed: without any
one of them TLC finds a behaviour that breaks the property (for
`BarrierSynchronises`, which shares `Disturbed` with `WaitingIsPresent`, the barrier
of zero threads is not). With two overlapping attempts the
second acquisition is missed; a thread that gives up waiting is taken for the
holder; a loop left by a return keeps the thread spinning. A pthread_t used again
before `PTHREAD_JOIN_POST`, or a join of the main thread, fails an assertion or
orders the wrong threads; a barrier of zero threads fails an assertion; a cond
destroyed before the woken thread returns loses the edge; an exit of a waiting
loop that is not seen leaves `in_waiting_loop` set; a loop that waits for one cond
with two mutexes fails an assertion of the detector (`hg_lsd.c:1024`, `hg_lsd.c:1818`).

## 5. Proofs

TLAPS checks every step; nothing is assumed but the named assumptions on the
constants, which TLC evaluates in the runs: the root is a thread, `NoVTS` is no
timestamp, `NoRace` is no access, the invalid VtsID is no index of the table,
bounds are natural numbers, kinds of access are among the four. Threads, SOs,
locks and locations are arbitrary sets; where references are counted (`VtsTab`)
threads, SOs and cells are finite in number, and in `HgSync` threads, SOs and conds
are and there is a pthread_t. The threads of `VtsArray` are numbers and its arrays are sane,
as `is_sane_VTS` demands; in `SpinLock` "none" is no thread, loop or record, and the
mutex has no address of a spin variable.

* `LibhbClocks`, in `HgSync_proofs`. Lemmas on tick, join and leq; `ClocksType`; then
  `OwnComponent` by the inductive invariant `Bounded`, the property said of
  threads, SOs and cells one by one, which is inductive together with the type
  invariant. A join of two bounded timestamps is bounded, a tick moves the one
  component that bounds everyone else's. `NeverBack` and `SendsSeparate` are
  action properties that follow from it.
* `MsmHist_proofs`. What the three machines share: a step of the environment
  keeps types and moves no clock back (`Forward`), and every access in a history
  lies in the past of its thread (`HistPast`).
* `MsmUkas_proofs`. `UkasType`. `LockedSilent` by `LockInv`: if a lock was held at
  every access so far, the shadow value is not Race and, in a shared state, its
  lockset contains the lock; the property alone is not inductive because it says
  nothing of locksets. `OrderedSilent`, `ReportsUnordered` and
  `LastWriteIsCovered` by `HistInv`, which ties the one timestamp of a location
  to its history: it is the timestamp of an access that was made, of a write in
  the written states while nothing raced, and without locks it covers the last
  write. `MachineUsesClocks` is the refinement of `LibhbClocks`: `ReadClocks` and
  `WriteClocks` say, for the transition functions alone, which of the abstract
  operations an access is.
* `MsmUkal_proofs`. The same argument for ukal: `LockedSilent`, `OrderedSilent`,
  `ReportsUnordered`, and `SecondChances`, for which the invariant also says of
  the forgiving states that their timestamp is that of an access in the history.
* `MsmStd_proofs`. `StdInv` says, whatever has raced, that the writers' constraint
  covers every access and each of its components comes from one of them, and that
  the readers' constraint covers every write; `LaterRacesAreFound` and
  `ConstraintsAreSane` follow. For `FirstRaceIsExact` it says as well that the
  readers' constraint is itself the timestamp of a write while nothing raced
  (`WriterKnown`): then comparing with the constraints is comparing with every
  conflicting access.

* `HgLocks_proofs`. `OrderGraphIsExact` by `GraphInv`: successors and predecessors
  mirror each other and the orders are the transitive closure of the edges,
  stated by closed sets so that no induction over paths is needed; adding the
  edges of an acquisition and bridging a deleted lock keep that. `LocksetsAgree`
  together with the types. `ToolNeverAhead` and `NoFalseComplaints` need to know
  where each thread is between the library's step and the report of it: the
  client's holds are those the tool knows plus those in between (`ClientInv`),
  while no lock has been misused.
* `VtsTab_proofs`. The invariant `Inv`: the table, its set, its free list and its
  caches are sound (`TabOK`); every VtsID that a thread, an SO, the backing store
  or a valid way of the cache holds is in use; counts are those of the holders.
  None of the properties is inductive by itself: the collector spares only what
  is counted, so counts must be exact for entries in use to stay in use, and
  cached ids are not counted, so they need a reason of their own to survive
  (the collector flushes the cache first). Inside an operation references are in
  motion; lemmas on the balance of counts (`Keeps`, `Transfer`) carry `TabOK`
  from call to call. `TableIsHashConsed`, `FreeListIsExact`,
  `ResultCachesAreCoherent` and `ReferencesAreExact` follow, and
  `TableImplementsClocks`, the refinement: a step of the table is the abstract
  operation on the timestamps that the ids stand for.

* `HgSync_proofs`. Everything `HgSync` checks, for the composition. All of it rests
  on `Base`: the types, every live SO has one holder and every holder a live SO
  (`Holding`, from which `EverySOHasOneHolder`), and what the SOs hold (`Stamped`: a
  cond's SO has exactly the join of what was sent since the last destruction).
  With it goes `Onward`: no step of any handler moves a clock back. The SOs that a
  handler takes are a choice from the spare ones, so lemmas on finite sets say
  that the choice exists and differs from call to call.
  Semaphores (`SemInv`): the length of a stack is the number of units, plus the
  posts that are reported and not made, plus the waits that are made and not
  reported; and a post is still on the stack or known to a thread that took it.
  The property alone says nothing of the calls that are under way.
  Conds (`CondInv`): a waiter that was woken by a signal finds at least that
  signal in the cond's SO (`WakeInv`); the detector knows who is in a waiting loop
  and the conds noted go with one mutex each (`LoopInv`); it knows who waits and
  which mutexes are held (`WaitInv`); each until the misdeed that would break it.
  Joins (`JoinInv`): the tool finds by ThreadId the threads that run and by
  pthread_t the ones that are not joined, and between the join and its report the
  pthread_t is nobody else's.
  Barriers (`BarInv`): either the threads at the barrier are those on the list,
  which have not moved since they were put there (`Gathering`), or the list was
  emptied and they all have the common timestamp but the real barrier has not let
  them go (`Released`). Neither half is inductive alone: the tool releases at the
  report of the last wait, the library later and in another order.
  `FailuresAreCaused` puts these together with `RoomLeft`: a barrier's list is never
  full.

* `VtsArray`, in `Structures_proofs`. `LoopsComputeTimestamps` by `ArrInv`: the arrays are
  sane, and what has been built or found so far is what the function should give
  for the threads below the front of the merge, which is the lower of the two
  heads (`JoinInv`, `CmpInv`; in `TickInv` the front is the ticking thread). The
  property speaks only of the end. `TreeOrderIsTotal`: the
  structural order looks at the first place where two arrays differ, and two sane
  arrays for one timestamp differ nowhere.
* `IvUnion`, in `Structures_proofs`. `UnionsAreExact` by `IvInv`: each map is a union
  (`IsUnion`: an interval is there under its two ends and under no other key, and no
  interval meets another) of the addresses that were added (`Covers`). `AddLemma`
  says so of one addition: the first loop, although it begins in the middle and may
  stop early, finds all the intervals that the new one meets, or one that has it
  (`ScanLemma`), and those that stay are apart from what they are replaced by.
* `SpinLock`, in `Structures_proofs`. The calls of the tool are functions from state to
  state, and what each may do at one address is a lemma of its own. `ToolInv`: the
  records of one address agree, with one holder at most, and with none if the
  variable is known to be no lock (`Coherent`); `SpinRecordsAgree` follows, and
  `VerdictIsFinal`: a variable once found to be no lock stays so, whatever is done
  (`NotALockIsFinal`, which is proved and has no run). The loops of the exit handlers
  over all records are recursive functions; `ChainOf` shows that such a function exists for any bound, by the least number for
  which it would not, and `Induct` carries a property along it.
  `HeldLocksAreReal` by `HoldInv`: the tool knows the loop a thread is in unless a
  return has led it astray (`ThreadInv`), a thread that got its lock has it
  (`GotInv`), a record names the loop that waits for its address (`SpInv`), and the
  last writer of a record is a thread in that loop (`WriterInv`); holders come from
  last writers when a loop is left, so the property is not inductive without it.
  `AcquisitionsAreSeen` and `FlagsHandOver` by `FullInv`, which adds that a holder who
  is not known yet is in the loop whose exit will make it known (`SeenInv`), and
  that a flag never counts as a lock, so that its value carries its setter's
  timestamp (`FlagInv`).

* `Zsm`, in `Structures_proofs`. `ZsmInv` is three things. Of the store (`StoreOK`): every
  F line in use has one Z line and the other way round (`Owned`), and the count of a
  value is the number of places that refer to it, each byte of an F line and the
  first byte of a Z line that has the value (`RcExact`). Of the cache (`CacheOK`): a
  tag belongs to its way, and the nodes of a tree cut its line up (`TreeOK`). Of both:
  `flat` has for each byte what the cache or, failing that, the store has (`ByteOf`).
  The three need each other: a write-back is right only if the tree gives each
  byte one value, and a range that goes past the cache only if no other way can
  have the line. Overwriting a line in the store changes the contents of no other
  (`Overwritten`), so a write-back and a fetch keep the contents of all
  (`WroteBack`, `Fetched`). `Changed` says of two states that exactly the bytes of a
  set went through a function; it is proved of one node of a tree, and composes
  over the halves of an access, the pieces and lines of a range and the bytes of a
  copy, with `ChainOf` and `Induct` for the loops. `TreesStaySane`, `StoreStaysExact` and
  `ZsmImplementsFlat` follow. Assumed of the constants: Depth is 1, 2 or 3, sizes and
  lengths of ranges are positive, and `Invalid` is no value and no line of values.

Only model-checked: termination in `VtsArray`, which is liveness. Every invariant and
action property of the passing runs is stated by a theorem.

## 6. Not modelled

* The analysis of code blocks in `hg_loops.c`, `hg_cfg.c` and `hg_dependency.c` and
  the look-ahead of `hg_lsd.c`. Its input is machine code in VEX's intermediate
  language. Its outcome (which accesses spin, which loops wait) is an input of
  the models; the calls that the instrumented code makes at run time are in
  `SpinLock` and `HgCond`. `evh__signal`, which notes signals that only look-ahead
  has seen, goes with it.
* Word sets: TLA+ sets. `ivUnionCompare` and the hash order tables only.
* The conflicting-event map: it decides the wording of a report, not whether
  there is one.
* viR and viW of the standard build are one timestamp, since weak sends are left
  out. `HG_(onMSM)` only logs.
* Error messages, suppressions, logging, annotations, OpenMP support and the
  wrappers, except for the order of their reports and the library's calls.
* Valgrind's core, VEX and the other tools: the framework that helgrind+ runs in,
  most of the lines of the repository, which helgrind+ did not write. The models
  use three things of it: a handler is not interrupted, the scheduler may switch
  threads between any two, and ThreadIds are reused.

## 7. Plan

The modules above are in place. What is left, in this order:

1. The criterion for spin loops (`hg_loops.c`) and data dependencies
   (`hg_dependency.c`) as algorithms on small control flow graphs, against a
   definition of a loop that only waits.
2. Weak sends and with them viR and viW of the standard build.
3. The conflicting-event map.
