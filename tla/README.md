# A TLA+ model of safe-shm

safe-shm is a header-only C++ library of shared-memory primitives for one
machine: a seqlock, a cyclic buffer with one seqlock per slot, a futex mutex, a
double-buffered loader with a background thread, searches over the cyclic buffer,
a producer/consumer slot with semaphores, and helpers for the life of a segment.
This directory models them, checks the models with TLC on small instances and proves
the main results with TLAPS for every size. Paths below are relative to `include/safe-shm/`.

## Inventory

| component | state | operations | what makes it correct |
|---|---|---|---|
| Seqlock (`seqlock.hpp`) | 32-bit sequence and payload in shared memory | `store`; `load`, `load_blocking`, `sequence` | loads are whole and current; blocked readers wake up; loads end |
| Cyclic buffer (`cyclic_buffer.hpp`) | 64-bit `total_writes`, per slot a 32-bit sequence and an element | `insert`; `get_latest`, `get`, `try_get`, `available`, `total_writes`, `wait_for_write` | reads return one whole element, the one asked for or a newer one; `try_get` is wait-free; waiters wake up |
| ShmLock (`shm_lock.hpp`) | one word in a named file | constructor, `lock`, `unlock`, `destroy` | mutual exclusion; no lost wakeup; somebody always gets the lock |
| SwapRunner (`swap_runner.hpp`) | `triggered_`, `idle_`, a stop token, a thread | `trigger`, `wait`, destructor | every trigger gets a task; `wait` and the destructor return |
| Double buffer (`double_buffer_swapper.hpp`, `dblbuf_loader.hpp`, `image_shm.hpp`, `snapshot.hpp`, `storage.hpp`) | shared value, private buffer, `stage_`, published pointer | `store`; `load`, `wait`, `Snapshot::operator*`, destructor | what is read after `load` and `wait` is whole and fresh; nobody hangs |
| Time series (`time_series.hpp`) | none (reads the cyclic buffer) | `find_closest`, `find_interpolation_pair`, `get_latest_if_fresh`, overloads for sanitized keys | results are exact when nobody inserts and recent when somebody does; indices stay in range; searches end |
| Key sanitising (`sanitized_key.hpp`) | none | validators, `sanitize` | an accepted key finds an element nearby |
| Producer/consumer (`producer_consumer.hpp`, `src/bindings/nanobind_image_shm.cpp`) | one value, two semaphores; in Python also `image_` and the interpreter lock | `produce`, `consume`; `store`, `load` | items arrive once, whole and in order; nobody waits without a reason |
| Lifecycle (`shm_lifecycle.hpp`) | header with magic, pid, heartbeat | `OwnedShm`, `update_heartbeat`, `is_writer_alive`, `shm_exists`, `shm_remove`, `shm_list` | dead owners are noticed, live ones are not taken for dead |
| `shared_memory.hpp`, `stamped.hpp`, `shm_stats.hpp`, `image.hpp`, `flat_type.hpp`, `config.hpp`, `logger.hpp` | none | records, file sizes, types | |
| Python bindings (`src/bindings/`) | `image_` | wrappers of the above | |

Processes interact only through shared memory, futexes and semaphores. Inside a
process the double buffer's callers and the SwapRunner's worker interact through
atomics. The double buffer uses ShmLock against other processes that `store`; the
time series reads through the cyclic buffer's reader, and its callers validate keys
against elements they have read.

What is hard: copies that race with a writer; the window between checking a
sequence and sleeping on it; counters that wrap; a writer that dies half way; a
lock whose file is removed under its users; a reader that is lapped between
choosing a slot and reading it; a binary search over a buffer that moves; triggers,
tasks and shutdown that overlap; an exception between two semaphores; a process
identifier that is used again.
`PROJECT.json` lists these hazards line by line.

## Modules

| module | models |
|---|---|
| `Register` | abstract: an atomic register with one writer |
| `Seqlock` | `seqlock.hpp`; refines `Register` |
| `SeqlockProofs` | theorems about `Seqlock` |
| `Mutex` | abstract: a lock with one owner |
| `ShmLock` | `shm_lock.hpp`; refines `Mutex` |
| `ShmLockProofs` | theorems about `ShmLock` |
| `CyclicBuffer` | `cyclic_buffer.hpp` |
| `SeqArith`, `CyclicBufferProofs` | arithmetic lemmas, theorems about `CyclicBuffer` |
| `SwapRunner` | `swap_runner.hpp`, its actions only; `DoubleBuffer` has the specification |
| `DoubleBuffer` | the double buffer; composes `SwapRunner` and `Mutex` |
| `DoubleBufferProofs` | theorems about `DoubleBuffer` |
| `SanitizedKey` | `sanitized_key.hpp`, validators as sets of keys |
| `TimeSeries` | `time_series.hpp`; uses `SanitizedKey` |
| `TimeSeriesProofs` | theorems about `TimeSeries` |
| `Channel` | abstract: a one-place channel |
| `ProducerConsumer` | `producer_consumer.hpp` and its Python twin; refines `Channel` |
| `ProducerConsumerProofs` | theorems about `ProducerConsumer` |
| `ShmLifecycle` | `shm_lifecycle.hpp` |
| `ShmLifecycleProofs` | theorems about `ShmLifecycle` |

**Granularity.** One shared-memory access, futex call or atomic operation is one
step. `memcpy` is one step per word, in any order. A payload or element is a
function from words to the number of the store that wrote the word, so a copy is
torn exactly when two words differ and stale when the number is too small. The
split classes (`SeqlockWriter`, `SeqlockReader`, ...) and the combined ones have
the same code and are the same actions.

**Counters.** `Seqlock!ver` and `CyclicBuffer!sver` are unbounded history
counters. The code sees `Seq(v)`, the low bits (`SeqMod` is 2^32 in the code, 4 or
8 in the runs); every comparison the code makes is on `Seq`. The parity test is on
the counter itself, which is the same since `SeqMod` is even.

**Seqlock.** `StoreBegin`, `StoreOdd`, `StoreWord`, `StoreEven`, `Wake` are the
five accesses of `store()`. `Load`, `LoadBlocking` enter the calls; `ReadBefore`,
`CopyWord`, `ReadAfter`, then `Return` or `Retry` are one attempt; `FutexWait`,
`Timeout`, `Interrupted` are the outcomes of the system call. `Crash` ends the
writer anywhere, `Restart` is the constructor of a new writer. `InOrder` selects the
machine: program order (x86-64), or only the order that acquire and release give
(ARM64), under which words may be written before the odd sequence and read after
the second check. `Restart` looks at nothing, as the constructor does. If it finds the
sequence odd, the new writer makes it even while it writes and odd afterwards; the history
variable `spoiled` records that. The safety properties name it, and a wrap of the sequence
during one attempt (`WrappedRead`), as their only exceptions.

**ShmLock.** Files are numbered; `name` is the file the name stands for and `map`
the file each user has mapped. `Open` opens or creates, `Unlink` removes the name
and leaves mappings. `Exchange` is the atomic exchange of both paths of `lock()`.
With `DestroyAlone`, `destroy()` is called only by a user who is alone; that is a
precondition too (the destructors of the double buffer do not respect it, run
`lock_destroy`).

**CyclicBuffer.** Element k is the k-th insert. A reader loads `total_writes`
(`Locate`), fixing the element it wants and its slot, and reads the slot later; in
between the writer may lap it. `Failed`, `Retry`, `GiveUp` are the retry loop of
`try_read_slot`, `Retry` alone that of `read_slot`. Only x86-64 order is modelled.
`Crash` ends the writer anywhere in `insert()`, `Restart` is the constructor of a new
one, which looks at nothing. If the slot it writes next was left odd, that slot's parity
is inverted for good; the history variable `spoiled` collects such slots, and the
properties say that the damage stays in them. A crashed insert and the one that replaces it
have the same number; `slife` and `rlife` keep the life of the writer that wrote each word
as well, so a mixture of the two counts as torn.

**SwapRunner.** The worker's `run` goes through the statements of `run()`.
`std::atomic::wait(0)` is a step enabled when the value is not 0. `Register` is the
construction of the `stop_callback`, which calls back at once when stop was
requested already; `StopCallback` is the call by `request_stop()`. `RequestStop`, the
destructor, may come at any time, also while callers are in `wait()`: the worker's last
statement, `idle_ = 1`, is there for them. The object's memory is assumed to stay readable until
they have left.

**DoubleBuffer** shares `SwapRunner`'s variables and takes its actions, with the
task spelled out: lock, `swap()`, publish, unlock. The lock is `Mutex`, which
`ShmLock` implements; `lock_.destroy()` at the end of the destructor is `ShmLock`'s subject.
`published` says which memory the published pointer names,
before the first task the shared memory itself. Callers may `load()` at any time, during a
swap, again before `wait()`, or while others read; they may read without `wait()`. Two history
variables say what went on. `clean` holds the caller of the latest `load()` if that found the
worker at rest and no other `load()` under way, and the caller has waited before it read.
`crossed` is set once a `load()` is under way between the worker's clearing of `triggered_` and
its clearing of `stage_`. A task without a stage ends in `task = "abort"`, the assertion
of `swap()`, and with it the process.

**TimeSeries.** One reader and the writer; elements are numbered as in `CyclicBuffer`,
with increasing keys, as the class demands. A `try_get` is two steps: `Locate` loads
`total_writes` and turns the index into an element, and the step that takes the result
gets what the slot holds by then, or nullopt if the writer has come round to the slot.
That these two steps are what `CyclicBuffer` promises is `ReadsElement` and
`FailsOnlyIfLapped` there. `insert()` is three steps (odd, even, published). One action
per `try_get` of the code: `Narrow`, `Best`, `Prev`, `NextElem` for `find_closest`, `Scan`
for its fall-back; `Newest`, `Oldest`, `PairNarrow`, `After`, `Before` and `PairScan` for
the pair; `Fresh` and `Latest`. Subtractions of keys wrap at `MaxKey + 1`. A caller with a
`SanitizedKey` has validated it against the latest element it saw.

**ProducerConsumer.** `produce`/`store` and `consume`/`load` are wait, copy word by
word, post. `binding` is fixed in `Init`: all use the C++ class or all use the Python binding.
With the binding, `Threads` are threads of one interpreter that share an object (`Interp`): they
take the interpreter lock at the call (`Enter`) and keep it until the return, as the
binding does not release it, also while they wait for the semaphore. Without it,
`CallbackThrows` leaves `consume()` before the post. `Crash` ends a process with all its threads.

**ShmLifecycle.** Processes start (`Spawn`), get any free identifier and end (`Exit`)
at any moment, time passes (`Tick`), the name can be unlinked and created again. The
constructor stores magic, pid and heartbeat one by one; `is_writer_alive` reads them one
by one, with `kill` and the clock in between. `Foreign` are processes the reader may
not signal (EPERM); `Signals(0)` holds, as `kill(0, 0)` addresses the caller's own
group. The data, `version` and `reserved` are left out.

## Runs

| run | instance | result |
|---|---|---|
| `seqlock` | 1 reader, 2 words, sequence mod 4, 3 stores, 2 crashes with any restart, fair | refines `Register`; `TypeOK`, `NoLostWakeup`, `ConsistentSnapshot`, `LoadReturns`, `BlockedReaderReturns` hold |
| `seqlock_arm64` | 1 reader, 2 stores, without program order | `ConsistentSnapshot` fails |
| `lock` | 4 users, 2 files, 1 crash, fair | refines `Mutex`; `TypeOK`, `NoLostWakeup`, `LockProgress` hold |
| `lock_destroy` | 2 users, `destroy()` at any time | `MutualExclusion` fails |
| `cyclic` | 1 reader, 2 words, 2 slots, mod 4, 5 inserts, 1 retry, 1 crash, fair | `TypeOK`, `ReadsElement`, `FailsOnlyIfLapped`, `NoLostWakeup`, `LatestAlmostMonotonic`, `TryGetReturns`, `ReadersReturn` hold |
| `cyclic_monotonic` | 1 reader, 2 slots, 4 inserts, no crash | `LatestMonotonic` fails |
| `double_buffer` | 2 callers, 2 words, 2 loads, 1 store, fair | `TypeOK`, `FreshAndConsistent`, `StageLostOnlyByOverlap`, `TriggerIsServed`, `WaitReturns`, `StopJoins` hold |
| `double_buffer_stage` | 1 caller, 2 loads, 1 store | `StageNotNull` fails |
| `time_series` | 4 slots, 6 inserts, every increasing choice of keys in 0..7, every target | `IndexInRange`, `Recent`, `ClosestExact`, `PairExact`, `SanitizedKeyIsNear`, `SearchReturns` hold |
| `time_series_distance` | 2 slots, 3 inserts | `WithinDistance` fails |
| `producer_consumer` | 2 producers, 3 consumers, C++ or Python with one producer and two consumers in one interpreter, 4 items, 1 exception or crash, fair | refines `Channel`; `OneToken`, `ImageWhole`, `Handover` hold |
| `lifecycle` | 2 pids, one of which may not be signalled, 2 segments, 2 processes, 3 instants | `TypeOK`, `DeathIsNoticed`, `LifeIsNoticed`, `HeartbeatForward` hold |

Several properties are exact about failure: they name everything that can go wrong, and
hold because the list is complete. A load of the seqlock differs from one of an atomic register
only across a wrap of the sequence or after a restart over an odd one; it spins for ever only after a writer died
inside `store()`; a stage of the double buffer is lost only when a `load()` overlaps a swap; a
waiter of the lock is stranded only by a death with the lock or on
the way to a wakeup; a live owner is reported dead only if it may not be signalled, its
heartbeat is old, or newer than the reader's look at the clock (the unsigned difference
wraps); items stop flowing only if someone dies, the token is lost in a callback that
throws, or threads of one interpreter block each other.

**Bounds.** Two words are enough to tear a copy. With sequences mod 4, two stores
wrap the sequence and the third goes on after it, so the exceptions for the wrap are reached;
two crashes allow a restart over an odd sequence, by which the parity is inverted, and another
one after it. Readers do not act on each other, so the run has one; that
`FUTEX_WAKE` wakes every sleeper is shown by the theorem `Wakeups`, for any number. Four users of the lock give an
owner, a sleeper, one between exchange and futex and one who barges in. Two slots
and five inserts lap a reader twice, wrap a slot's sequence and make the futex
word equal again while `total_writes` differs; one crash is enough to spoil a slot,
and the inductive invariant was checked with two. Two loads, of one caller or of two, put the
second before, during or after the task of the first, at any of its steps; the store runs
before the first, between the two or during a copy, so a buffer can be torn or one store
behind. (Without liveness, TLC has also been through three loads and two stores.) Four slots give the binary searches two
rounds and neighbours on both sides, six inserts move the buffer under them by two
elements, and eight key values leave gaps of different sizes. Two producers and three consumers
give each kind a competitor outside the interpreter, and the shared `image_` two threads
that load into it. In
`lifecycle`, `MaxStale` is 1, so three instants contain a fresh, a stale and a future
heartbeat; two starts allow an identifier to be used again, or two owners at once, and
two segments the removal of the name under an owner.

**Fairness.** A process inside a call keeps running: weak fairness of its next
step, which any scheduler gives. Nothing makes a caller call, a timer fire or a
signal arrive. For the lock, users leave their critical sections. For the cyclic
buffer only readers are fair; `ReadersReturn` assumes fairness of the writer in its
statement, `TryGetReturns` does not. For the double buffer the worker, its task and
stores go on; that a task ends is shown, not assumed. The searches
of the time series end with fairness of the reader alone. Semaphores and the
interpreter lock are only given weak fairness: `Handover` says that some consumer gets
an item, not a particular one. Stores, inserts and
loads are finitely many (`MaxStores`, ...): `LoadReturns`, `ReadersReturn`,
`WaitReturns` say "once they cease". With endless stores a load may starve; nothing
in the code prevents it. In `double_buffer` the finitely many stores also stand for
the lack of fairness of `lock()`.

**Disagreements.** Five runs show behaviours that contradict a comment, an assertion or a test;
`PROJECT.json` quotes each line.
1. On a machine with only acquire/release order a load can be torn (`seqlock_arm64`).
2. `destroy()` of a lock in use admits a second owner (`lock_destroy`).
3. A lapped reader of the latest element can see an element that is not published yet
   and then the one before it; `test/cyclic_buffer_test.cpp:191` expects that values never
   go back (`cyclic_monotonic`). `LatestAlmostMonotonic` says that they go back by one at most.
4. A second `load()` during a swap has its stage erased, and the assertion of
   `double_buffer_swapper.hpp:35` fails in the task it triggered (`double_buffer_stage`).
   `StageLostOnlyByOverlap` says that nothing else makes it fail.
5. `find_closest` drops `max_distance` in one of its two fall-backs and returns an element
   that is too far away (`time_series_distance`).

Others were met while modelling; the properties above are stated so that they show
exactly where the code stops keeping its word.
6. A writer restarted over an odd sequence writes under an even one (`spoiled` in `Seqlock`
   and `CyclicBuffer`).
7. The pair of `find_interpolation_pair` is read again after the search. With inserts in
   between it need not bracket the target, although `InterpPair` is described as "two
   bracketing elements"; `target - before_key` may then wrap and alpha is far outside
   [0, 1]. `PairExact` therefore asks for a buffer that rests.
8. With `max_stale_ns` = 0 a segment whose owner died before it stored its pid is
   reported alive by `kill(0, 0)`, and so is one whose owner's pid is used again.

## Proofs

All theorems hold for any sets and any bounds that satisfy the modules' `ASSUME`s.

* **`SeqlockProofs`**. `SeqlockInv` = `TypeOK` + `WriterInv` + `ReaderInv`.
  `ConsistentSnapshot` is about the end of an attempt and says nothing of a copy half
  made, so it is not inductive: `WriterInv` says which words in memory belong to the
  last completed store and which to the current one, and that the sequence is odd while
  they are mixed; `ReaderInv` that, as long as the sequence is the one the attempt
  started from, the words copied so far are those of the last completed store. From
  this follow `TypeCorrect`, `Consistency` and `Refinement` to `Register`, in which a store takes
  effect at its even store and a load at the second read of the sequence. They assume `InOrder`
  and nothing about the bounds, the crashes or the restarts: once `spoiled` is set the
  invariant speaks only of types and counters, which is what the properties' exception says.
  `Wakeups` does without `InOrder` too: its invariant follows a sleeper from the even store to
  `FUTEX_WAKE`.
* **`ShmLockProofs`**. `LockInv`: one owner, whose word is 1; all users map the file the
  name stands for; who is in `destroy()` is alone. `TypeCorrect`, `Wakeups` and
  `Refinement` (to `Mutex`) follow, assuming `DestroyAlone`.
* **`CyclicBufferProofs`**. `CyclicInv` = `TypeOK` + `SlotInv` + `WriterInv` +
  `ReaderInv`. `SlotInv` is what a lapped reader relies on: the words of a slot are
  numbers of elements of that slot, at least every published one and at most
  `total + 1`. `WriterInv` ties a slot's parity to the writer's position, for every slot that
  is not spoiled; it also covers a writer that has died inside the slot, whose words are of
  another life than those of the insert that replaces it. `Reads`
  follows with the arithmetic of `SeqArith` (two numbers less than
  `SeqMod` apart with equal residues are equal). `Wakeups` is separate. `Lapped`
  (`FailsOnlyIfLapped`) needs `LapInv` besides: a reader with a failed attempt behind it,
  or whose slot's sequence has moved since it was read, has been lapped already. Its two
  arithmetic facts are that a published element in the writer's slot is `N` behind, and
  that the element `N` behind is in that slot. `Monotonic` (`LatestAlmostMonotonic`)
  adds `LatestInv`: what a reader has returned is at most the element being inserted, and
  what it copies is never older than the element it wants. That needs `SlotInv` and no
  sequence, so it holds for spoiled slots as well.
* **`ProducerConsumerProofs`**. `PCInv` = `Types` + `OneToken` + `WriteSide` + `ReadSide`.
  `OneToken` is not inductive without the other two, which say what each place of the
  token means: in `sem_write`, or with a producer, everything sent has been taken and the
  words already written are those of the next item; in `sem_read`, or with a consumer,
  the image is the last item sent, whole. `Token` and `Refinement` (to `Channel`) follow.
  `Image` (`ImageWhole`) adds `ImageInv`: one thread at most has the interpreter lock, and
  the object's `image_` is whole, or that thread is inside `load()` and the words it has
  copied are those of the last item sent, or the interpreter is dead. The whole item is the
  greatest that any of its threads has consumed; no other thread can overtake it, because an
  item that is being copied is the last one sent.
* **`DoubleBufferProofs`**. Three invariants, one on top of the other, and no assumption.
  `LoaderInv` holds in every execution: the shared memory is whole unless a store has the lock
  (`StoreInv`), the task has the lock from `swap()` to its release and what it has copied is
  the last store (`TaskInv`), and callers are in `wait()` or inside `load()` only where they can be
  (`CallerInv`). `StageInv` holds until `crossed`: whatever will make the worker swap,
  a trigger, its own position or a `load()` on the way to its trigger, there is a stage, and
  none of the three coincides with a swap that is about to clear it. `StageLoss`
  follows. `CleanInv` is about the caller in `clean`: until the swap it asked for, `idle_` is 0
  and `wait()` does not return (`Owed`); after it the private buffer is published, holds one store,
  recent enough for this caller, and nothing will make the worker swap again (`Served`).
  `Snapshots` (`FreshAndConsistent`) follows.
* **`TimeSeriesProofs`**. `SeriesInv` = `Base` + `CallInv` + `ResultInv`. `CallInv` describes
  the locals of a call at every point of the code, twice. `Place` holds whatever the writer
  does: bounds of the search interval within the elements available at the start, and
  elements in hand that are recent. `Exact` holds as long as no insert has run: the keys on
  the newer side of the interval are above the target and those on the older side below it
  (the binary search of `find_closest`), or the ends of the interval bracket the target
  (`find_interpolation_pair`); the linear fall-backs are not reached. `Indices` and `Recency`
  come from the first, `ClosestIsExact`, `PairIsExact` and `SanitizedIsNear` from the second,
  with the fact that with increasing keys the distance to the target falls and then rises.
  All three speak of calls during which no `insert()` runs; with one, they are false.
  They assume increasing keys, which is part of `Init` and a documented demand of the class.
* **`ShmLifecycleProofs`**. `LifecycleInv` adds four parts to the properties. The magic is
  stored first (`MagicFirst`); the header of a segment with one owner names it, and holds a
  heartbeat no later than the one it is about to store (`SoleOwner`); a segment without an
  owner got its last heartbeat while it had one (`Abandoned`); the pid the reader has read is
  that of the owner that stayed through the call (`CallInv`). `Death`, `Life` and
  `Heartbeats` follow. Time is assumed to stay so small that adding `MaxStale` does not wrap,
  which holds for 64 bits of nanoseconds since boot.

Every invariant and every action property that a passing run checks is also proved. Only
model-checked are the properties that need fairness, which is out of the prover's reach:
`LoadReturns`, `BlockedReaderReturns`, `LockProgress`, `TryGetReturns`, `ReadersReturn`,
`SearchReturns`, `Handover`, `TriggerIsServed`, `WaitReturns` and `StopJoins`. The inductive invariants were checked
with TLC on the instances of the runs before they were proved.

## Not modelled

The libraries `shm` and `exception-rt` are external; their `Shm` appears as `Open`,
`Close`, `Opens` and `Unlink`, their `Semaphore` as two counters. Two writers at a time
of a seqlock or a cyclic buffer are excluded, as the comments of `seqlock.hpp` and
`cyclic_buffer.hpp` demand. Details of timeouts (durations) are left out: a timeout may
happen whenever the caller sleeps. `shm_list`, `shm_stats.hpp`, records, types, file sizes
and logging have no behaviour to check, and the wrappers of `nanobind_safe_shm.cpp` add
none. The C++ class names its semaphores `_read` and `_write`, the Python class `_read_sem`
and `_write_sem`: the two cannot talk to each other, so an execution has one or the other
(`binding`).
Benchmarks, examples and fuzz harnesses are drivers of the code above. Weak memory order
is modelled for the seqlock only.

## Plan

1. Proofs: an inductive invariant that no trigger of `SwapRunner` is forgotten, the safety half of
   `TriggerIsServed`.
2. The layout of regions (offsets, alignment of a slot's sequence) as operators with
   theorems.
3. `DoubleBuffer` with a process that dies between lock and unlock of `Storage`.
