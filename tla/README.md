# A formal model of nnabla

nnabla is a deep-learning library: a C++ core (`src/src/nbla`) with a Python layer (`src/python/src/nnabla`). This project
models the parts of the core that decide who owns memory, when data dies, in which order functions run and what a gradient is,
and the parts of the Python layer that decide which samples a training sees, what its parameters become, what it reports and
what survives when it dies.
TLC checks them on small instances; TLAPS proves the allocator correct for every value of its parameters, and what matters most
of the graph engine, of the data iterator, of the training and of loss scaling.

Contents: [1 inventory](#1-inventory), [2 modules](#2-modules-and-how-they-correspond-to-the-code), [3 runs](#3-runs),
[4 disagreements](#4-disagreements-found), [5 proofs](#5-proofs), [6 not modelled](#6-not-modelled-and-why), [7 plan](#7-plan).

## 1. Inventory

| Component | State | Operations | What makes it correct |
|---|---|---|---|
| Memory blocks, caching allocator (`memory/memory.cpp`, `allocator.cpp`, `caching_allocator_with_buckets.cpp`) | the doubly linked pieces of each device allocation, two pools of unused pieces per device, counters | alloc (pool, new, retry after a trim, failure), free with merging, trim of one device or all | pieces tile their segment; pools hold exactly the unused pieces under current keys; a holder's region is its own until returned; an idle device can be given back whole |
| Virtual caching allocator (`virtual_caching_allocator.cpp`) | physical chunks, mapped ranges, waiting lists | alloc in three cases, free | every chunk is mapped once or cached once |
| SyncedArray (`synced_array.cpp`) | arrays per type and context, head, lazy zero/fill, parents and children | cast, get, zero, fill, clear, narrow, destruction of views | a read returns what was written last, by whatever relative and in whatever type; views lie in the memory of their root |
| Computation graph engine (`computation_graph/*.cpp`, `function.cpp`) | ranks, need-grad, reference counts, flags of variables; per call the callbacks' sets | connect, forward, forward_all, backward, recomputation | gradients are exact; a function runs after its consumers in backward; what backward or the caller reads is never cleared; the rest is |
| Swap in/out scheduler (`lms/swap_in_out_scheduler.cpp`) | recorded order, schedule, memory in flight | record, schedule, replay, recover from another order | the budget is kept; no access meets a swapped-out array |
| Data iterator and sources (`utils/data_iterator.py`, `data_source.py`, `data_source_implements.py`) | prefetch thread, queue, position, shuffled orders, caches, slices | next, close, reset, slice | each sample once per epoch, by one slice; nothing lost but for a failed batch; next and close return |
| Training loop and dataset cache (`utils/cli/train.py`, `utils/load.py`) | per rank: iteration, optimizer in turn, costs, gradients, best error; shared: cache directory, checkpoints, report | prepare the cache, update, evaluate, save, resume | reports and updates are whole and on every rank the same; a restart goes on where a checkpoint was; no rank waits alone |
| Collective calls (communicator, CUDA extension) | who waits in which call | barrier, all_reduce | ranks that wait, wait in the same call |
| Solver, dynamic loss scaling (`solver.cpp`, `mixed_precision_training.py`) | parameters and states; scale, counter, recursion count on every rank | set, remove and clear parameters, zero_grad, check, scale_grad, weight_decay, update; the updater's retries | one update per gradient, rescaled by the scale it was computed with; states live and die with their parameters; ranks stay equal |
| Parameter scopes (`parameter.py`) | a tree of dictionaries, the current scope | get/set/pop, nesting | a name finds the parameter it was created as |

Everything else (function kernels, communicators, converters, save/load, command line, monitors, code generators) is listed
in `PROJECT.json` with the reason it is left out.

How they interact: a function's forward and backward read and write SyncedArrays, which take memory from the allocator of
their device and give it back when the engine clears them; the engine asks a function about itself through the virtual
methods of `function.hpp`; the solver reads the gradients' `zeroing` flag to skip parameters backward did not reach; the
scheduler watches every cast, get and clear through a callback; the iterator feeds the leaves. The training loop drives
all of them: it takes batches, runs forward and backward of each optimizer's network, meets the other ranks in the
communicator, and saves.

Hard behaviours: pieces freed in any order (merging), failure inside the retry of an allocation, threads beside the lock,
variables consumed by several functions and calls, in-place arrays with two names, data that is cleared and recomputed,
callbacks that only know the call they belong to, flags and ranks left behind by earlier calls, lazily executed zeros, a
prefetch thread racing its reader, slices with threads of their own over one shuffled source, caches that are filled as they
are read, views of views that share memory, ranks that decide alone whether they join a collective call, a job killed between
two file operations. `PROJECT.json` lists them at their lines under "hazards".

## 2. Modules and how they correspond to the code

**MemoryBlocks** — `Memory` and `CpuMemory`. A pointer is a segment (one `malloc`) and an offset, so that address arithmetic
is arithmetic and two allocations never overlap. `Divide`, `TryMerge`, `Disabled`, `SetLock` are the methods of those names.

**CachingAllocator** — `Allocator` and `CachingAllocatorWithBuckets`. `alloc` and `free` hold `mutex_` throughout, so each is
one action: `AllocCached`, `AllocNew`, `AllocRetried` and `AllocFailed` are the four ways through `alloc` and `alloc_retry`,
`Free` merges with both neighbours, erases their entries and files the result, `FreeUnusedCaches` trims. Sizes are rounded as
`round_size` does and a block is divided as in `alloc_impl`. Whether the device has memory left is a nondeterministic choice;
a pool key's tie between blocks of one size is too (the code breaks it by address).

**DeviceHeap** — what any allocator promises its users: regions that are large enough, mapped, exclusive, and stay put until
returned. CachingAllocator implements it under the mapping `Held`.

**UnlockedSweep** — the two threads that meet in `device_memory_used_in_bytes_`: the one that allocates under the mutex and
the one in `free_unused_caches`, which takes none. A `+=` is a load and a store.

**ComputationGraph** — graphs as the program builds them: functions numbered in the order they are connected, inputs and
outputs by name, what shares an array, what a root depends on, and the reference gradient. **FunctionKinds** — the answers of
nine functions to the engine's questions (`grad_depends_*`, `inplace_data`, `prohibit_clear_input_buffers`, ...).

**GraphEngine** — the engine. Actions and code:

| Action | Code |
|---|---|
| `Connect` | `connect` with `set_function_inputs` and `create_function_outputs`; executes at once under auto-forward |
| `Forward`, `ForwardAll`, `EnterRoot`, `EndForward` | `CgVariable::forward`, `forward_all`: one callback per root, one closed list |
| `Descend`, `Execute` | `visit_function_recursive`; `Execute` is steps B-3 to F with `ForwardCallback::operator()` and its clearing of inputs |
| `Backward`, `Pick`, `EndBackward` | `CgVariable::backward`, the loop of `visit_function_backward` and its scope exit |
| `StartRecompute`, `Recompute`, `RecomputeFails` | `need_recompute_output/input`, the recursion with `as_recomputation`, the check of `Function::recompute` |
| `RunBackward` | `BackwardCallback::operator()`: accumulate flags, zeroing of unseen outputs, `Function::backward`, clearing of outputs, and the opening of parents |
| `SetNeedGrad`, `ZeroGrad` | the program's setters between calls |

The recursion is an explicit stack, so the order in which functions run and buffers die is the code's. Two abstractions of
data: an array is "none", "live", "cleared" or "junk" (computed from something not live, or read after it was cleared), and
every function adds the sum of its output gradients to each input, so a gradient is the number of paths from the root and any
function run twice, too early, or with the wrong accumulate flag gives another number. `due` records what each leaf should
have; `trained` records the functions whose last forward kept what backward needs, and a backward is only called on a root
all of whose functions are in it (a backward after `forward(clear_buffer=True)`, or after `need_grad` was changed without a
forward, is the caller's error).

**DataSources** — the data sources as records in a heap, because slices share the sources below them. A stack of sources is a
sequence of layer names; `SampleFrom` and `AfterAnswer`, `AfterNext`, `AfterReset` and `AfterFill`, `AfterApplyOrder` are the methods
`_get_data`, `next`, `reset`, `apply_order` of every class, going down the stack as the code delegates (folds and recursive functions).
`AfterReset` leaves a `CacheDataSource` without an order, which `AfterFill` gives it again.
A sample is its row number. `IteratorSimple`, `IteratorCsv`, `IteratorCache`, `IteratorConcat`, `SliceStack` are the stacks that
the factory functions of `data_iterator.py` and `slice()` build.

**DataIterator** — the iterator, its prefetch thread and its slices. **BatchStream** is what it promises to its caller.

| Action | Code |
|---|---|
| `Check`, `BeginRead`, `ReadItem`, `ReadNothing` | the loop of `DataIterator._next` over a batch: the test of stop_exhausted, `next` of the source down to the one that answers, the sample or a failed load |
| `Compare`, `LoadFile`, `NameFile` | `CacheDataSource._get_data`: is the file the one in memory, its content, its name, which it reads and writes without the lock of its reset |
| `Reset`, `Fill` | the reset at the end of the data; that of `CacheDataSource` empties its order under its lock and fills it again while others read |
| `PastEnd`, `OutOfStep`, `Torn`, `Mutated` | the exceptions that end a thread: IndexError at the end of the source below, an order no longer remembered, an order or a content another thread has replaced (IndexError, KeyError), a deque another thread has changed |
| `ApplyOrder`, `GenerateOrder` | the `apply_order` after a batch in which an epoch ended, down to the check and the append of `SimpleDataSource` |
| `Call`, `Take`, `Retry`, `TakeRetried`, `StopIteration` | `next`: wait for the thread, deliver, start the next batch, "next() got None retrying..." |
| `Slice`, `Close` | `slice` and `close` with its join |

Steps of different threads interleave where they touch shared sources; a thread's private work and its put into the queue
belong to the step before it. A read is at least two steps, from what it has looked up to what it finds there, and a reset of a
cache two more. A slice does not look at its own bounds (`data_source.py:637-641`): `AtEndOfData` is a test of the first source below
that has an order, so that a slice a failed load has taken past its end reads on in the next portion, and only the last one
dies. A memory cache notes the sample, and sources the position, when the read ends, and `SlicedDataSource.reset` sets the
positions with the first of its two steps; an order is empty until it is whole, as whoever reads a part of it that is filled
already finds what it would find afterwards; constructors read at once, and the main thread waits for those of a slice
(`Constructing`). The worker threads that load cache files ahead, and the retries of `CacheDataSource` under a communicator, are left out.

**Collectives** — barrier and all_reduce: every rank leaves when all of them have entered the same call. **DatasetCache** —
`_create_dataset` of `load.py`: look for the cache (`LookForCache`, `LookForDirectory`), the barriers around its making
(`EnterTogether`, `LeaveTogether`), who makes it on which node (`CheckNode`), files and index (`WriteCacheFiles`,
`WriteCacheIndex`) and what the iterator opens (`OpenCache`). **Training** — `train.py` over it:

| Action | Code |
|---|---|
| `Begin`, `SaveUntrained` | `_train` up to the loop, with `_get_current_parameter` when resumed |
| `SkipOptimizer`, `MonitorLoss`, `Step`, `ReduceGradients`, `ApplyUpdate`, `ReserveLoss`, `EndUpdate`, `SumCost` | `_update` and `_sum_cost`: the loss is read when the next optimizer runs, zero_grad and the update every `update_interval` iterations, the all_reduce of the last backward |
| `Fail`, `Continue`, `EndEpoch` | after it: "Cost is Nan", the estimate of the time, the end of an epoch |
| `MonitorError`, `SumError`, `ForwardMonitor`, `Judge` | `_evaluate` and the test for the best error |
| `OpenBest`, `CloseBest`, `Report`, `Unlink`, `OpenCurrent`, `CloseCurrent` | `_save_parameters` and the monitoring report, one step per thing that reaches the disk |
| `CheckTrainingTime` | `_check_training_time`, on rank 0 only |
| `Crash` | all processes die and are started again with `--resume`; the disk stays |

A loss, gradient or error is the token of the forward it comes from and a sum the sequence of its summands, so that "each once"
can be said. Rank r + 1 of the model is rank r of the code.

**SyncedArray** — one array, what is narrowed from it and from that, and their arrays in buffers of memory; **SharedMemory** is
what they promise: one row of cells of which each is a range. `Get` is `get_sp`; `Cast` and `CastWriteOnly` are `cast_sp` and
the caller's write; `Zero`, `Fill`, `Clear`, `Narrow`, `Release` are the methods and the destructor. Below them the operators
have the names of the code's private methods: `FromParent`, `CreateDescendants`, `KeepHeads` and `DropArrays` (the two ways of
`clear_all_array_descendants`), `Carried` (`traverse_zero_fill`), `Synced` (`sync`), with the early return of the loops over
children. What the recursion of `traverse_zero_fill` leaves in a cell, parents written before their children, is said of each cell:
the value of the lowest array over it that has a note (`Lowest`, `Noted`).

**Solver** — what the calls of a solver do to its parameters, its states and their gradients, as operators named for its methods.
A gradient is the set of contributions added up in it, each with the power of two it is multiplied by, a note whether it is
finite, and the flag `zeroing`, by which the solver skips parameters that backward did not reach. A state is the set of updates
its momentum was made of. **LossScaling** — `DynamicLossScalingUpdater.update` on every rank of a training:

| Action | Code |
|---|---|
| `ChangeParameters` | the program calls `set_parameters`, `remove_parameters` or `clear_parameters` between updates |
| `Begin` | the program, or `update` itself, calls `update`: `zero_grad` |
| `FeedForwardBackward`, `FeederRaises` | one turn of the loop over `accum_grad`, or an exception of the feeder, which leaves `_recursive_count` as it is |
| `AllReduce` | all ranks exchange their gradients |
| `Overflow` | an inf or a nan: halve the scale and begin again, or give up after `_max_recursive_count` |
| `Update` | rescale, decay and update; let the scale grow |

A batch is known by the greatest scale with which its gradients are finite and by the parameters they reach. `log` records the
attempts, so that what should have happened can be said without the updater's variables. All weights of a gradient's summands
are powers of two because the scaling factor is 2.

Operators whose comment says "Faulty" or "Mutant" are variations of the one that follows; no behaviour uses them. Each is a plausible
slip in the code, and substituting it makes a property of the run fail, which shows that the property constrains the code.

## 3. Runs

| Run | Shows | Bounds |
|---|---|---|
| `caching_allocator` | type correctness, tiling, exact pools, coalescing, exact counters, idle devices reclaimable, exhaustion only when everything is pinned, DeviceHeap implemented | 5 Memory objects, 3 segments, 2 devices, sizes 0, 5, 9, 22 with granules 2 and 4 and small pool up to 8 |
| `unlocked_sweep` | the counter goes wrong (see 4) | a few blocks |
| `graph_engine` | the seven properties below | fourteen graphs of three to five functions, three calls after or between connects |
| `partly_recomputed`, `dropped_out`, `auto_forward` | `GradientIsExact` fails (see 4) | one graph each, two or three calls |
| `data_iterator` | the properties below, on every stack of sources | 27 programs, 149,333 states: up to 4 samples, batches of 1 to 3, up to 5 batches, two slices, two failed loads, slices of a cache |
| `sliced_cache` | `WithinSlice` fails (see 4) | two slices over a memory cache |
| `training` | the properties below | 21 projects: up to 3 ranks on 2 hosts, 2 optimizers, 3 epochs of 1 to 3 iterations, two crashes |
| `resume` | `ResumesFromLastSaved` fails (see 4) | one process, one crash |
| `synced_array` | the properties below | 3 cells, 4 possible views of which one is a view of a view, at most two at a time, two dtypes, two buffers |
| `loss_scaling` | the properties below | 9 programs of up to 6 calls, one or two ranks, two parameters, three kinds of batch |

Why the allocator's bounds are enough to be interesting: five objects let a segment be cut in four with a second segment of
the other pool; the four sizes are the empty array, a small block leaving one granule, a large block, and a large block
another large block leaves something of; three segments on two devices let a retry succeed on a segment it has just given
back. Symmetry of objects, segments and devices is used with safety properties only, and the action properties are symmetric.

Properties of the graph engine, beyond types: `GradientIsExact` (after any sequence of calls each leaf holds the sum of what
the backwards since its zeroing should add, from live data only), `ConsumersFirst` (whatever has run in backward
does not depend on anything that is still to run: no gradient is propagated before all of it has arrived, or a second time), `ResultsKept` (what was asked for is live on return), `ClearBufferReleases`
(`forward(clear_buffer)` gives back what it may; single roots, since forward_all does not do it for a variable whose consumers
are spread over roots), `PersistentKept` (nothing a forward or recomputation clears takes a persistent variable's array along, nor what a
backward clears that has come to the variable through all in-place functions between the two; the rest is in 4), `RecomputeIsArmed` (where
all or no intermediate variables are recomputed, recomputation never throws), `EveryCallReturns`.

The graphs: a join with a function reading one variable twice (`Residual`), an in-place function on a branching variable
(`View`), one beside a function that does not use it (`Side`), a view of a view (`Views`), two outputs (`Normalized`), a random function between two uses of its input (`Augmented`, and `Unarmed`, where
recomputation does throw), two heads asked for together or apart with need_grad switched (`Heads`), `Sink` (`Collected`), a
branch of a join that is cut off by need_grad (`Diamond`: a consumer that never runs must not hold up the others), and
four of these with everything recomputed. Three calls are a forward, a backward and one more of either, which is where state
left by an earlier call bites; connects may come between them. Both `clear_buffer` flags and `clear_no_need_grad` range over
all values.

Properties of the iterator: `LossIsBounded` (a sample read from the source is delivered, queued or in the making; a failed load
costs at most its batch), `EveryPassIsComplete` (each pass over a source serves every sample once, wherever epochs and batches
fall), `SlicesAreDisjoint` (slices of a shuffled source never share a sample of a generation, although each applies the orders
at its own pace), `FailsOnlyOutOfStep` (a thread dies only
if the slices have been generations apart, after a failed load, of a deque another slice changes, or of a cache slices share), `BlocksOnlyWhenEnded` and `CallsReturn` (next()
returns unless its thread is gone), `ClosedIsQuiet` (nobody reads a closed source), `ImplementsBatchStream` (next() delivers the
promised batches and counts epochs as they are delivered, although the thread is a batch ahead).

The bounds: shuffles are the identity and a rotation, which differ in every place; SimpleDataSource remembers 4 orders instead
of 15, so that slices get far enough apart to lose one. It need not be the slowest that loses it: a slow slice appends old
orders late, which push out those of the fast one, so `spread`, the greatest distance there ever was, decides, and not the
distance at the time (two slices with up to twelve batches were searched for this beyond the run); a cache file holds 2 samples, so that three samples make a full file
and a rest; sizes are multiples of the batch, not multiples, and smaller than a batch, which wraps twice. Three programs slice
a cache: two slices over a `CacheDataSource` of one file and of two, which need one batch each to reset it under one another, and
one over a memory cache the sliced iterator still fills. In one the loads of slices fail, on the last sample of a portion too.
What the slices serve is not promised there (`Served`, `SharesCache`): only that nothing else goes wrong.

Properties of the training: `CostIsExact` and `ErrorIsExact` (the report holds each loss and error of the epoch once, from all
ranks), `UpdatesAreWhole` (an update uses the gradients of its interval, on all ranks, and no others), `ResumeIsExact` (across
any crashes the parameters have every update exactly once and solver states without a gap), `NoPoisonedCheckpoint`,
`BestIsLowest` (results.nnp is of the best epoch), `RanksAgree` (no call mixes different things; ranks stay equal, if every epoch has a collective), `CacheIsWhole`
(nobody trains on part of a cache), `AllFinish`. The projects: one optimizer, two on one network, two that take turns,
update intervals, a NaN in the first or the last iteration of an epoch, an evaluation on the network that is trained, time
limits, no data at all, disks per node, and epochs that cannot be shared out evenly. Interval 2, Early 1 and Apart 1 instead of
5, 5 and 10 make every case of the checkpoint rules happen within three epochs. Two crashes are a crash of a resumed training.

Properties of the synced array: `ReadsLastWrite` (at any time, a get of any array of the tree in any dtype would return what was
written last there), `SharesMemory`, `ZeroingIsZero` (the flag by which the solver skips a parameter). One value besides zero and
"unknown" tells what is read from what was there before. The run has 48,905 distinct states; three buffers (65,313 states),
three views over two cells (61,620) and that without a bound on buffers (99,252) were checked too and show nothing else.

Properties of loss scaling: `LearnsUnscaled` (the parameters have had exactly the updates of a training without scales that
leaves out the attempts which overflow: right gradients, each once, and a momentum of the updates since the parameter was set),
`RanksAgree` (who meets in all_reduce is in the same attempt with the same scale, though each rank decides by itself),
`ScaleIsEarned` (the scale halves after an overflow and only then, and never doubles before N updates in a row have been made with it; that it
does so later than the documented interval is in 4),
`ProgramsEnd`. The programs: retries and giving up, a feeder that raises in the middle of the retries, two batches per update, weight decay as a
term of the gradient or fused, parameters added with and without their state, removed, cleared and set again, and two ranks with
different batches, of which one overflows. Bounds: N is 2 (2000 in the code), so that five updates see the scale grow, and an overflow come in between, and an update is given up after 1 retry (100); a float
holds powers from 2^-3 to 2^3 and gradients are finite at 2^-3 whatever is fed: `FeedForwardBackward` takes other batches only
while the scale is greater. Without that a scale goes down until its inverse is infinite (see 4). The run has 129,378 distinct states.

Deadlock is not checked where programs may stop calling. Fairness: `WF_vars(Engine)` says that a call of the engine in progress
goes on, which the calling thread does; the iterator has weak fairness of each thread and of the main thread's return from a
`next()` whose batch is there, which the interpreter gives every runnable thread; the training has `WF_vars(Run)`, a process that
can go on does, and none of `Crash`; loss scaling has `WF_vars(Next)`, again that a process that can go on does. Nothing is assumed of the program. The allocators and the synced array need none: they have
safety properties only.

## 4. Disagreements found

- `unlocked_sweep`: `free_unused_caches` updates the used-memory counter without the mutex; an update is lost.
- `partly_recomputed`: recomputing a variable whose input is not to be recomputed clears that input, because the recomputing
  callback does not know that backward needs it; gradients are then wrong.
- `dropped_out`: Dropout drops its mask after the first backward even without `clear_buffer`; a second backward, documented
  to double the gradient, reads an array nobody wrote. A comment at `dropout.cpp:92-97` knows of this for one usage only.
- `auto_forward`: the ranks of `connect` and of `forward` disagree by one. After a forward of part of a graph that grows under
  auto-forward, a function ties with its consumer, goes first, and goes again: gradients are counted twice.
- `sliced_cache`: the memory cache takes the position for the index of its append-only list; slices that share it, or begin in
  its middle, read each other's samples.
- `resume`: the old checkpoint is removed before the new one is written; a job that dies in between begins again at epoch 1.

What `sliced_cache` and `resume` contradict is no property of the passing runs: `ResumeIsExact` says that what is resumed is consistent, not
that it is the newest, and slices over memory caches are not checked against `WithinSlice`. `GradientIsExact` holds in
`graph_engine` because its graphs leave the three situations before out: recompute flags are all, none or lead to a failure, there is no function with a mask, and graphs are not auto-forwarded.

Seen while modelling, without a run of their own:

- A persistent variable can be cleared, where `variable.hpp:343` and `_variable.pyx:672` say it never is. Backward with `clear_buffer` spares
  the input of an in-place function for a persistent output only when it runs that function itself (`variable.cpp:571`). If `h` goes to a
  reshape `u`, persistent, and to `y`, which does not need `u`, a backward from `y` never looks at the reshape, clears `h`, and `u` has lost its
  data with it. `Side` is this graph; `PersistentKept` speaks of a backward only as far as it has run the functions `u` has its array from
  (`Reachable`), and without that condition TLC finds the case after a forward of `y` and one of `u`. Forward is right here: the callback remembers the
  arrays shared, and takes `h` for needed.
- Slices of an iterator over a cache (`data_iterator_cache(...).slice(...)`) reset and read one `CacheDataSource` from threads of their own.
  `reset` empties `_order` and `_current_data` under a lock that `_get_data` does not take (`data_source_implements.py:244-268`,
  `381-402`; under a communicator `_get_data` expects the IndexError and tries again): a thread dies of an IndexError or KeyError
  without a failed load and with its slices in step, and its next() waits for ever; or it takes a sample out of the file another
  thread has just loaded. `FailsOnlyOutOfStep` allows `Torn` for shared caches only; without that disjunct TLC finds the case with two slices.
- A slice does not look at its bounds (`data_source.py:637-641`): if the last sample of its portion fails to load, the retry reads the first
  of the next portion, and a slice without a sample, of fewer rows than slices under drop_last, serves those of others all the time.
- `NaiveAllocator` frees without deducting what it frees (`naive_allocator.hpp:56`): its used-memory counter is all it ever allocated.
- `ScopedCallback` in `Solver::update` is a temporary without a name (`solver.cpp:222`), so the post hook runs before the update,
  where `solver.pyx.tmpl:374` says "This callable object is called immediately after each update of parameters."
- `set_parameters(reset=False)` with a name that is taken keeps the old variable, as `insert` and `continue` do
  (`solver.cpp:128`, `133`), where `solver.pyx.tmpl:127` says that "parameters are overwritten or added (if it's new)".
- `load_states` from an .h5 file takes every key that starts with the parameter's name (`solver.pyx.tmpl:293`): `rnn/weight` gets
  the states of `rnn/weight_l0` too.
- The updater's scale grows after N + 2 updates, then after every N + 1, rather than every N (`mixed_precision_training.py:140`); a
  feeder's exception during the retries leaves `_recursive_count` behind, so a later update is given up early; and after some 130
  overflows in a row `1. / self.scale` is no float any more, so that the first update without an overflow fills the parameters with inf or nan.

## 5. Proofs

`CachingAllocatorProofs` has lemmas about dividing, merging and locking blocks, then the theorems of the allocator. They hold for
any sets of objects, segments, devices and sizes and any granules satisfying the assumptions: `NullAssumption` (NULL is not a
block, segment or device), `SizeAssumption` (sizes are naturals, granules positive, the small granule fits the small pool) and
`RegionAssumption` (NULL is not a region).

None of the invariants is inductive alone: a free leaves the pools exact only if the neighbours it merges are filed where it
looks (so coalescing needs `OnePool`), and merging keeps a tiling only if links are mutual. The inductive invariant `Inv`
joins heap well-formedness (`Linked`, `NoOverlap`, types), `Entries` and `Filed` for the pools, `NoFreeNeighbours`, `OnePool`,
`HeldAlive`, and `Served` (a holder's block is as large as it asked for). `SplitGood`, `MergeStep`, `TrimGood`, `FileGood` show
that the pieces of an action preserve it, often through `GoodBut`, the invariant with one block in hand; `AllocStep` and
`FreeGood` put an action together; `InvNext` and `InvAlways` conclude. From it follow `TypesHold`, `TilingHolds`, `CacheHolds`,
`CoalescedHolds`, `IdleHolds`, the action property `ExhaustionHolds`, `UsedHolds`, and `Refinement`: initial states map to initial states
and each step to a `Grant`, `Return` or `Reclaim` of DeviceHeap, using that an action leaves other holders' regions as they
were (`Kept`).

`DataIteratorProofs` proves `LossIsBounded` and `BlocksOnlyWhenEnded` for any stacks, sizes, batch sizes and number of slices.
`ScenarioAssumption` (a batch is not empty, the failures granted are a natural number) is all that is assumed: the proof holds
whatever the data sources answer. The invariant `Inv` adds what ties the main thread to the threads: each iterator is `Sound`
(its counters balance, its queue holds at most one batch and only when the thread is done, a batch in the making exactly
while it runs), and `HandOver` says that a finished thread has put its batch unless the main thread took it last. Each action
of a thread changes one iterator (`OneSound`) and the four returns of next() hand over.

It also proves `ClosedIsQuiet` for any stack of sources. That needs to know what the operators of DataSources do, and all that
matters of it is that none but close() closes a source and none takes one away (`Extends`, or `Keeps` where no source is new).
`StackAssumption` says which stacks there are, as `data_iterator()` and `slice()` build them: a stack is made of the layers and ends with one
that has the data, that of a slice ends with the slice of the source below and has no other, and sizes, slices and the ranks of slices are
positive. A descent through a stack is a fold or a recursive function, of which only a solution can be reasoned
about: `LoopExists` and `LoopSteps` say that a fold over a sequence of steps is the last of a series that begins and goes on as it
does, and `FileCacheExtends` and `AddAllExtends` go along that series. Every source stands on those below it in its
chain (`Grounded`), so that a read, reset or shuffle finds what it asks. `Quiet` then is inductive: a closed source is one an iterator
made that is closed, a closed iterator has no thread at work and is not waited for, and when the first iterator is closed all its slices are,
which is why closing the sources they share is safe.

And it proves the `Refinement` of BatchStream. `Counts` relates an iterator to the position of its first source: samples drawn (`Drawn`:
delivered, queued, in the batch in the making) and epochs ended (`Epochs`: counted, queued, noted by the thread) are where the source
stands (`Tally`: drawn = size * epochs + position, or the position itself if the iterator stops at the end); an empty batch is put only when no whole one is
left. The thread moves both sides at once (`CountsRead`), the caller moves samples and epochs from the queue to what he has seen
(`CountsTaken`): at that moment nothing else is drawn, so that his epoch is the quotient of what was delivered and the size (`PassOf`).
`Tracked` says it of every iterator that has samples and whose loads have succeeded (`Served`), except one that was sliced, whose position
slices move and which the program no longer calls. That others leave the position of its first source alone is `Alone`: they change the sources of their own chains only
(`Frames`, `Builds`), and a slice's first source is in no other chain. A reset puts the first source at 0 since no slice
in the chain is of it (`TopIsNotSliced`, `ResetBuilds`). Then `TakeStream` is a `Deliver`, `StopStream` an `End`, a failed load a `GiveUp`, `SliceStream` an
`Open`, and nothing else is seen. A retry is not taken by an iterator without failures (`RetryStream`).

`UsedIsExact` compares counters with a sum over the blocks and with cardinalities, which no step of an action can evaluate.
`FoldProofs` shows what is needed of such sums: a map-then-sum over a finite set is the value at that set of any function that is 0
at the empty set and adds an element's summand (`SumSolves`), so that a sum with a member changed, added or removed differs by
that member (`SumChanges`, `SumAdds`, `SumRemoves`). `Booked` then goes from action to action: memory is counted when a segment is made and given back (`ConstructBooks`, `TrimBooks`),
dividing and merging leave the sum alone (`DivideBooks`, `MergeBooks`), and a lock moves one block in or out of a counter (`LockBooks`).

`GraphEngineProofs` proves `ConsumersFirst` for any graphs and any program of calls, with any sets of roots, switches of need_grad,
recompute flags and connects in between. `GraphsAssumption` says what a graph is: functions are numbered so that inputs come
from lower numbers, a variable has one parent at most. `ConsumersHold` has a hypothesis, that no graph is auto-forwarded: with auto-forward the
property is false, as `auto_forward` shows (see 4). What makes the order right is the rank, and three definitions stand between: `connect` and `forward`
give a function a rank above those of its inputs' parents (`Settle`, and `ForwardOK` while a forward is on the way); backward visits open
functions by descending rank (`Before`); and a function is opened only by a consumer that is done. The invariant `IInv` speaks
of the set S of functions whose ranks are settled (`Settled`: their parents are in S, and each is one above the highest of them). `ForwardOK` says
that in a forward everything closed is in S but for what is on the stack of the recursion, which only goes down; `BackwardOK` that what is
open in a backward is in S and that the one picked has the highest rank. Ranks fall strictly along a cone (`ConeLower`), so the one picked is in
nobody's cone; and what it opens has a smaller cone than its own. The cone is a recursive function on function numbers and the opening
of parents is a fold over inputs; neither can be unfolded by induction here, so both are *solved*: `ConeUnique` and `ConeIs` say that
the cone is the least closed set, `OpeningExists` and `KnownIs` that there is a sequence of intermediate results which begins and
goes on as the fold does, and that the fold is its last member. Equality of two solutions goes by the least place where they differ.

Under the same hypothesis it proves `ResultsKept` and `ClearBufferReleases` for any graphs and programs of calls. One more assumption
is needed, `InplaceAssumption`: a function that computes in place has one input and one output, as Reshape and Unlink do, the only ones that answer
`INPLACE_NOT_MODIFY`. Both properties are about the same step, the visit at which forward clears an input, seen from either side: it must
not be too early and it must not be left out. The invariant `KeptInv` has these parts:

- `Referred`, at all times: the references of a variable are the places where connected functions have it as an input (`Slots`), what
  shares the array of a leaf has its `prohibit_clear_data`, and so leaves always have their data.
- `Executed`, in a forward: functions are executed in the callback of the root at hand (M) or of an earlier root (O). Together they are the closed
  functions that are not on the stack of the recursion; each has its parents in M or O, and each was `Caused` by a variable that was asked for or read.
- `Noted`: the visits counted of a variable are its places in M, modulo its references (`Turn`), and what M computed in place is remembered.
  A visit is the last (`LastVisitIs`, by `Counting`) exactly if no other connected function is left to M.
- `Results`: what M and O computed is live, or it was not asked for and all its connected consumers are in M or O. With it an
  executed function has live inputs (`ReadsLive`), and on return what was asked for is live.
- `Gone`: with `clear_buffer` what M alone has exhausted is cleared. O is empty when one variable was asked for, which is why
  `ClearBufferReleases` is about a single root: a callback counts its own visits only.

`ArrayIs` and `Borrowed` solve the recursive function that follows in-place functions to the owner of an array, as above. `ClearedAlone` is the heart: if a
function clears an input, then nothing that is connected shares its array (an in-place function on it reads it too, so it is in M, and then
the callback remembers the array and does not clear), nobody asked for it, and whoever reads it is done. So
`ResultsStay`, `GoneStays` and `NotedStays` hold over an execution (`ExecuteRun`); `EnterRootRun` moves M to O, and `DescendRun` closes a
function that its consumer caused.

`TrainingProofs` proves `CacheIsWhole` for any number of ranks, hosts and disks and any number of crashes, from
`ClusterAssumption` (ranks of one host share a disk; without a communicator there is one process; both are how the code is
started). The property says nothing of who makes the cache; the invariant `CacheInv` does: either the run is *uniform* (one
disk, or no crash yet) and in one of three phases, *before* the ranks have met, *during* the making, when only the first rank
of each disk writes and no index is there before its files, or *after*, when every disk in use has its index; or there is one
process, which makes the cache alone; or the property's exceptions hold. That all ranks enter and leave together
(`EnterTogether`, `LeaveTogether`) is what makes the phases phases.

It also proves `ResumeIsExact`, `BestIsLowest` and `TypeOK` of the training for any number of ranks, optimizers, epochs and
crashes. Besides `ClusterAssumption` it uses `ProjectAssumption` (a project has an epoch at least and an error for each) and
`TrainingConstants`. `ResumeIsExact` is not inductive: what a checkpoint holds decides what a later run starts with. `TrainInv`
says of each rank (`RankOK`) that the updates it has are exactly those due before its iteration and turn (`Exact`) and its solver
states reach back to the beginning of some epoch (`Recent`), that where it is fits its turn and iteration (`Trained`; `Untrained`
for a project without iterations), that it waits in the call that belongs there (`Waits`), and of the disk (`DiskOK`) that a
checkpoint, whole or not, holds exactly the updates of its epochs. The arithmetic is in four lemmas (`LastOfEpoch` and
`EpochInRange`: the iteration after an epoch's last is the epoch's number times its length); a turn without an update
(`ExactSkip`), one with it (`ExactUpdate`), the next iteration (`ExactNext`) and the archive (`ArchiveGood`) move `Exact` on; each
action then has a lemma of its own, and the collectives need that all ranks wait at the same place (`Gathered`). For
`BestIsLowest`, `BestInv` adds what rank 1 remembers between the evaluation and the file: the lowest error judged, and that the
epoch being saved has it.

`LossScalingProofs` proves `LearnsUnscaled` and `RanksAgree` of loss scaling for every program, number of ranks, set of
parameters and batches, initial scale, interval and bound on the retries. `SolverAssumption`, `UpdaterAssumption`,
`BatchAssumption` and `ProgramAssumption` are what is assumed: the initial scale has an inverse, and so has the greatest scale of a
batch; a program has a rank and feeds a batch at least; a feeder raises only in a process of its own. Neither property is
inductive. The ranks run freely between two `AllReduce` and each decides by itself to skip, to retry and to change the scale, so
what has to be known is why they decide alike. `IInv` says it in seven parts: `Control` (types; each stage fits the attempt in the
log; `Lockstep`, all ranks have reduced the same number of attempts), `FloorOK` (the scale stays at the least that has an inverse
or above it), `ChainOK` (the scale, the counter, the number of retries and the call of an attempt are what the outcome of the
attempt before asks for), `HeadersAgree` (the attempts of all ranks begin alike), `GradExact` (a gradient before and after
`AllReduce`, as a set of batches), `StatesExact` and `DataExact` (states and parameters, as sets of updates). `CheckFacts` ties
the gradients to the batches: a rank finds an inf or a nan exactly if some gradient of some rank overflowed, which is the same on
all of them. With `FollowsSame` the next attempts agree, and `HeadersStep` follows. `DueStep`, `MomentumStep` and `UnscaledStays` say which
updates a step makes due and that it leaves the earlier ones alone; `ScaledBack` is the arithmetic that takes the scale out again.
`IInvAgree` then compares two ranks after the same calls.

`LossScalingProofs` also proves `ScaleIsEarned` from `ChainOK` alone: `Bounds` (the counter of an attempt counts the updates with its scale, but
for one, and so no fewer than N when the scale grows) goes from each attempt to the next, and there is no first attempt of which it does not hold, by the least element of a
set of naturals.

`ReportProofs` goes on from `TrainInv` to what a training reports and saves, for any number of ranks, optimizers, networks, iterations,
batches and crashes: `ErrorIsExact`, `CostIsExact`, `NoPoisonedCheckpoint`, `UpdatesAreWhole` and `RanksAgree`. Besides the assumptions of
`TrainingProofs` it needs that `ProjectAssumption` says of the numbers of a project file that they are numbers. It begins with an
operator for each step (`Skips`, `Monitors`, ..., `Effect` for their disjunction), which says of the record of a rank what changes
and what stays; `TrainEffect`, `NextEffect` and the effects of the three collectives are proved once and the properties use
nothing else of the actions. A sum `Lists` a set: it has each element once and no others. `ConcatSteps` solves the fold behind `Concat`
as `FoldProofs` solves sums, and `ConcatLists` says that the sum over all ranks lists the union of what the ranks list.

- `ErrorInv`: before, in and after the evaluation the errors are those of the batches so far, on every rank alike.
- `CostInv`: of the losses of an epoch until now (`Ran`) each is in exactly one of three places, the sum over all ranks, the sum of the
  iteration, or the network that still holds it (`SumOK`); how often the ranks have added up is the number of iterations that had
  a loss, one more with several optimizers and one less while the first is not added up (`NumberOK`, `Additions`, `AdditionsRun`). `Agree`
  compares two ranks by the epoch they add up (`Stage`), since one may be an epoch ahead of another that lost its optimizers.
- `PoisonInv`: gradients and updates hold losses that are numbers or still to be looked at (`Fed`); what is saved is saved when there
  are none of those (`PureEndsAnEpoch`, from `AverageOK`: the sum lists them all, so that a bad one would have shown).
- `WholeInv`: the gradients of an optimizer that has them to itself are those of its iterations since zero_grad (`Block`, up to `Upto`),
  then of its interval on one rank, then on all (`Window`). An optimizer that starts later has none before
  (`GradOK`), or starts where an interval does (`Separate`: without it the property is false, for what another
  optimizer left is not zeroed then). That the interval is the same on all ranks needs that they began at the same
  checkpoint. Ranks read it at different times, so they may not have: `Aligned` says that the epochs between have no optimizer, because
  the cost of one that has is added up by all ranks, and a rank that has not begun is not there (`Limit`).
- `MeetInv`: the occasions on which the ranks add up are numbered by kind, iteration and turn or batch (`Meeting`), whoever comes to them, and
  each is behind a rank or not (`Passed`). Two ranks that have begun, began at the same iteration and have the same occasions behind them
  (`InStep`), and their updates of the same turn are the same (`Matching`): a step of one rank passes none (`PassedTurns`,
  `PassedIteration`, `PassedEpoch`), a collective takes all ranks past the same one (`StepsTogether`). A rank waits at an occasion it has not
  passed, so two that wait, wait at the same (`CallOrder`). While some rank has not begun, the checkpoint stays as the others found it
  (`Loaded`), because rank 1 saves at the end of an epoch and has met all others in it (`AllHaveBegun`). That is where `RanksAgree`
  needs `EpochsMeet`, which the proof brought to light: after a crash, in an epoch without an optimizer at work and without an
  evaluation, rank 1 saves while a slow rank has yet to look, and that one resumes from the new checkpoint, or from none
  between unlink and close. TLC finds it with two ranks, an optimizer that starts in epoch 2 and no evaluation before.

`SyncedArrayProofs` proves `SharesMemory` and `ZeroingIsZero` for any tree of views, dtypes, values and bounds, and `ReadsLastWrite` for those trees
that satisfy `Placed`, the hypothesis of `ReadsHolds`: an array is the root, a view, a view of a view, or narrowed from a view of a view whose
own parent begins where the root does. Of any other tree `ReadsLastWrite` is false (hazard at `synced_array.cpp:117`): the code adds
the offset of the parent to that of the view and of nobody above, so the view lies in the wrong cells. `BasePlaced` derives from the two offsets
that `Placed` views are in their place, and `HeadPlace` is where the results about memory need it. `SharesMemory` says it of such views only.
`TreeAssumption` says what a tree is (finite, without cycles, a view a range of its parent), `ValuesAssumption` that the model's sign for
"no note" is not a value. The three invariants build on one another:

- `TreeInv`: the live arrays are a tree without overlapping siblings (`Shaped`); all of them have a head array or none has
  (`Uniform`), and then the head arrays of views are ranges of the root's with a key that says so (`InPlace`). `Uniform` is what makes the early
  returns of `clear_all_array_descendants` and `create_array_descendants` harmless: where the walk stops nothing is left to do
  (`ReachedAll`, `ReachedNone`, `CreatedIs`, by `DownTheTree`, which goes from parents to children by the least depth where it could fail).
  Between two calls of one operation it is broken, so `CastTree` follows `cast_sp` through its stages (`RecastChanged`, `RecastSame`).
- `Zeroed`: what is said to be zero is, for all anybody knows. A cast or fill of an array resets the flag of all its
  relatives, and arrays that are not related have no cell in common (`SharedCell`).
- `Mem`: what was written last to a cell is as the lowest note over it says, and if there is none it is in the root's head
  buffer (`Told`); a copy that is said to be at head holds it too (`Copied`); no buffer is shared but by head arrays (`Alone`, without which
  the write of one dtype could reach a copy in another); the arrays are in the memory (`Stands`). `Clean`: between two calls a root with a
  note has no head array, since a root without views that is read carries its note out in the array it reads only.
  `CarryMem` is `traverse_zero_fill`: it carries out all notes over a cell or none (`AllOrNone`, since it starts above the topmost), so the
  lowest note wins as it should. `SyncedMem` puts `sync` together: after it nobody has a note on a cell of the array
  (`Quiet`) and the array that was asked for is `Good`; `CastMem` and `NoteMem` are the casts and zero and fill.

Only model-checked: of GraphEngine `GradientIsExact`, `RecomputeIsArmed` and `PersistentKept`, which hold of the graphs of the run and not of
all graphs (see 4, and `Unarmed`); of the data iterator `SlicesAreDisjoint`, `EveryPassIsComplete` and `FailsOnlyOutOfStep`, which depend on which rows the
descent through a stack of sources computes; and liveness everywhere, which is out of the prover's reach (`ProgramsEnd` of loss scaling too).

## 6. Not modelled, and why

In the allocator: callbacks, printing, size overflow (sizes are naturals). In the engine: rewiring (`steal_variable_from_to`,
`set_parent`), input masks, need_setup and re-setup, function hooks and communicator callbacks, `backward(grad=None)`,
in-place functions that modify data, exceptions other than the one of `recompute`, and clearing during auto-forward. The values
of arrays, and the kernels that compute them.

In the iterator: loading, normalisation and file formats, the prefetching of cache files, the callbacks at the end of an epoch,
constructors as steps of their own (an iterator is made at once), and programs that go on with an iterator they have sliced:
`slice` resets and reshuffles the shared source and moves the parent's position, so a parent that is used after that starts
anew. A second `next()` after StopIteration with a thread blocks forever; the model has it (`BlocksOnlyWhenEnded` excepts it).

In the training: psutil's and the node timing's collective calls, learning rates, the time a checkpoint is due (a choice), the
content of parameters, a checkpoint that is saved while another rank is in the middle of reading it (it is read in one step),
`need_grad` flags, and an output directory per node. max_epoch 0 goes the way of a project without iterations and is assumed away. What the model shows and no property
excludes: with two optimizers the first iteration of an epoch is counted twice in the cost's divisor; a best error of 0, or one that is not a
number, loses to whatever comes next; the first evaluation after a restart overwrites the best file; gradients of an unfinished
update interval are lost by a restart; only rank 0 looks at the time limit, and the others wait for it forever.

In the synced array: clear_called, modification counts, callbacks, transfers between devices in the background and `copy_from`. Views of the
third generation whose first ancestor does not begin where the root does are in the module but in no tree of the run: their offset is
computed from two generations (synced_array.cpp:117), and they lie in the wrong cells. `Clear` is only taken without views: with views it
leaves them the memory the root gave up. A note of zero or fill on a view that is destroyed is carried out by nobody;
`ReadsLastWrite` takes those cells for unknown.

In the solver: `get_states`, `set_states`, saving and loading of states, hooks, clipping, learning rates, and update rules: a
solver is one with a momentum. The variable under a name is always the same. In loss scaling: scaling factors other than 2, a
communicator without gradients to exchange, an exception on one of several ranks (the others would wait for it), data feeders
that depend on the scale.

The naive allocator has nothing but a counter. The virtual caching allocator and the swap scheduler are not modelled yet. `nn.grad`, parameter scopes, converters, and the communicator's own
implementation (outside the repository) are not planned. Components listed as not modelled have their reasons in `PROJECT.json`.

## 7. Plan

In order of importance; done parts are marked.

1. Caching allocator with its abstract heap and proofs of all its safety properties (done).
2. Graph engine on small graphs (done), with the proofs of the order of backward, of what forward keeps and of what it clears (done);
   then input masks, rewiring with the reference counts it leaves, and communicator callbacks.
3. Synced array with views against the memory they share (done), with proofs of its three safety properties (done); then `copy_from`.
4. Data iterator, sources, slices, and the proofs of what next() loses, when it blocks, that it reads no closed source and
   that it keeps the promise of BatchStream (done).
5. Training over ranks with crashes, its cache and checkpoints (done), with proofs about the cache, the checkpoints, the best
   file, the report, the gradients of updates and what the ranks call together (done).
6. `VirtualCachingAllocator`: chunks mapped once, retries and failure; DeviceHeap again as its specification.
7. `Solver` and dynamic loss scaling over ranks (done), with proofs of its three safety properties (done).
8. `SwapInOutScheduler`: schedule and replay on short recordings.
