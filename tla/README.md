# TLA+ models of XSigma

This directory holds the formal models of the stateful core of XSigma: its task
graphs, its memory, and the tensors and expressions that are evaluated on them.
There are TLA+ modules, the TLC configurations that check them on small
instances, and TLAPS proofs that establish the most important results for every
instance. Source paths below are relative to `src/Library/`.

## 1. The system and its parts

| Part | State it keeps | Operations | What is hard about it |
|---|---|---|---|
| **Graph executor** `Graph/graph_executor.{h,cpp}` | per-run counters `remaining`, `consumers_left`, result slots, `failed` flags, a ready heap, `completed`, first-failure record; per executor a pool and a cancel flag | `run`, `run_to`, `run_incremental`, `run_async`, `cancel` | workers, caller and canceller interleave; a count moves outside the mutex the waiters use; slots are freed while siblings may still read; the run state is destroyed at return |
| **Graph builder** `Graph/graph_builder.{h,cpp}`, `dependency_graph.h`, `graph_types.h` | pending nodes and edges | `add_node`, `depends_on`, `with_node_version`, `build` | Kahn's algorithm with repeated edges, cycles, dangling ids |
| **Graph passes** `Graph/graph_passes.{h,cpp}` | none | `ancestor_set`, `consumer_counts`, `prune_to_sinks` | counts are of edges between scheduled nodes; pruning renumbers |
| **Keyed graph builder** `Graph/keyed_graph_builder.h` | memo of resolved keys, keys in progress, frame stack | `resolve`, `resolve_with_discovery`, `with_key_version` | recursion, cycles, failures half way, a discovery fixed point |
| **CUDA caching allocator** `Memory/gpu/cuda_caching_allocator.{h,cpp}` | blocks and their chains, two free pools, allocated map, event queues per stream, byte counters | `allocate`, `deallocate`, `record_stream`, `empty_cache`, `set_max_cached_bytes`, `set_memory_fraction` | split and merge, reuse across streams, the lock is dropped around the driver call, driver calls fail half way |
| **Metal caching allocator** `Memory/gpu/metal/metal_caching_allocator.mm`, `Memory/profiler/gpu_memory_snapshot.h` | as above, heaps instead of streams; history ring, peaks | `allocate`, `deallocate`, `empty_cache`, `snapshot`, `resolve_live_allocation` | interior pointers, heaps given back only when nothing is allocated, diagnostics that must agree with the chains |
| **Intrusive pointer** `Core/common/intrusive_ptr.h` | one 64-bit word with a strong and a weak count | copy, reset, `lock`, `make_weak`, `reclaim`, `release` | lock-free; resurrection through `weak_intrusive_ptr::lock`; resources released exactly once |
| **Flat hash map** `Core/util/flat_hash.h` | robin-hood table, probe distances, load factor | emplace, find, erase, rehash, copy, move, swap | displacement that overflows into a rehash; erase moves elements under an iterator |
| **Tensor shapes** `Vectorization/terminals/sizes_and_strides.{h,cpp}` | rank, inline words or a heap pointer in their place | construct, copy, move, resize | the pointer and the first dimension are the same bytes |
| **SIMD backends** `Vectorization/backend/cpu/{avx,avx512,sse,neon}/{double,float}/simd.h` | none | load, store, gather, scatter, reduce, mask, select, transpose | the same contract eight times, by shuffles written out by hand; four representations of a mask |
| **Expressions and evaluation** `Vectorization/expressions/*`, `backend/gpu/metal/metal_dispatch.mm` | compiled Metal kernels | `run`, `fill`, `scatter`, `accumulate`, `hmin`, `hmax` on CPU, GPU, Metal | peeling and unrolling at any alignment; a mask is a word in a register and 1 or 0 in an element; a kernel is reused under its source |
| **Tensors and buffers** `Vectorization/terminals/tensor.h`, `Memory/common/data_{ptr,view}.h` | owner and view, sizes and strides, alignment of the body | construct, copy, move, slice, permute, reshape, assign | ownership moves between tensors while others borrow; strides compose |
| **CPU allocation reporter** `Memory/profiler/*` | tracked blocks, totals | `record_allocation`, `record_deallocation` | a fast flag read before the lock is taken |
| **Registry, maybe_owned** `Core/util/*`, `Core/common/*` | key table; owned or borrowed | register, find | a lock some readers do not take |
| **Profiler session** `Core/experimental/profiler/session/profiler.cxx` | current session, scope tree | start, stop, push, pop | global session pointer, thread-local scope |
| **Models** `Models/` | numeric state | calibrate, train | floating point; outside what TLC can check |

The executor works on a graph frozen by the builder, calls the passes for
`run_to`, and takes threads from `threaded_callback_queue` (a submodule whose
sources are not in the tree; modelled from its use as a pool that eventually
runs every task pushed on it). The keyed builder drives the builder's
declarations. A client of `run_incremental` carries a cache and a baseline of
stamps from one run to the next, so several runs together have a correctness of
their own. The allocators are called by any thread; the CUDA allocator talks to
the driver and to streams, and user callbacks call both back. A tensor takes its
buffer from an allocator and keeps it in a `data_ptr`; an expression is a tree
over views of tensors; the evaluator walks the tree by registers of one of the
SIMD backends, by GPU threads, or as one fused Metal kernel. `PROJECT.json`
lists every component with its status, and under "hazards" every place in the
code where something can go wrong that a test would hardly reach, with the
properties that cover it.

What makes each part correct:

* executor: a node runs once, after its dependencies, on results that still
  exist; failures and cancellation skip exactly the right nodes; the status
  tells the truth; every run returns, and nothing touches its state afterwards;
* builders and passes: the verdict (unknown id, cycle, success) is right for
  every declaration, the order and the priorities are those of the declared
  graph, a pruned graph computes what the sinks of the old one did, and a keyed
  graph has the edges its resolvers asked for (and should have all their work needs);
* incremental runs: what is served from the cache is what a full run would
  compute, and nothing is recomputed that nothing touched;
* allocators: the blocks tile their segments, each is in exactly one place,
  counters are exact, no memory is handed out twice or while another stream
  works in it, every call returns whatever the driver does, and what a
  debugging tool is told is true;
* intrusive pointer: resources are released once, when the last strong
  reference goes, and memory once, when the last reference goes;
* hash map: it is a map, through every growth, and a loop that erases as it
  goes meets each element once;
* vectorization: an element of a result is the same whether a register, a
  scalar loop, a GPU thread or a fused kernel computed it, a view reads the
  elements it stands for, and every buffer has one owner.

## 2. Plan

| Module | Models | Composes with | Checked or proved |
|---|---|---|---|
| `DependencyGraph` | the frozen graph: nodes, edges, priorities, ancestors, descendants | constants of the executor's modules | assumptions only |
| `GraphRun`, `GraphExecutor` (`Inv`, `Proofs`) | abstract run; all threads of one run | refinement | TLC; TLAPS: all safety and the refinement |
| `StreamHeap`, `CachingAllocator` (`Inv`, `Proofs`), `CachingPromiseProofs` | abstract heap for streams; the CUDA allocator | refinement | TLC; TLAPS: heap, counters, cap, the memory fraction of one thread, and the refinement |
| `IncrementalRuns` (`Proofs`) | a client's sequence of incremental runs | uses `DependencyGraph` | TLC, TLAPS safety |
| `GraphBuilder` (`Proofs`) | declarations and `build()` | shown to meet the assumptions of `DependencyGraph` | TLC; TLAPS: verdict, order, priorities |
| `GraphPasses`, `KeyedBuilder`, `GraphClientsProofs` | pruning; resolution of keys | both extend `GraphBuilder` and run its `build()` | TLC; TLAPS: pruned graphs are faithful, keyed graphs are right |
| `IntrusivePtr` (`Proofs`) | strong and weak counts, every atomic step | | TLC, TLAPS: released once, never used after |
| `MemorySnapshot`, `MetalAllocator` | history ring and segment map; heaps, blocks, interior pointers | | TLC |
| `FlatHash` | robin-hood probing, growth, iteration | against an abstract map | TLC |
| `SizesAndStrides` (`Proofs`) | inline and heap storage of shapes | against abstract shapes | TLC, TLAPS: safety |
| `Lanes`, `Simd*` (8), `SimdContract`, `SimdHalfContract` | intrinsics; the operations of each instruction set; what callers rely on | each `Simd*` instantiates the contracts | TLC |
| `Expressions`, `Evaluator`, `MetalFusion`, `ExpressionRuns` | trees, loops, fused kernels, calls | one extends the other | TLC |
| `Tensors` | owners, views, strides, programs of tensors | extends `Evaluator` | TLC |

All of these exist; `MCGraphLibrary`, `MCFoundations` and `MCVectorization` compose
independent parts, one to a behavior, so that a run can check several. Left to do: the refinement of `StreamHeap` when
`cudaEventRecord` may fail, for the streams on which it did not, and the owners half
of `BuffersOwned`, in a module of its own without the folds and recursions that
`Tensors` inherits. The CUDA allocator's virtual-memory segments and the streams of
tensors are the parts of modelled components that would come next.

## 3. The modules

### DependencyGraph

The graph as constants: `Node`, `Edge` with `From` (dependency) and `To`
(dependent), `Priority`. It is a multigraph because `depends_on()` may be
called twice for the same pair and every counter counts entries.
`AcyclicAssumption` says that every nonempty set of nodes has one that depends
on none of the set, which needs no induction to use. `Ancestors` is
`ancestor_set`, `Descendants` the propagation loop of `run_incremental`, both as
least fixed points.

### GraphExecutor and GraphRun

`GraphExecutor` is one call of `run`, `run_to`, `run_incremental` or `run_async`.
Threads are the caller inside `execute()`, one worker loop per pool thread, and
whoever calls `cancel()`. An action is one atomic step of the code: an atomic
read-modify-write or a critical section, with the private work around it.

| Code | Actions |
|---|---|
| seeding the heap, pushing the worker loops, waiting, waking the workers, joining them, collecting | `Seed`, `Spawn`, `CallerProceed`, `CallerWake`, `Return` |
| the worker loop | `StartTask`, `PopReady`, `ExitLoop` |
| `ready_cv.wait` of either | `DecideToWait`, `Block`, `SpuriousWake` |
| the range check of `run_to` | `Refuse` |
| `execute_node` | `Skip`, `ServeClean`, `GatherInputs`, `WorkReturns`, `WorkThrows`, `RecordFailure`, `ReleaseSlot`, `SignalSuccessor`, `PushReady`, `NotifyOne` |
| `finish_node` | `CountCompleted`, `FinishNotify` |
| `cancel()` | `Cancel` |

The wait on the condition variable is two steps, evaluating the predicate and
going to sleep, with the mutex held in between, because `completed` is
incremented without that mutex and only the notification takes it. `ReleaseSlot`
joins the `fetch_sub` of a consumer count with the store of the null pointer
that may follow: nothing reads the slot in between, which is what `InputsReady`
checks. Values are abstracted to whether a slot is empty, computed or taken from
the cache. The heap is the set of nodes in it; `TopPriority` picks any of the
highest priority, as `std::push_heap` leaves ties open. Hooks and messages are left out.

`Outside` holds an id no node has. `run_to` of sinks that are not `ValidSinks`
returns before any thread is started, with `node_failed` and the id it was given
(lines 241-247); the properties and the promise cover that return too.

`GraphRun` is the promise of `graph_executor.h` without threads: nodes are
settled after their dependencies, the first failure is blamed, the status says
what happened.

### IncrementalRuns

Several runs of `run_incremental` by one client, between which stamps move and
cache entries are lost. A run is seen node by node, in any order the
dependencies allow (that it may be is what `GraphExecutor` shows). The client
keeps the contract of the header: after a run it snapshots the stamps it ran
against. A result is represented by the stamps it was computed from, so that
two results are equal exactly when they come from the same inputs.
`run_incremental` cannot be cancelled (it passes no flag), so there is no
cancellation here.

### GraphBuilder

Declarations in any order and `build()`, which works on copies and may be called
again after more declarations. Each `build()` yields a graph of its own that
shares nothing with the builder, so the model keeps only the last one, until
the client declares more. The loops take one action a round, so that
the module needs no recursion: `CheckEdge`, `QueueSource`, `QueueDone`,
`TakeReady`, `ExpandEdge`, `ExpandDone`, `SortDone`, `RankNode`, `Freeze`.
`NodeId` holds one id that is never a node. An edge is a position in the list of
declarations: the adjacency lists are the positions whose dependency is the
node, in increasing order, and repeated edges stay apart. The CSR arrays are the
edge lists again and are left out. `GraphBuilderProofs` has the
inductive invariant and the proofs.

### GraphPasses and KeyedBuilder

Both extend `GraphBuilder` and end in its `build()`. `prune_to_sinks` declares
what `ancestor_set` keeps of a built graph to a new builder under dense new ids.
Its loops take one action a round: `Expand` takes an id off the stack of the walk and
marks its dependencies, `AddNodes` numbers what is marked, `AddEdges` declares the
edges into one id, and `BuildPruned` calls `build()`. `old` is the graph it came
from and `wanted` the sinks. `KeyedBuilder` keeps a stack of the
`resolve` calls in progress: `Resolve` opens one (a key already resolved is
recorded as an edge of its caller, a key on the stack is refused), `ReturnOk` and
`ReturnFailure` close it. The client's functions are nondeterministic within a
`Recipe`: a plain resolver asks for any keys, may fail, and may go on after a
failed dependency; discovery repeats `Discover` and `ResolveNext` until it names
nothing unresolved, and then the resolver returns: its build function has no
access to the builder and asks for nothing. `asked` is a ghost: the keys each
resolver called `resolve()` for, in order, so `EdgesInCallOrder` is about calls. A key that
discovery names and that is resolved already is filtered out (line 266) and gets
no call and no edge; whether all that is named is an input is the separate question of
`DiscoveredNeedsAreInputs` (finding 4). `emplaced` keeps the value a key already has, as the
code's `emplace` does; that a key on the stack is never resolved already is proved.
`GraphClientsProofs` has the invariants and proofs of both.

### CachingAllocator and StreamHeap

`CachingAllocator` is the CUDA allocator of one device with its clients, its
driver and its streams. `StreamHeap` is what a client may rely on: ranges that
do not overlap, and no range handed out while a kernel of another stream is in
flight on it. Its streams hold kernels and the events recorded behind them;
giving a range back may record events on any streams. `CachingAllocatorInv` has
the inductive invariants: `AInv` of the heap and its counters, `CapInv` of the
cap, `SInv` of the streams.

| Code | Actions |
|---|---|
| `allocate` | `Allocate`, `Hit`, `RunCallbacks`, `CallbacksDone`, `Miss`, `Recheck`, `BookSegment`, `FlushForRetry`, `GiveUp` |
| the driver | `DriverMalloc`, `DriverRefuses`, `DriverErrs`; `DeviceThrows` when the device cannot be switched to |
| `deallocate` | `Deallocate`, `FreeNow`, `FreeLater`, `RecordThrows`, `InsertThrows` |
| `process_events_locked` | `PollEvent`, `PollDone`, `PollThrows` |
| `synchronize_and_free_events_locked` | `SyncEvent`, `SyncThrows` |
| releasing and trimming | `FlushBlock`, `FlushDone`, `TrimBlock`, `TrimDone` |
| `record_stream`, `empty_cache`, `set_max_cached_bytes`, `set_memory_fraction` | the actions of those names |
| `release_all_blocks_noexcept` | `Destroy` |
| kernels | `Launch`, `Finish` |

Blocks are named by their address. `try_merge_locked` renames the block that
takes over another's address; `erase_from_pool_locked` finds the block it is
given however the pool is sorted. An event is a marker in its stream's work, in
the order of the queue of that stream. The pool is a set: of several blocks of
the same size the code takes the lowest registration, the model any. A thread
holds the mutex over all micro-steps of a call, drops it at `driver` and takes
it again at `BookSegment`, `FlushForRetry` or `GiveUp`. Callbacks re-enter
`deallocate` and `empty_cache` on the thread that holds the recursive mutex; a
callback that allocates is not modelled. `cudaFree` waits for the kernels of the
segment. An exception ends the call and the calls it was made from.
`Faults` names the driver calls that may fail (`FaultKinds`): `cudaMalloc` in two ways,
the three calls on events, `cudaFree`, whose error the code ignores, and the
switches of the device. The switch in `insert_events_locked` is a kind of its own,
because it comes between the table of live blocks and the event queues. A destroyed
allocator is followed by a fresh one on the same device.

### IntrusivePtr

One object and its pointers, strong and weak, which threads copy, move, drop and
lock at the same time. An action is one atomic access to `combined_refcount_`,
whose halves are `strong` and `weak`. A pointer belongs to one thread at a time,
so `role` holds both what a pointer is and where the operation on it stands.

| Code | Actions |
|---|---|
| copy, `make_weak`, `reclaim_copy`, `incref` | `Retain`, `RetainWeak` |
| move, `swap`, `release`, `reclaim` | `Move` |
| `reset_` of a strong pointer | `LoadForReset`, `StoreZero`, `Decrement`, `ReleaseResources`, `Unpin`, `Delete` |
| `reset_` of a weak pointer | `ResetWeak`, `Delete` |
| `lock` | `LockLoad`, `LockExchange`, `LockRetry`, `LockExpired` |

The loads of the code are relaxed or acquire; the model reads the current word.
A stale word makes `compare_exchange_weak` fail, which `LockRetry` allows at any
time. It cannot hide a reference from the check for `kUniqueRef`: while the
counts are both one, a new reference can only come from the pointer that is
being reset, so its increment happened before. A pointer is not moved or reset
while another thread locks it. Fewer than 2^32 pointers exist at a time.

### MetalAllocator and MemorySnapshot

The Metal allocator holds one recursive mutex from end to end of every call, so
a call is one action and its steps are operators on a record of the allocator's
state (`get_free_block`, `alloc_segment`, `alloc_found_block`, `free_block`,
`try_merge_prev`, `try_merge_next`, `release_cached_blocks`, `trim_cache`,
`release_all_blocks`). `Miss` is the order of a miss: callbacks, the pool again,
the limit, the device, a flush, the device again. `MemorySnapshot` has the ring
of `gpu_memory_history` and `add_snapshot_block`. An instance is one `Config` of
sizes, device memory, caps, limits, ring and callback, so that a run need not
multiply them.

### FlatHash

The table is a record; a slot holds its element's distance from home. `emplace`
walks the probe sequence, `emplace_new_key` and `Displace` carry elements on,
`Overflow` is the swap back and the growth that starts the insertion again.
Words have `HashWord` bits, so that the Fibonacci policy's product wraps; the
prime policy uses the code's list. `dict` is the map the client has built.
`LoopBegin`, `LoopStep` and `LoopEnd` are a client's loop that erases while it iterates.

### SizesAndStrides

Up to `MaxInline` dimensions are words of the object; above that word 0 *is* the
heap pointer. Which is meant is decided by the rank alone, in every operation.
`assign`, `moveAssign`, `resize`, `set_sizes` and `set_strides` are operators that say
what a call leaves of the object and the heap (strides of another length are refused and
leave both alone); `CopyConstruct`, `MoveConstruct`,
`AssignShape`, `MoveAssignShape`, `Resize`, `SetSizes`, `SetStrides` and
`DestroyShape` are the calls. `shape` is what they ask for, without storage.

### The SIMD modules

A register is a function from lanes. `Lanes` has the intrinsics as their vendors
document them; each `Simd*` module the operations of one specialisation of
`simd<T>` over them, shuffle by shuffle; `SimdContract` and `SimdHalfContract`
take the operations as parameters and say what callers rely on, so that one
contract is checked of eight implementations (and of SSE with and without 4.1).
A word seen bit by bit is a set of its sign, exponent and mantissa bits.

### Expressions, Evaluator, MetalFusion, ExpressionRuns

`Expressions` has the trees and both evaluations of one, by element and by
register: a comparison is 1 or 0 in the first and a word of all ones or zero in
the second. `Evaluator` has the loops as plans: sequences of steps that say at
which index they start, whether they move a register or one element, and whether
they load and store aligned. A step reads memory as the steps before left it.
`MetalFusion` numbers the buffers and scalars of a tree, writes the body of its
kernel as a term over them, keeps the kernel under its source, and runs it by
threads over the arguments the host bound. `ExpressionRuns` makes the calls: one on a
CPU or a GPU, or several on Metal, one after the other (`NextCall`) over the kernels kept.
Numbers are integers; the value of a transcendental function is left out.

### Tensors

A tensor is its sizes and strides, its first address, its owner if it has one,
and the alignment of its body. Beside that the model keeps what each tensor
*means*: `array[n]` says which cells it is made of, `store` what was last
written to a cell; a view has cells of its source, a copy has cells of its own.
Actions are programs of constructors, copies, moves, assignments, views, slices,
permutations, reshapes, transfers, element writes and expressions. A tensor is
not destroyed or overwritten while another borrows its buffer (`Disposable`):
the code leaves that to its client.

## 4. The runs

| Run | Question | Bounds |
|---|---|---|
| `graph_library` | one part to a behavior. A run: do all safety properties hold under every interleaving? A declaration: verdict and priorities; does the frozen graph meet the executor's assumptions; is a pruned graph the old one cut to its sinks? A keyed builder: has its graph the edges that `resolve()` was called for? | 2 workers, caller, canceller; a diamond of 4 nodes with one doubled edge; all entry points, caches, dirty sets and sinks, one outside the graph included. 3 nodes, 3 edges of any kind, 2 stamps; 4 recipes, resolvers of 2 calls |
| `executor_promise` | does every run return, and is it a `GraphRun`? | the same threads on 3 nodes with a doubled edge |
| `foundations` | shared pointer; hash map; Metal allocator; incremental runs (is the cache always what a full run gives?), one to a behavior | 5 pointers to one object; 6 keys under 3 policies, words of 5 bits; 4 instances of the allocator; a graph of 3 nodes with two paths to the last and a doubled edge, 3 stamps, any number of runs |
| `allocator_heap` | chains, pools, counters, cap | 2 threads, 1 stream, 7 units in 2 segments, both size classes |
| `allocator_streams` | reuse across streams | 1 thread, 2 streams, a kernel in flight on each, a segment of 3 blocks, memory fraction and cap; `cudaFree` and the switches of the device may fail |
| `allocator_faults` | what is lost when the driver fails, and does every call return? | all eight `FaultKinds`, 2 threads, 3 streams, callbacks, one block |
| `vectorization` | shapes; registers; calls of the evaluator; programs of tensors, one to a behavior | 2 objects of rank up to 3, one dimension inline; 16 by 16 probes of every register; buffers of up to 8 at every alignment of 4, registers of 2; programs of 4 calls on 3 tensors in 2 buffers, on 2 devices |
| `allocator_fraction` | is the memory fraction respected? No, by two threads. | 2 threads, 2 segments, limit of 3 |
| `allocator_sync_fault` | is a block in one place after a failed flush? No. | 1 thread, 2 streams |
| `allocator_device_fault` | is a block in one place after the device switch of `insert_events_locked` failed? No. | 1 thread, 2 streams, a segment of 2 units |
| `keyed_discovery` | is every key a discovery names an input of its node? No, not one resolved before. | the keyed part of `graph_library` |
| `strided_reduction` | does a reduction of a tensor take in its elements? No, of a strided one. | as `vectorization` |

Why the bounds suffice. The executor's counters are of edges, and the
interesting cases are a fan-out, a fan-in and a doubled edge, one worker ahead
of another, and the caller asleep at the same time as workers; all occur with
two workers on the diamond. Three nodes and three edges give the builder a
chain with a shortcut, a doubled edge followed by another, cycles of one, two
and three nodes and cycles behind a source. Three keys give a resolver a shared
need, a memoised orphan and a cycle of three. A segment of three blocks has an
inner block with two neighbours to merge; 7 units hold one small segment of 3
and one large one of 4, so that the device fills up. Sizes are scaled down:
the smallest block is 1, and the classes keep their order. `MaxKernels` bounds
the kernels in flight on a stream; the order of a stream only matters between a
kernel and the markers around it. Five pointers let the last strong one be in its
release while one weak pointer is dropped and another is locked twice. Six keys
of chosen hashes fill a probe sequence past its limit, so that insertions
displace, overflow and grow the table; `MaxLoop` bounds the tables looped over.
A register of two lanes, rounds of two registers and buffers of up to eight
elements reach every combination of a peel, unrolled rounds, single registers
and a tail. On a GPU, whose threads count elements, the buffers of a call are
aligned; min and max reduce fewer trees than sum, which they walk alike. A wrapped
tensor starts on a boundary of blocks, on one of registers only, or off both. Four calls on tensors reach a view of a view and an assignment
through it; two shapes, one of them a matrix with an extra dimension of one, give
strides that do not come in order. Registers have no bound but the probes: what
the shuffles do does not depend on the numbers in the lanes, and each lane is
probed with a number that stands out.

What two bounds leave out. `allocator_heap` has one stream and so no events: events
that complete during a call and fill the cache past the cap are covered by the
theorem `CapIsHeld` only. `allocator_faults` has one block: a flush cut short by an
error has nothing to lose there, and `allocator_sync_fault` shows what it loses with two.

Deadlock is checked in every run except `vectorization` and `strided_reduction`,
where a behavior of one call or four ends, and `keyed_discovery`, where the
client has nothing left to resolve. In `graph_library` the clients of the builders may
stop at any time (a stutter of the MC module), so the check there is of the run.
`Finished` in `GraphExecutor` is the stutter of a run that has returned.

Fairness. Executor: the caller and each worker are strongly fair, which says that
the operating system schedules them, that the pool takes up every task and
that a thread that keeps asking for `ready_mutex` gets it in the end; nothing is
assumed of `cancel()` or of spurious wake-ups. Allocator: a thread inside a
call keeps running, gets the mutex back after the driver call in the end (strong
fairness, others may take it in between), callbacks end, and each stream of the
device makes progress, which `cudaEventSynchronize` relies on. Clients owe
nothing. Works and callbacks are assumed to return: the code has no timeout.
The other parts run in the calls of one thread and have nothing to be fair about.

Clients keep the documented contract: a pointer is freed once, and a kernel on
another stream is declared by `record_stream` or by the hint of `deallocate`
before the block is freed (`Declares`).

Each property has a mutant: a definition of the model replaced by a plausible
mistake (the definitions whose names end in an underscore and a word), under
which TLC finds the property violated.

### Findings

Five runs end in a violation; each is a trace in which the code does something
else than the repository says.

1. `allocator_fraction`: the check against the memory fraction (line 371 of
   `cuda_caching_allocator.cpp`) and the booking of the segment (line 761) are
   separated by the driver call, for which the mutex is dropped. Two threads
   pass the check together and both book.
2. `allocator_sync_fault`: an error of `cudaEventSynchronize` leaves entries in a
   queue that were already recycled; their blocks are pooled and queued at once.
3. `allocator_device_fault`: `cuda_caching_allocator.cpp:897-898` says that an error
   "must not orphan the block between the pools and the event queues". The
   `device_guard` of line 894 throws outside the `try` of line 899 when `cudaGetDevice` or
   `cudaSetDevice` fails. `deallocate` has taken the block out of the live blocks by
   then, so it is in no pool, table or queue and is never handed out again.
4. `keyed_discovery`: `keyed_graph_builder.h:69-73` obliges a resolver to call
   `resolve()` for every key its work depends on. The one that
   `resolve_with_discovery` makes skips those already resolved (line 266). The second
   consumer of a shared key has no edge from it, may run before it, and is not
   recomputed when its version moves, which `with_key_version` (151-156) promises.
5. `strided_reduction`: `accumulate`, `hmin` and `hmax` of a bare tensor read its
   buffer flat (`expressions_evaluator.h:473`), where `run` and `fill` insist on
   contiguity: the sum of a slice with a step adds elements that are not in it.

## 5. What is proved

TLAPS checks these for every graph, declaration, number of workers and threads,
set of stamps, of pointers and of streams, and every size, from the assumptions
named in the modules (`GraphAssumption`, `AcyclicAssumption`,
`ThreadAssumption`, `StampAssumption`, `HandleAssumption`, `BuilderAssumption`,
`KeyedAssumption`, `AllocatorAssumption`, `SizeClassAssumption`, `SasAssumption`). The
bounds on the number of declarations, kernels, threads and ranks are constants, so the
theorems hold for any.

**GraphExecutorProofs.** `Invariance`: `Spec => []IInv`. `IInv`, in
`GraphExecutorInv`, is needed because no property is inductive alone. Its heart
is that `remaining[n]` is the number of scheduled edges into `n` not yet
signalled, and `consumers_left[n]` that of scheduled edges out of `n` not yet
released, where `sent` and `freed` record which edges are done; a count that
drops to zero then means that *all* edges are done, so that a node is pushed
once and a slot freed after its last reader. The rest ties labels of threads to
outcomes of the nodes they hold. `TypeCorrect` (no counter wraps),
`NodesExecutedOnce`, `InputsAlwaysReady` and `ReturnsLast` follow from it.

**IncrementalRunsProofs.** `IncrementalInvariance`: during a run, the result of
every settled node that has not failed is what a full run computes for it. For
a computed node this follows from its dependencies; for a served one because a
node that is not dirty has no moved stamp and no missing entry anywhere
upstream (`Descendants` is closed), so its cache entry was computed from the
stamps in force now. `CacheAlwaysCurrent`, `SuccessMeansFull` and
`RecomputeIsJustified` are the consequences.

**IntrusivePtrProofs.** `PtrInvariance`, for any finite set of pointers. The
counts are the cardinalities of the sets of pointers that own them, where the
weak count that stands for the strong pointers passes to the one that drops the
last of them until it has released the resources. A word of `kUniqueRef` means
that the pointer in `reset_` is the only one, so nobody can move the counts
before it stores zero; a word that `lock` exchanges had a strong pointer in it,
so the object had not begun to die. `CountsAlwaysExact`,
`StrongAlwaysKeepsAlive`, `DeleterAlwaysLast`, `AlwaysReclaimedOnce`,
`AlwaysExpiredIsReleased`, `NeverLeaks` and `DeadAlwaysStaysDead` follow.

**GraphExecutorProofs: the promise.** `FateInvariance` adds to `IInv` what became of every
node: a node with a result has dependencies with one, a skipped node has one without
unless the run was cancelled, its slot holds what the outcome says until its last
consumer has released it, and the failure on record is that of a node that threw,
or of the one worker that is about to record it. The wake-up part, that a queued
node has a worker on its way to it, is inductive together with the rest: a worker
decides to wait only over an empty heap, and whoever pushes a node is itself on its
way back to the heap. `FailuresAreReported`, `NoLostNode`, `IntermediatesAreFreed`
and `CacheStaysClean` follow, and `PromiseKept`: the executor, the refusal of a sink outside the graph included, implements
`GraphRun`, each action of a thread being one step of it or none (`PromiseKept` is
about `GraphRun`'s `Spec`; its fairness, the rest of `ImplementsGraphRun`, is left to
the run).

**GraphBuilderProofs.** `BuilderInvariance`. An edge is consumed once the node it
leads from has been expanded past it; `in_degree[n]` is the number of edges into `n`
that are not consumed, so it reaches zero when the last one is, whatever edges are
repeated. `GraphsFit` shows that what `build()` freezes meets `GraphAssumption`
and `AcyclicAssumption`, which the executor's theorems start from: of a nonempty
set of nodes, the one that comes first in the order depends on none. For
`VerdictIsRight`, the nodes left over when the queue is empty each have an edge
from one left over, which is a cycle, and a full order excludes one.
`PrioritiesAreLongestChains`: a node is ranked one above its highest dependent and
never above what is left of the order, so a longest chain can be built from it by
taking the dependent that made its rank.

**GraphClientsProofs.** `PruningFaithful`: `PassesSpec => []PrunedFaithfully`. The
invariant says that the marked ids lie between the sinks and what they need, and that
a marked id not on the stack has its dependencies marked, so that an empty stack means
the least closed set. The new ids keep the order of the old ones, and `edges` is, up to
`next_id`, the input edges of the marked ids renamed, in order, which is what
`dependency_range` of the new graph must give back. Every edge leads from a marked id
to a marked id, and a set of new ids none of which comes without a dependency in the set
would be such a set of old ones, so `build()` finds no cycle and succeeds. `KeyedGraphAlwaysRight`: `KeyedSpec => []KeyedGraphRight`, that is, a node's
inputs are exactly what its resolver called `resolve()` for, in order; it does not say that a
discovery calls it for all it names, which is false. `KInv` says that
the frames of the stack hold distinct keys that are not resolved, and that a frame's
`deps` are the nodes of what its resolver called for, so that the node made of it gets
those edges and no later one adds to them. Every edge leads to a node from an
earlier one, so there is no cycle to refuse. `KeyedGraphsFit`: such a graph meets the executor's
assumptions.

**SizesAndStridesProofs.** `ShapesAreHeld`: `SasSpec => []SInv`. `SInv` says that an
object's words, or its block, hold its sizes followed by its strides (`Holds`), that
an object that is not alive owns no block, that no two own the same, and that every block is
owned. Each call changes one or two objects and only the blocks these own
(`ChangeOf`); lemma `Changed` does the rest once for all calls.
`ShapesAlwaysSurvive` follows: the owners of blocks and the blocks are in
bijection, so their numbers agree, and objects that compare equal hold the same words.

**CachingAllocatorProofs.** Its first part proves what splitting,
merging, adding and releasing do to a heap on its own: the chains tile their
segments and are linked both ways, each block is in one place, and the sums of sizes
move as the code's counters do. Induction over segments and
over sums is an argument by a smallest counterexample (`WFMin`), because the
library's induction theorems cannot be instantiated. The second part proves
`AllocatorInvariance`, `Spec => []AInv`. `AInv` adds to the
properties the shape of calls (`CallInv`), the mutex (`LockInv`), the driver's
segments and who has obtained one but not booked it (`DeviceInv`), and that events
recycled but not erased exist only inside a flush (`SyncedInv`). `TypesHold`,
`HeapIsTiled`, `NoMergeMissed`, `BytesAreAccounted` and `NothingIsLost` follow, for
any driver failures but those of `cudaEventSynchronize` (`NoSyncFault`). That
hypothesis is needed: `allocator_sync_fault` is the counterexample. What
`NothingIsLost` excepts is named in the properties: a `Stranded` block, which the device
switch of `insert_events_locked` left nowhere, and a segment of the device that
`cudaFree` refused to take back or whose only trace was a stranded block
(`SegmentsMayLeak`); its statement is that these are all. `NothingIsOrphaned` says that
without that failing switch every block is live, pooled or queued, so a failing
`cudaEventRecord` is handled as the comment there promises; the hypothesis is needed, and
`allocator_device_fault` is the counterexample. In
`allocator_faults`, where such calls fail too, there is one block and a queue never
holds two events, so that no entry is left behind a recycled one. `CapIsHeld`
needs that the driver fails only for lack of memory or in `cudaFree`: any other error
leaves a call before it has trimmed what it cached. `CapInv` says that whoever has filled the
cache past the cap has a trim or a flush ahead. `FractionIsHeldAlone`: with one
thread (`OneThread`) the memory fraction is respected. `FractionInv` says that a call
between the check and the booking still has room for its segment: with the mutex
dropped, nobody else is there to book or to lower the limit, and what the call itself
does on the way, a flush before the retry, only gives bytes back. `OneThread` is needed:
`allocator_fraction` is the counterexample with two.

**CachingPromiseProofs.** `StreamsAreRespected`: the allocator implements
`StreamHeap`. `SInv` says why memory is free when it is handed out: a kernel in flight only
touches blocks of its own stream, live blocks whose client answers for it (it has
named the stream by `record_stream` or by the hint of the free in progress), and
blocks that an event recorded behind the kernel keeps out of the pools
(`HeldBack`). Because a stream completes in order, an event that has completed
has no kernel before it, so a block that goes back to its pool is touched by its
own stream alone, and merging does not change that since blocks only merge within
a stream. `Keeps` is what each action is shown to do: keep `SInv`, and take one step of
`StreamHeap` or none. The hypothesis `StreamsUsable` has two parts.
`allocator_streams` with "record" among its `Faults`, or with `s2` for its
`DefaultStream`, violates `ImplementsStreamHeap`.

* `cudaEventSynchronize`, `cudaEventRecord`, the device switch of
  `insert_events_locked` and `cudaFree` do not fail. The last two hand out no memory
  too early, as `allocator_streams` checks; the proof leaves them out, because
  `SInv` says nothing of a kernel's block once it is stranded or its segment has
  not waited. When `cudaEventRecord`
  fails for one of a block's streams, the block is queued for the streams recorded so
  far, or pooled when there are none, and handed out again while the stream that has
  no event works in it.
* the default stream is not among the streams that work is put on. `record_stream`
  ignores `nullptr` (and so does the hint of `deallocate`), which is the handle of
  the default stream, although
  `cuda_caching_allocator.h:121-126` says that the uses of any other stream than the
  one of the allocation are recorded. Work on the default stream is then
  not waited for.

**Only model-checked.** The liveness properties `RunReturns` and `CallsReturn`: the
prover has no rules for fairness here; so is the liveness in `ImplementsGraphRun`.
Beside them:

* `FlatHash` (`AgreesWithMap`, `LoopMeetsEachOnce`): an insertion that overflows grows
  the table, which inserts every element again, which may overflow. `emplace` and
  `rehash` call each other within one step, and what they return is an induction over
  data, which no installed prover can do.
* `MetalAllocator` (`HeapSound`, `Flushed`, `DiagnosticsTrue`): a call holds the mutex
  from end to end, so it is one step, in which `trim_cache` recurs and a release folds
  over the segments.
* `Expressions`, `Evaluator`, `MetalFusion`, `Tensors` (`ComputesEach`,
  `AlignedWhereClaimed`, `ReadsItsElements`, `BuffersOwned`): trees are evaluated by
  recursion, and strides are products over the dimensions, also in the part of
  `BuffersOwned` that says into which buffer a view looks.
* the registers (`LanesRight`, `MasksAgree`): every one has a fixed number of lanes, and
  TLC goes through all of them; a proof would have no constant to generalise over.

The rest of what the runs check is proved, but for hypotheses named with each theorem.
`FractionHeld` with two threads, `Sorted` with a failing `cudaEventSynchronize`,
`NotOrphaned` with a failing switch of the device and `DiscoveredNeedsAreInputs` are
false, and runs show it.

## 6. What is not modelled

Whole parts. The CPU allocation reporter only feeds a profiler (its fast counter
is read without the lock of its table). The registry is filled before `main()`
(`Has` and `run` read it without the lock). The profiler session is experimental
and its headers are not in the tree. Stream guards, models, calibration,
compression, CPU information and NUMA placement are scopes, floating-point
numerics, or wrappers of libraries and system calls.

Of the executor: hooks, messages and profiling. Offsets in the frozen graph are
32-bit in the code and unbounded here. A stamp of 0 is compared like any other,
as the code does, and so `OnlyAffectedRecompute` counts a node whose stamp moved to 0 as
touched. That is not what `graph_executor.h:158-159` says: 'Stamp versions starting
at 1: version 0 means "unstamped" and never triggers a version-based recompute.'
Line 264 of `graph_executor.cpp` compares with `!=` alone, so a node that is
unstamped again, or in a rebuilt graph, against a baseline other than 0 is recomputed. The
code errs on the safe side, recomputing what need not be; the disagreement with the
header stands and has no run of its own. Discovery that
names new keys for ever does not end, and no bound is claimed.

Of the CUDA allocator: peaks, hit counters, virtual-memory segments and the
registration of callbacks. A client's call whose first act, the switch of the device,
fails changes nothing and is no step. `record_stream` with the null handle of the default stream does
nothing, as the code does; the model gives the default stream no work of its own.
Of the Metal allocator: registration of callbacks, also from inside one, and
profiler reports.

Host memory is never refused: a growth of the hash map, a split of a Metal
block, a shape or a temporary of a reduction that cannot be allocated part of
the way is outside the models. More equal hashes than `max_lookups` grow the
table without end; six keys stay below that.

Of the registers: rounding (without SSE4.1 it goes through a 32-bit integer),
roots, and the storing of a mask of doubles without SSE4.1, which goes through a
numeric conversion and does not return the mask. Of expressions: instruction sets
whose masks have the type of a packet (`MaskIsPacket` is FALSE in the runs), where a
scalar operand of a logical operator is spread as its value; operands that overlap
the destination at an offset; operands of different sizes, which the code does not
compare; streams. Of tensors: slices with a negative step (which start one past the end
when the start is not below the size), an assignment that would free the buffer it
borrows, streams, printing, and the predicates of a matrix without elements.
