# A verification of tvm-rt-wasm

tvm-rt-wasm is a small runtime, in C, for models compiled by TVM: it loads a
compiled library, creates an executor for it (graph, AOT, Relay VM or Relax
VM), takes inputs, runs, and gives outputs, on the CPU and on CUDA or WebGPU.
What makes it hard is, nearly everywhere, ownership: structures are released by
hand, on paths that can fail at any allocation, read, lookup or kernel; memory
is borrowed, shared, pooled and handed on; and the user's calls come in any
order, after failures too. One part is concurrent: the native WebGPU wrapper,
where the thread that calls and the thread of Dawn's callback meet at a mutex
and a condition variable. Everything else runs in one thread. This directory
models those parts in TLA+, checks them with TLC and proves what can be proved
with TLAPS.

Paths below are relative to `src/src/` in the tree that holds this directory,
public headers to `src/include/`.

1. [Inventory](#1-inventory)
2. [Modules](#2-modules)
3. [How the models correspond to the code](#3-how-the-models-correspond-to-the-code)
4. [Runs](#4-runs)
5. [Proofs](#5-proofs)
6. [Disagreements found](#6-disagreements-found)
7. [Not modelled](#7-not-modelled)
8. [Plan](#8-plan)

## 1. Inventory

| Part | State it keeps | Operations | Hard behaviour |
|---|---|---|---|
| Relax VM interpreter (`backends/relax_vm/relax_vm_runner.c`, `relax_vm_register.h`) | array of frames with register buffers that later calls take over, program counter, reference-counted heap objects | Call (VM or packed function), Ret, Goto, If; copy and free of registers | buffers exchanged between frames, counts across calls and failures, frames left by a failed run |
| Relax VM API and builtins (`relax_vm.c`, `vm_builtin.c`) | inputs and output of each function, constants | Create, SetInput, Run, GetOutput, Free; alloc_storage, alloc_tensor, reshape, null_value, stubs | partial creation, results a builtin does not write |
| Relay VM (`backends/relay_vm/`) | one frame of registers that own or borrow tensors, inputs, a result register | Move, Ret, InvokePacked, AllocStorage, AllocTensor, LoadConst, ReshapeTensor, KillRegister; SetInput, Run, GetOutput, Free | moves of ownership without counts, borrowed user memory |
| Executable loaders (`relax_executable_module.c`, `relay_executable.c`, `relay_instruction.c`) and creation of a machine over what they deliver (`relax_vm.c`, `relay_vm.c`) | the tables of functions, constants and calls while they are filled; the module and who owns it | load each section, make the constants on the device, create, free | failure at any read, error paths with status 0, tables filled out of order, cleanup of half an array |
| Graph executor (`backends/graph/`) | nodes, entries, storages shared by entries, maps of names, operator closures, the module | Create, Free, Run, SetInput, GetOutput, LoadParams | a release after a failure at any point, storages shared in time and space, parameters loaded half way |
| AOT executor (`backends/aot/`) | tensors, argument arrays, the module | Create, Free, Run, SetInput, GetOutput | partial creation, metadata from two places, ownership of the library |
| Device registry and C runtime API (`core/device/device_api.c`, `core/tvm_runtime/c_runtime_api.c`) | table of device APIs, current device, table of global functions, last error | DeviceAPIGet, SetDevice, memory, copies, streams, FuncRegisterGlobal, module functions | lazy creation that fails, three records of one fact (the current device) |
| CUDA and WebGPU device APIs (`accelerators/`) | contexts, current device and stream; cache of temporary workspaces | the interface of `device_api.h` | a cache at its limit, memory found by address |
| Modules and libraries (`core/module/`, `accelerators/*_module.c`) | import tree, function caches of each module, symbols of the system library | open shared and system library, load the blob, GetFunction, Release | tree built from a table, empty modules replaced, failure at any module, recursive release without counts |
| C backend API (`core/tvm_runtime/c_backend_api.c`) | (the module's and the device's) | TVMBackendGetFuncFromEnv, AllocWorkspace, RegisterSystemLibSymbol | a cache over imports and globals that change |
| Trie (`core/utils/trie.c`) | trees of nodes on the heap, together a map from names to pointers | create, insert, query, visit, clone, release | names that begin others, insertions that stop half way, copies that start as the original |
| Readers (`core/utils/stream_reader.c`, `binary_reader.h`) | a position | ReadBytes, ReadToBuffer, Free | reads at the end |
| CUDA graph extension (`accelerators/cuda/graph`) | a captured graph and its stream | create (capture), run, free | failure in capture |
| WebGPU C API (`accelerators/webgpu/c_api/`) | a flag, a mutex, a condition variable; the queue of the device | copies between host and device, copies on the device, launches | a synchronous interface over an asynchronous queue, a callback on another thread |
| JavaScript package, examples, driver stub | | | bindings to what is outside this repository |

How they interact. An executor owns the module it is created from; the module
owns its imports. Executors find kernels by `GetFunction` at creation (graph,
AOT, Relay) or at loading (Relax); kernels call back into
`TVMBackendGetFuncFromEnv` and `TVMBackendAllocWorkspace`. Everything that
touches a device asks the registry for its API, which creates it on first use.
All calls are synchronous, even where the device is not (WebGPU); the errors of
any layer are a status and a global message, and the layer above cleans up.

What makes each part correct:

* the frame pool: every allocated buffer is in exactly one slot, every frame has
  room for its registers, and lower frames do not change;
* the Relax VM: counts are exact in every state, every handle is live, a
  return leaves the caller's other registers alone, a run that returns 0 is a
  run of the function asked for, and Free leaves nothing;
* the Relay VM: every block has exactly one owner, nothing of the user's or the
  executable's is freed, a failed run keeps inputs and result;
* the loaders: the module is the machine's exactly while there is a machine; a
  machine that exists can run (constants in memory, room for every call's
  arguments, each function at the index of its name); what a failed load loses
  is known;
* the WebGPU wrapper: no wake-up is lost and every call returns if Dawn reports
  each submission, a copy to the host gives what the calls before it meant to be
  there;
* workspaces: nobody gets a block that somebody has; the cache is bounded and
  loses nothing it need not lose;
* device registry: a table entry is an instance that works, the device that
  `__tvm_set_device` remembers is the one the instance remembers and, while no
  call of it failed, the one the driver has current, release is complete;
* modules: nothing is released twice, an open library is whole, only a failed
  load loses anything, and a name means the same function from first to last;
* graph executor: any failed creation can be released, and loses nothing but
  what section 6 names; the module has one owner; a run computes the graph
  although entries share storage and earlier runs failed; a status of 0 means
  what the header says;
* AOT executors: a library has one owner, whatever creation fails in; memory is
  of one executor or freed; outputs are of the model and the inputs asked for;
* tries: each node is in one tree and has one place there; a query finds what was
  inserted last under exactly its name.

The hazards, each at its line with the properties that watch it, are in
`PROJECT.json`.

## 2. Modules

| Module | Models | Composition |
|---|---|---|
| `RelaxVMFrames` | the frame array and its buffers; `FramesSpec` is the pool on its own | extended by `RelaxVM`, which implements `FramesSpec` |
| `RelaxVMRegister` | register values, reference counts, heap cells | extended by `RelaxVM` |
| `RelaxVM` | interpreter, builtins, public functions | `MCRelaxVM` gives it an executable |
| `RelaxVMProofs` | theorems about `RelaxVMFrames` and `RelaxVM`: the refinement of `FramesSpec` first, the references last | |
| `RelayVM` | registers, interpreter and public functions of the Relay VM | `MCRelayVM` gives it an executable |
| `RelayVMProofs` | theorems about `RelayVM` | |
| `RelaxExecutable` | loading a Relax executable, creating and freeing its machine | instantiated by `Loaders` |
| `RelayExecutable` | loading a Relay executable, creating and freeing its machine | instantiated by `Loaders` |
| `Loaders` | either of the two, and what loading promises whichever it is | `MCLoaders` |
| `LoadersProofs` | theorems about `Loaders` and `Trie` | |
| `NameMap` | what `trie.h` promises: a map from names for each holder | abstract |
| `Trie` | the nodes of the tries and the operations on them | implements `NameMap`; `MCTrie` gives it names |
| `WorkspaceSpec` | what the device interface promises of workspaces | abstract |
| `Workspace` | the caches of CUDA (`Compacts = TRUE`) and WebGPU (`FALSE`) | implements `WorkspaceSpec` |
| `DeviceAPI` | registry, CUDA and WebGPU instances, C API over them | `MCDeviceAPI` |
| `DeviceProofs` | theorems about `Workspace`, the refinement among them, and `DeviceAPI` | |
| `Modules` | libraries, import trees, lookups, global functions | `MCModules` gives it blobs |
| `ModulesProofs` | theorems about `Modules` | |
| `GraphJson` | graph documents and the ways in which loading one ends | extended by `GraphExecutor` |
| `GraphExecutor` | graph executor, its parameters, its CUDA extension | `MCGraphExecutor` gives it documents |
| `GraphExecutorProofs` | theorems about `GraphExecutor` | |
| `AotExecutor` | AOT executors and the libraries they are created from | `MCAotExecutor` gives it models and libraries |
| `AotExecutorProofs` | theorems about `AotExecutor` | |
| `WebGPUQueue` | the WebGPU wrappers, native and JavaScript, their threads and the device's queue | `MCWebGPUQueue` |
| `WebGPUQueueProofs` | theorems about `WebGPUQueue` | |

Each definition named "faulty variant" in a comment is a mutation of the one
below it, the kind of slip that code invites (a dropped reset, an exchanged
order, an off-by-one). It is used by nothing in the specifications: for every
property of a run there is one variant that the property rejects, named in
`PROJECT.json`, so that none of the properties is idle.

Undefined behaviour of C (a call through a null pointer, a read of freed
memory, a second free) is the value `"undefined"` of `state` (of `pc` in the
loaders), after which nothing happens; the properties say where it can not be
reached.

## 3. How the models correspond to the code

**RelaxVMFrames.** `frames`, `frame_size` and `frame_capacity` are the fields
of the machine; `bufcap` says how many registers are behind each buffer, which
the code does not store, so that a frame whose recorded capacity is not its
buffer's would show. `FramePush` is `TVM_RT_WASM_RelaxVMFramePush` in its
three branches: the slot's own buffer is large enough (`PushOwn`), a higher
slot has one that is (`PushSwap`, which exchanges the two), or one is
allocated (`PushAlloc`). Growth of the array is part of the push.

**RelaxVM.** One action is one instruction or one public call. `heap` maps
addresses to cells with a kind, a count and, for managed tensors, shape and
storage; addresses are reused as soon as they are free, so that a handle kept
too long meets another object. `regs` are the registers behind each buffer;
what a buffer holds when it is allocated is what `memset` leaves. `CallPacked`
covers a packed function that answers, one that fails, and one that answers 0
without writing its result (`Uninitialized`: any of three values, standing for
what was on the stack). `RetToCaller` and `RetToUser` are the two ends of Ret;
the first releases the callee's registers before it copies the result.
`state = "undefined"` is a call with an argument of the wrong kind. The code is
a constant. `CodeAssumption` says of it what the compiler emits and the loader
does not check: that control, `Follows`, stays in the function that runs until
it returns. What the loader does check is `RelaxExecutable`'s.

**RelayVM.** `mem` says of every block who may free it. A register is null, a
borrowed or an owned tensor, or a storage; `FreeIsSound` says whether freeing
some registers frees each block once and only blocks of the machine, and every
action that frees asks it. `Run` lends the inputs to the frame; `Fails` is the
exit taken when an instruction fails; `Unsupported` the instructions that have
no implementation and end the loop with the status of the one before. A tensor's
shape is a block of its own, since the code allocates it so.

**RelaxExecutable, RelayExecutable, Loaders.** A load is one action per section
(per function, per constant, where the code can stop in the middle of a
section), in the order of the code; what is read is chosen when it is read, and
every section can fail. `heap` is the set of blocks that are allocated, `held`
those that the module or the machine points at, so that `heap \ held` is what
is lost. Data is reduced to what the control depends on: a Relax function is a
kind (a VM function, a packed one that lookup finds or not, a kind that is
refused), a Relay function a name, a constant the device it has to go to, a
call the number of its arguments and the constant it names. `pc` is the section
that is next. A Relax function that is refused ends its section with status 0:
`Kept` leaves the slots after it `Cleared`. `Put` (Relay) places a function at
the index of its name: two of one name leave the first without an owner, a name
that is not in the table leaves the function without one, and creation over an
empty slot is `"undefined"`. `SetupConstant` is a constant going to its device,
with the cleanup loop of either machine as it is written. `source` (Relay)
tells the three streams apart: a file, bytes that go on after the last
instruction, and bytes that end with it, which the reader refuses. `Loaders`
runs either over one memory and states the three properties for both.

**NameMap, Trie.** The nodes are addresses; `edges` has `<<n, c, m>>` when the
son of `n` at the index of the byte `c` is `m`, and `value` the data of the nodes
whose `has_value` is set. Nothing in that state says that a node has one
son for a byte or one parent. A loop over a name is a walk of `k` steps
(`Walks`): insertion walks the nodes that exist, makes the others up to the end
or to the first byte without an index (`ReadUpTo`), and leaves those it made when
it is refused. A query writes the caller's variable when it finds a value and when
a node is missing, and leaves it alone otherwise, so what it held is a parameter.
The recursion of visit, clone and release is over `Tree`, what the
edges reach. `f` in `TrieClone` is the copy of each node. Names are sequences of
bytes; which of them callers use is the constant `Names`. `Map` reads the entries
off the nodes: a name is there when it leads to a node with a value.

**WebGPUQueue.** One process for the host thread, whose `pc` goes through the
locks and waits of `wgpuAddTasksToQueue` and `wgpuDevicePoll` one at a time, one
for the callback, one for the device. `queue` holds commands the device has not
executed, `due` counts completions that were not reported yet; a command that is
executed moves from the first to the second. `CondWait` releases the mutex and
sleeps in one step, as `pthread_cond_wait` does; it may wake for no reason
(`SpuriousWake`). The JavaScript build has no lock: it awaits the mapping of its
own copy. The mapping of the staging buffer is a step of its own: `RequestMap` asks
for it after the submission, the device does it (`MapDone`) some time after it has
executed the copy, and `ReadBack` reads the range, a null pointer if it is not
mapped yet; `Await` is the JavaScript build's wait for it, and the native build
has none. Dawn is external. `dawn.c` makes one request to be told that the work is
done (`:97`), and waits as if it were answered after each submission that
completes; the interface promises one answer. `reports` has both: `"each"` adds a
completion to `due` for every submission, `"once"` one for the request, when the
device is first seen. Memory is a value per
buffer and a kernel a function of values. `meant` and `quiet` are history: what
memory would be if calls took effect at once, and whether anything was
outstanding when a copy began.

**Workspace.** The array of cached blocks is a set of records (its order is
never observed: entries are found by size and flag, or by address). `AllocNew`
includes the compaction and the entry into the cache. The driver is any
function that returns blocks nobody has. A request the driver can not satisfy
changes nothing and is no step. `current` is the device that a new block comes
from.

**DeviceAPI.** `instance` is the table; `cuda` the static instance with its
`created` flag, contexts and current device; `drv` the driver's own contexts
and its current one. Each call of the API begins with `DeviceAPIGet`, which
may create, and each call of the driver may fail. `SetDevice` writes
`cur_device` before it knows that there is an instance, and on a failed creation
ends in `"undefined"` (a null pointer is called). `drv.follows` is history: the
last thing to move the driver's context was a set_device that reached it.
`ReleaseAll` is the program's destructor; where it releases the instance of CUDA
and CUDAHost twice it ends in `"twice"`, with what the first release leaves.

**Modules.** A blob is a sequence of modules, a table of imports, and whether
the library has a module context. `Slots`, `Loaded` and `RootOf` build the tree
the way `LibraryModuleLoadBinaryBlob` does, the replacement of empty modules
included; `OpenFails` is a failure at any module. `env` and `own` are the two
function caches of a module. `Search` is the recursion of `GetFunction` through the
imports: level by level, each module answers what it has (`Answer`) or what the
first import answers that does; a tree is no deeper than there are modules.
`Releases` is the recursion of `Release`, and `Reach` the modules it comes to.
`Packed` says what the compiler packs and the loader does not check.

**GraphJson, GraphExecutor.** A document is the keys of the JSON in the order
in which they come, and what is under each. `CaptureLeaves` is what a
capture can leave behind. `GraphExecutorLoad` is the *set* of
ways in which loading can end: the allocations made when it ends (`parts`), the
storages, a status. It covers a failure at every key before and after its
allocation, missing keys, lists of different lengths, maps, sizes of zero,
devices that do not match, allocation of storages and unknown operators. Nodes,
entries and storages are numbered from 1. Kernels are uninterpreted: what a
node writes is the term of its function and its arguments, so a run is correct
when the term in an output is the term of the graph. `Run` may fail at any node
and leaves `Torn` in what that node writes. `LoadParams` reads a blob as a
sequence of reads, the first that fails is where the blob ends, and what was
copied before stays.

**AotExecutor.** Several executors live side by side, each from a library of
its own or from the system library, which is never released. `mem` says what
each block of memory was allocated for; `owner` who has to release a library by
the header, `open` whether it is there. A creation is one of three actions:
refused before anything is allocated, failed at the k-th tensor or at the
constants, or complete. `MetadataOf` asks the metadata linked to the program
before the library's, `MainsFor` finds the main function by the model's name.
`given` and `ran` are what the user gave for the inputs, and what was given at
the last run that returned 0: they are history, read by nothing but a property.
All devices fail in the same way, so that the device is not part of the state.

## 4. Runs

All numbers are of a 2-worker run.

| Run | Configuration | What it shows | Size |
|---|---|---|---|
| `run` | `RelaxVMRun.cfg` | No packed call fails; the array starts at 1 and grows twice. Buffers are exchanged and replaced without being shared, lost or overrun, a run that starts on an empty stack ends in its own function, and functions without a loop terminate. | 10,952 states, 41 s |
| `fail` | `RelaxVMFail.cfg` | Kernels and allocations fail in nested calls, then the machine is used again and freed: counts stay exact, nothing dangles, nothing is lost, callers keep their registers. | 177,418 states, 107 s |
| `stale_run` | `RelaxVMStaleRun.cfg` | Violation, see section 6. | |
| `relay` | `RelayVMRun.cfg` | A function with every instruction, the identity on a borrowed input, and one that stops in an instruction without an implementation; kernels and allocations fail. | 2,680 states, 3 s |
| `loaders` | `Loaders.cfg` | Both loaders, a failure at every section, function and constant, on the CPU and on a device; then creating, trying again, freeing. | 407,340 states, 6 s |
| `workspace_cuda` | `WorkspaceCUDA.cfg` | Three clients, four blocks, two sizes, two devices, a cache of two entries that compacts: implements the promise and loses memory in one way only. | 625,156 states, 41 s |
| `device` | `DeviceAPI.cfg` | Two CUDA devices and WebGPU, two attempts at creation, every driver call failing. | 240,583 states, 15 s |
| `modules` | `Modules.cfg` | Five kinds of blob opened as shared or system library, failing at any module, and opened again. | 96,228 states, 30 s |
| `graph` | `GraphExecutor.cfg` | Twelve documents (three good ones, nine broken at one place each), two device lists, with and without the CUDA extension, six parameter blobs from memory and from a file. | 18,660 states, 76 s |
| `aot` | `AotExecutor.cfg` | Two executors, three models (two inputs of one name; two pools; constants for a pool), two libraries and the system library, metadata in the library or linked, every allocation and run failing. | 70,888 states, 20 s |
| `webgpu` | `WebGPUQueue.cfg` | Both builds, three outstanding commands, spurious wake-ups: the lock protocol, no lost wake-up, copies that see the program order although the native build does not wait for the mapping, and with fairness which calls return: all if Dawn reports each submission, and all but a copy after the one answer if it gives one. | 715,552 states, 56 s |
| `webgpu_wait` | `WebGPUWait.cfg` | Violation: a copy to the host stops waiting before the copy is done, see section 6. | |

**The bounds and why they are enough.** *Relax*: an exchange of buffers needs a
slot above the top with a larger buffer than the slot at the top, growth in the
middle of a stack needs one frame more than the capacity; four slots, functions
of different sizes and a stack that is used again have both. `choose` calls
`double` calls `main`, so calls nest three deep, through both branches; the
cells are as many as the deepest run needs besides a value kept from the run
before. *Relay*: one frame is all the code can use. *Loaders*: two functions,
constants, calls and names: an element that fails after one that did not, a
name used twice, a name that is missing, a slot that is never filled. *WebGPU*:
three outstanding commands are a kernel, the copy behind it and a completion
still to be reported, which is the smallest state in which a completion can be
taken for another; two buffers and a kernel that changes every value make a
copy that comes too early show. *Workspace*: a full cache, a block outside it
and a third request are the smallest state in which compaction, an uncached
block and a hit coexist; three clients and four blocks have it. *Device*: two
devices tell "current" from "asked for", two attempts tell a failed creation
from a good one. *Modules*: trees of depth three with an empty root, a module
shared by no other; two registrations of one global name tell the old function
from the new. *Graph*: the good document has a parameter, an operator of two
outputs, one in place and a storage used a second time: the cases that sharing
can get wrong.

The tries have no run of their own, since they are proved for every value of the
constants. `MCTrie` and `Trie.cfg` are the instance the properties were tried
on before: six nodes hold two full copies of the longest trie, three names are
one that begins others, one that goes on from it and one that is refused after
a node; two values tell the last insertion from the one before (1,001 states,
43 s, no error). The empty name and longer ones are the proof's.

**Deadlock.** The machines, the loaders, the modules and the devices really stop
after Free, Release or Exit, after a load that failed, and in `"undefined"`. The
WebGPU queue, the AOT and the graph executor, which can always be used again, are
checked for deadlock.

**Fairness.** `RelaxVM!FairSpec` has weak fairness of `Step`, the interpreter's
next instruction. It is a loop in one thread that does nothing else until it
returns, and packed functions return. Nothing is assumed
of the user. The termination of Relax functions is claimed for those without a
jump backwards (`LoopFree`): a loop may go on as long as its condition says.

`WebGPUQueue!FairSpec` has weak fairness of the host inside a call (it is one
thread that does nothing else), of the device (it executes what it was given, and
maps the buffer of a copy that is done) and of the callback once it runs. `CallbackLock` is strongly fair: the mutex is
free again and again but not for ever while the host polls, and that a thread
that waits for it gets it some time is the fairness of a mutex. Nothing makes
the user call anything, nor the condition variable wake spuriously: `CallsReturn`
needs neither. Which callbacks are due is no matter of fairness but of `reports`.
That a call returns is claimed where its wait has an answer (`Answered`): in
JavaScript, for calls that do not wait, and, under the assumption `dawn.c` makes
of Dawn, `"each"`, always. Under `"once"` the property says the opposite of
the remaining call: a copy to the host that clears the flag after the one answer
is `Stranded`, and no step of anybody changes that. `SleeperIsWoken` is claimed
under `"each"`.

## 5. Proofs

Eight modules hold theorems for every value of the constants under the assumptions
of the modules they are about.

*Frame pool* (`RelaxVMProofs`, from `FramesAssumption`: the null pointer is
no buffer, the default capacity is positive). The invariants are not inductive one by
one: that a slot fits its registers needs the capacity of the buffer it was
given, that the exchange loses no buffer needs that both slots had different
ones. `IInv` is the conjunction of the types, the distinctness of buffers, the
bounds, the emptiness of idle slots, the equality of recorded and real
capacity, and that every slot with a buffer has a capacity above zero; the last
is what lets the first reusable slot be a slot with a buffer. Which slot is
first is a `CHOOSE` of a least element, whose existence is a lemma by
well-founded induction on the naturals. The proof goes action by action through
growth, then the three branches of the push. Proved: types, that idle frames are
empty, `BuffersHaveOneSlot`, `RegistersInBounds` and the action property
`LowerFramesKept`.

*Relax VM* (`RelaxVMProofs`, from `CodeAssumption` besides). The whole machine is
shown to implement the pool: `MachineUsesItsFrames` maps every instruction and
every public call to a push, a pop, the release of all frames, or a stutter of
`FramesSpec`. For that each instruction has a lemma that says which it is, and
`VMInv` keeps what a push needs to know (how many registers, a return address in
the code). The pool's theorems then hold of the machine for any code, failures
included. `CleanRunsReturnTheirOwn` needs more: that the frames of a run that
began on an empty stack are those of calls in functions, each interrupted at one
of its own instructions, and that its bottom frame is the function that was
asked for. `VMInv` says so frame by frame; a push adds one frame, a return
continues after the call it comes back to, and `Follows` stays in the body.

*References of the Relax VM* (`RelaxVMProofs`, from `OperandAssumption`
besides: what an instruction reads is a register of its function, a call gives a
function what it takes without looking, what is allocated goes to a register,
and constants that are objects are live. The compiler emits such code; neither
the loader nor the interpreter checks it, and each clause is one that a step of
the interpreter relies on.) `RefCountsAreExact` counts the registers of the frames in use, a set
that every call and return changes. `CountInv` counts *all* registers of *all*
buffers, and says apart from that (`SpareOK`) that those outside the frames refer
to nothing; so a push or a pop only moves the line between the two. Within an
instruction a result is freed in one place and copied before it is stored in
another: `Config` is a machine with one more value in hand, and each half of an
instruction leads from one `Config` to the next. `FramesAt` says which function
each frame is in the middle of, after failures too, which is where the operands
get their meaning. The heap comes first, whoever refers to it: `ReleaseExact`
says that what `Release` frees is what loses its last reference, a tensor's
storage and shape with it. Proved: `RelaxTypeOK`, which has that every handle
leads to a live cell of its kind, `RefCountsAreExact`, and the action property
`CallerRegistersKept`.

*Relay VM* (`RelayVMProofs`, from `RelayAssumption`). The machine counts nothing and
checks nothing: an instruction may overwrite the owner of a block. What makes it
right is the code it is given. `Typing(K)` says what that means: `K` gives each
register a kind before each instruction (null, borrowed, owned, storage), each
instruction finds the kinds it needs, and leaves those of the next. `K` is a
certificate; `MCRelayVM` states one for its executable, and TLC evaluates
`Typing` of it, so that the hypothesis is one the compiler's code satisfies. The
theorems also take `SuppliesOneKind` and that the device has memory for inputs;
section 6 says what the code does without. `RInv` relates registers to kinds
and says that each block of the machine is at exactly one location
(`OwnOK`: the registers of the frame, of the inputs, and the result). Every
instruction and every call exchanges the blocks of a few locations, frees some
and takes new ones: `Rearranges` proves once that this keeps `OwnOK`. Proved:
`RelayTypeOK`, `EveryBlockHasOneOwner`, and the action property `RunsKeepInputs`.

*Loaders* (`LoadersProofs`, from `LoadersAssumption`). `IInv` says for each
section what it leaves: which blocks are held in terms of the tables read so
far, that nothing is lost before a machine's constants are made, that `limit`
bounds the arguments of every call, that a slot that is filled holds a function
whose name has that index. Each section has a lemma. That a cleared slot comes
after a function that was refused (the first), and that there is a largest
number of arguments (the least bound), are choices of a least element, by
`WFMin`. Proved: all three properties,
for tables of every size.

*WebGPU queue* (`WebGPUQueueProofs`, from `WebGPUAssumption`). The types, with who
holds the mutex at each step, and that a sleeper is woken, follow from a
`SyncInv` which adds why: if Dawn reports each submission and the host is past its
clearing of the flag, either the flag is set, or its own submission is queued, due
or being reported. If it answers once, `OneAnswerStrands` proves what `CallsReturn`
says of a stranded copy. That copies
read the program order rests on two facts: that the queue, executed from the
memory as it is, leads to the memory that is meant (`QueueLeadsToMeant`), which is
a statement about sequences of commands, kept by appending, by executing the
head and by replacing a copy nobody waits for; and that in a quiet copy the flag
can only be set by the copy itself. A range that is mapped is that of a copy that
is done (`Mapped`), so that what the host reads is right or no range at all.

*Workspace cache* (`DeviceProofs`, from `WorkspaceAssumption`). Five
invariants depend on each other: nobody gets a block twice *because* the flags
know who holds what, and the flags stay true *because* no block is cached
twice, which holds *because* cached blocks are live and the driver returns only
blocks that are not. `CacheOK` is their conjunction. That the cache is bounded, a
part of `WorkspaceTypeOK`, is by cardinality of finite sets: the compaction
leaves a subset of a finite set. From `CacheOK` every step is shown to be a step
or a stutter of `WorkspaceSpec` (`CacheImplementsPromise`), and a step that
loses a block to be a full cache dropping a free one (`OnlyCompactingLoses`);
with `Compacts = FALSE` nothing is ever lost (`WebGPULosesNothing`).

*AOT executor* (`AotExecutorProofs`, from `AotAssumption`: metadata counts are
naturals, names of models are unique, model values of their own). All four
invariants of the run are proved for any executors and models: types, one owner
for every library, that only pools are lost, and what tensors hold.
Free needs two more facts:
that the tensors of an executor are distinct blocks, and that the blocks behind
the outputs are marked as pools; with them a block that Free leaves is a
pool's. That distinct free blocks exist for an allocation comes from a
bijection of the finite set of free blocks with its cardinality.
`TensorsHoldWhatTheyShould` follows from `Values`: the main function an executor
found is its model's, since it was found by a name that no other model has;
inputs hold what was given and outputs the result on what was given at the last
run that returned 0 (`Shown`); and an executor that is not there has run nothing.
A step for one executor leaves the others' tensors because no block is of two.

*Device registry* (`DeviceProofs`, from `DeviceAssumption`: a device at least,
no stream is None). All three invariants of the run, for any number of devices
and attempts. The invariant adds to them that an instance that was created has,
for each device, the context of the *last* attempt, alive in the driver, and that
no context is of a later one (`Sound`); so what an attempt that failed left can
not be taken for the instance's, and the release at exit leaves only that. The
theorem about the release says what is left, also where the shared instance is
released twice; it does not say that this does not happen. The relation to the
driver's context holds while `drv.follows`: a set_device that reached the driver
establishes it, and whatever else moves the context ends it. Each
function of the API begins with `DeviceAPIGet`, so one lemma, `GetOK`, says what
is known after it whether it created, found or failed.

*Graph executor* (`GraphExecutorProofs`, from `GraphAssumption`). The assumption
names the documents for which loading and releasing are defined at all: no key is
read before what it depends on, a complete document has entries and nodes,
storages are numbered without a gap, and the user
gives a device of each type the document names; section 6 says what happens
otherwise. For all of these, good or broken, `AttemptOK` goes through the ways
in which loading can end: in each, a storage is linked, not allocated, or on the
device of the entry that will free it. `ReleaseOK` concludes that it is then
freed once, there, and `ReleasesAreSound` and `OwnershipFollowsCreation` follow;
what is lost is the shapes and, with the CUDA extension, what a capture leaves.

What a graph computes is a recursive function over its nodes, and so is what a
run leaves in the storages (`After`, `Eval`). `RunsComputeTheGraph` takes graphs that are
`WellPlanned`: nodes read outputs of nodes before them, inputs have storages of
their own, and between a node and those who read it nobody else writes to the
storage of its output. That is what the compiler's memory planner is for; the
loader checks none of it, and `MCGraphExecutor` has TLC evaluate it for each
document that loads. The proof is an induction over the nodes: after the first `n`,
every output that some later node, or the user, still reads is in its storage as
the graph has it (`Agrees`); a node finds its inputs so and its own output is
added. What failed runs have left is in storages no input has. The provers can not
instantiate a theorem of induction; the least number at which a claim fails,
which exists by `WFMin`, stands for it, both here and where recursive functions
are shown to exist and to be unfolded. `LoadsGiveAllOrNothing` takes, besides, that
no name is in a blob of parameters twice: then a tensor that is put in its place is not
replaced later in the same load.

*Modules* (`ModulesProofs`, from `ModulesAssumption`: device modules are finitely
many, names of things differ). All five properties of the run are proved, for any set
of blobs that are `Packed`: each module is in the blob once, the empty one only first,
with one import, every other module is imported by exactly one that comes before it,
and a library that is not the root has a module context. The compiler writes such
blobs, the loader checks none of it (section 6), and `MCModules` has TLC evaluate
`Packed` for each blob of the run. Release recurses without a count and lookup without
a bound, so neither `LibrariesAreReleasedOnce` nor `LookupIsStable` is inductive: the
invariant has to say which shape the imports have. `TreeOK` says that what is open is
a blob *as it was loaded*; `LoadedTree` proves that its imports are then a `Tree`, with
a rank that falls from a module to those it imports, so that everything is reached
once and nothing comes back. The case that takes work is the replacement of the empty
module by its import, while the rows are still being used: `SlotsAre` says what each
slot holds after each row. `Search` is a recursive function, unfolded by
the least depth at which it would not exist; `DepthSuffices` shows by the rank that
going deeper than the tree finds nothing more, hence that the root answers what it has
or what its imports answer (`SearchAtRoot`). A lookup changes the caches it reads:
that it finds the same afterwards rests on `CachesOK`, that no module but the
root has a cache, that what is cached is what the imports have of the name, and that a
shared library makes functions only of what it exports. `Kept` is what every step on
an open library does to these, and `Steps` adds what opening and releasing do.

*Tries* (`LoadersProofs`, from no assumption). That each node has one place
(`NodesHaveOnePlace`) and that tries are maps (`TriesAreMaps`), for any names,
nodes and holders. The invariant `TrieInv` says that the nodes are a `Forest`:
one son for a byte, one place for a node, first nodes the sons of none, and every node reached by a name
from the first node of a trie. From it a name leads to one node at most (`OneEnd`) and
one name, of one trie, to each node (`OneName`); the query needs the first, and
insertion, visit and release the second, to leave other names alone. Both are
inductions over names, done by `AllNames`: the shortest name outside a set that
has the empty name and grows by a byte does not exist. Insertion is described as a
`Trail` of old and new nodes and adds no edge to an old node (`Extends`), so what
led to an old node still does and nothing else; release takes away a set that no
other trie reaches; a clone gives each node a `Twin` and each edge the edge of the twins,
and what leads to a node leads to its twin. `TreeIsEnds` shows that what the edges
reach is what names lead to. `TriesImplementMaps` then maps each step to one of
`NameMap`.

Only model-checked: liveness (`RunTerminates`, `CallsReturn`), since temporal
reasoning about `ENABLED` is out of the prover's reach. Every other property of a
passing run is stated by a theorem.

## 6. Disagreements found

TLC finds a counterexample to what a header or a comment says in two runs:

* `stale_run`: a failed run of the Relax VM leaves its frames (the loop returns
  the status at `relax_vm_runner.c:153` without popping). The next run pushes
  its frame on top; its Ret is taken for a return to a caller, and the
  interpreter resumes the failed function. `RelaxVMFail.cfg` shows that this
  corrupts no memory: counts stay exact and Free still releases everything.
* `webgpu_wait`: the flag that a copy to the host waits for is set by the
  completion of *any* submission (`dawn.c:67`). A kernel that was submitted before
  completes after the copy has cleared the flag, the poll returns, and the staging
  buffer is read before the copy is done, against "wait for tasks done"
  (`webgpu_native_impl.c:211`): the host may read stale data. The JavaScript
  build, which awaits the mapping of its own buffer, does not have this.

Further deviations, met while modelling. The models follow the code; where the
case is left out of a passing run, this says so.

*Relax VM.* A string constant's handle is the address of its count, not of the
object (`relax_vm.c:140`), so that its references are counted in the memory
behind it: string constants are left out of `RelaxVM`. `GetInputIndex` looks up the
function name in the map of parameters (`relax_vm.c:333`).
`read_if_cond` and the stubs of `vm_builtin.c` return 0 without writing a result
(`:252`): `RelaxVM` takes any of three values for it.

*Relax loader.* A register file that is too big (`relax_executable_module.c:97`)
or a VMTIR function (`:119`) ends the section of functions with status 0: the
module loads, and the slots after it are packed functions without a name. On a
device that is not the CPU the first tensor constant can not be made: the tensor
it is copied to has no fields set (`relax_vm.c:40-44`), so that the copy fails or
does what the memory held. The cleanup then frees `constants[i]` in every round
instead of `constants[j]` (`:121-124`), and nothing if the tensor is the first.
A module whose load fails is lost as a whole.

*Relay VM.* An instruction without an implementation returns the status of the
one before, 0 among them (`relay_vm_interpreter.c:289`, against `relay_vm.h:59`:
"0 if successful"; in `RelayVM` see `Unsupported`). ReshapeTensor frees the shape
array of its destination, whoever owns it (`:260`): of a borrowed input it is the
user's, though the header speaks of a zero copy (`relay_vm.h:70`); `view` in
`MCRelayVM` is such a function, and `"undefined"` is reached as soon as it is
`Callable`. A tensor that is reshaped in its own register is lost: the register is
emptied after it was copied to itself (`:255-256`). A new shape that is in the
destination register, or in the tensor's own, is read after that register was
overwritten and its shape freed (`:261`). `Typing` excludes both: the destination
owns nothing, the shape is in a third register. Storages in registers are lost when the next allocation fails
(`:285`). A result that is a copied input is borrowed from it, and dangles when
the input is replaced (`relay_vm.c:169`). An input whose allocation fails keeps
the type of an owner (`relay_vm.c:181`; `InputMayFail = TRUE` in
`RelayVMRun.cfg` shows it). Setting an input without a copy over one that was
copied drops the memory (`relay_vm.c:159`); one input is always supplied the
same way in the run. `GetOutput` ignores which function it is asked about
(`relay_vm.c:241`).

*Relay loader.* A function whose name is not in the table is lost
(`relay_executable.c:209`), as is the first of two of one name; the slot that
stays empty is dereferenced when the machine is created (`relay_vm.c:37`), and an
index beyond the array is written all the same (`relay_executable.c:213`); both
are `"undefined"` in the model. The device index of a constant is not checked
either (`:294`). A tensor is marked as the device's before the device's API is
asked for (`:297-300`): if that fails, its data, still the host's, is lost. A
read that fails in the middle of a function leaves status 0
(`relay_instruction.c:60`): the loader goes on with a function that was freed.
Bytecode in memory that ends with its last instruction never loads
(`stream_reader.c:112`), and the struct of the reader of bytes is never freed.

*Tries.* The set of characters has `.` where the header has `:` (`trie.h:25`,
`trie.c:9-23`). A visit leaves out the first node, the value of the empty name,
against "every node's data" (`trie.h:159`). A query for a name that only begins
others leaves the caller's variable unwritten (`trie.h:123-124`), so that
`TVMFuncGetGlobal` (`c_runtime_api.c:108`) does not store the "NULL if it does not
exist" of its header. The other callers look at the status, but for the index of
a graph's input or output, which stays the -1 it was (`graph_executor.c:275`) when
the name has a byte without an index. `NameMap` allows both values in `Query`.

*Devices.* CUDA memory is allocated in the context that is current, not on the
device asked for (`cuda_device_api.c:43`), creation leaves the last device
current, and stream functions change it without telling the instance (`:91`,
`:100`, `:106`): in `DeviceAPI` the field `on` of a block is then not its `dev`.
The workspace cache finds blocks by size only, whatever their device (`:136`),
and drops free blocks without freeing them when full (`:144`, with a todo).
A device is noted as current before `cuCtxSetCurrent` is tried
(`cuda_device_api.c:36-37`), so that after a call that failed, or a stream
function, setting the device again is skipped (`c_runtime_api.c:400`,
`cuda_device_api.c:35`) and returns 0 with another context current:
`InstancesAreCurrent` relates the driver to the records only while neither has
happened. With both `CUDA` and `CUDAHost` in the table the contexts are destroyed
twice at exit (`device_api.c:64`); the model ends there in `"twice"`, which no
property excludes.

*Modules.* A module that two others import would be released twice, since the release
does not count (`module_impl.h:21`), and indices of the import tree are not checked
(`module.c:188`): `Packed` excludes both. When the blob of the system library has an
import tree and no module context, the library that is to be released on failure has
become the root of the tree (`system_library.c:153`); the model ends there in
`"undefined"`, which `Packed` excludes as well. What was read before a module that
fails is lost (`module.c:164`).

*Graph executor.* The answer 0 of the CUDA extension is taken for a failure
(`graph_executor.c:57`): with the extension no executor is created with CUDA as
first device. A failed creation loses the shapes if it did not reach the storages
(`:125`). The graph that was captured is never destroyed, whether the capture
succeeds or the graph can not be instantiated (`cuda_extension.c:102-106`), and a
capture that fails leaves its stream (`:116`), in capture if it had begun, and the
CUDA instance's current stream pointing at it or at one that was destroyed (`:90`):
streams of the instance are not part of `GraphExecutor`. Every float type
has 32 bits (`tensor_loader.c:38` starts one character too early). The reader
of bytes is never freed (`stream_reader.c:130`). A parameter file that ends
inside a name loads nothing and returns 0 (`tensor_loader.c:107`, against
`graph_executor.h:88-92`: "0 if successful"): `ZeroMeansAllOrNothing` says that
then at least nothing was changed. A name outside the trie's set
of characters gets index -1 unchecked (`tensor_loader.c:112`). A document
without entries is accepted with status 0 (`graph_executor_loader.c:89`), and
one without `device_index` reads the devices before they are set (`:768`). A
storage goes to the user's first device if none has the type of its entries,
and is freed on the entries' device. Storage ids with gaps lose the storages in
the gaps.

*Readers.* The reader of bytes refuses a read that ends exactly where the bytes
end (`stream_reader.c:112`), the reader of files accepts it: a complete
parameter blob in memory is refused at its last tensor. `FirstFailing` follows.

*WebGPU.* The mapping of a staging buffer is asynchronous and its callback does
nothing (`webgpu_native_impl.c:106`, `:209`): the range may be read before it is
mapped, though the copy is done, and is a null pointer then. `HostReadsProgramOrder`
admits that for the native build and says that nothing else but the right contents
is read. `dawn.c` asks once to be told that the work is done (`:97`), when the queue
is empty, and never again; if Dawn answers a request once, a copy to the host
that clears the flag after that answer never returns (`Stranded`): one copy at most
ever does. The buffer that a copy from the host goes through is not freed
(`webgpu_native_impl.c:262`). The poll of a second device would loop for ever
(`dawn.c:78-82`); the device API creates one. The destructor destroys mutex and
condition while a callback may still be due (`dawn.c:55`). In the JavaScript
build `nbytes & 3 != 0` is `nbytes & 1` (`webgpu_js_impl.c:172`), and `map_size`
bytes rather than `nbytes` go to the host (`:187`).

*AOT executor.* Free forgets the tensors of workspace pools
(`aot_executor.c:200`). Metadata linked to the program is taken even if a
library is given (`:129`), though "If NULL, use the system library"
(`aot_executor.h:20`) suggests otherwise; with two models of one name an
executor would run one with the tensors of the other, which `AotAssumption`
excludes. On a CUDAHost device the tensors are allocated by the device API
(`:29`) and freed as memory of the CPU (`c_runtime_api.c:327`).

## 7. Not modelled

* Text and encodings: JSON characters, instruction words, ELF and wasm symbols.
  The models start from what the decoders deliver; where a decoder can fail they
  let it fail. `graph/json.h` reads characters and changes nothing but its own
  position.
* The CUDA memory pool (built without `CUDA_10_ONLY`): the driver's own. Streams
  and copies of CUDA beyond what `DeviceAPI` has of them.
* Kernel launches and their arguments, except as commands of the WebGPU queue:
  calls that change nothing here.
* WebGPU: creation of the device, buffers, shaders and pipelines, each a call
  into an external implementation whose failure changes nothing here.
* Relax tuples: no code creates one. Inputs on another device than the
  machine's: the copy is of the same kind as in the Relay VM.
* The CUDA driver stub (generated forwarding functions without state), the
  JavaScript package (bindings, most of them unfinished), the examples.

Contents of freed register buffers and of idle registers are normalised in
`RelaxVM`: no instruction reads them, which `RefCountsAreExact` (an idle register
owns nothing) and the proofs of the pool support.

## 8. Plan

Modules were written in the order of section 2: the Relax VM first, as the
newest and most intricate executor, then the part with an abstract
specification, the Relay VM, the registry, modules and the graph and AOT
executors.

The loaders came later, with `Loaders` as the module that states one promise for
two implementations, then the WebGPU queue, and the tries last, which the other
modules took for maps from the start.

What is left to model, in this order: the lookups of `Modules` and
`GraphExecutor` on top of `Trie`, where they now use the map that it implements;
`StreamReader`, the two readers as implementations of one stream; the composition
of a loader with the machine that runs what it loaded.

Every safety property of the runs has a theorem. Worth proving next, with those
modules: that the readers implement the streams the other modules take them for,
and that what a loader of `Loaders` delivers satisfies `OperandAssumption` and
`Typing` where the file does, so that the theorems about the machines hold of what
was loaded.
