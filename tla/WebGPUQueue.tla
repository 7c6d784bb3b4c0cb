---------------------------- MODULE WebGPUQueue ----------------------------
(***************************************************************************)
(* The synchronous WebGPU interface (accelerators/webgpu/c_api) over a     *)
(* device that is not: commands are queued, the device executes them in    *)
(* order on its own, and only a copy to the host has to wait.              *)
(*                                                                         *)
(* There are two builds.  The native one (native_impl/) waits with a flag, *)
(* a mutex and a condition variable; the flag is set by a callback that    *)
(* Dawn calls on a thread of its own.  The JavaScript one                  *)
(* (webgpu_js_impl.c) awaits the mapping of the copy.  In both, one host   *)
(* thread makes the calls, on the one device the device API creates.       *)
(*                                                                         *)
(* Dawn is external.  dawn.c makes one request to be told that the work is *)
(* done (:97), when it first sees the device, and relies on being called   *)
(* after every submission; the interface promises one call for a request.  *)
(* Both answers are modelled (reports).                                    *)
(***************************************************************************)
EXTENDS Naturals, Sequences

CONSTANTS
  Buffer,           \* device memory
  Val,              \* contents of a buffer
  Kernel,           \* what a compute pipeline makes of its input
  Build,            \* subset of {"dawn", "js"}
  Reports,          \* how Dawn answers: subset of {"once", "each"}
  None,             \* no contents: a range that is not mapped; no call
  MaxOutstanding    \* bound: commands queued and callbacks that are due

ASSUME WebGPUAssumption ==
  /\ Kernel \in [Val -> Val]
  /\ Build \subseteq {"dawn", "js"}
  /\ Reports \subseteq {"once", "each"}
  /\ None \notin Val
  /\ MaxOutstanding \in Nat

VARIABLES
  build,
  reports,    \* whether the one request is answered "once", or after "each"
              \* submission
  device,     \* the device API has its device
  pc,         \* of the host thread, "idle" between two calls
  call,       \* the command the host submits, or None
  is_ready,   \* DeviceSyncData.is_ready
  mutex,      \* who holds ready_mutex: "host", "callback" or "free"
  queue,      \* commands the device has not executed
  due,        \* completions that Dawn has still to report
  cb,         \* pc of the callback, "idle" when it is not running
  mem,        \* contents of the buffers
  staging,    \* contents of the staging buffer, None before the copy is done
  mapping,    \* of the staging buffer: "none", "pending" or "done"
  host,       \* what the last copy to the host gave
  meant,      \* history: mem if every command took effect at its call
  quiet       \* history: nothing was outstanding when the copy began

env      == <<build, reports, device>>
gpuVars  == <<queue, due, mem, staging, mapping>>
syncVars == <<is_ready, mutex, cb>>
vars == <<env, pc, call, syncVars, gpuVars, host, meant, quiet>>

(* Commands: a write by the host, and the three that are submitted.        *)
Write(b, v)     == [op |-> "write", dst |-> b, val |-> v]
CopyDtoD(b, c)  == [op |-> "copy", dst |-> b, src |-> c]
Run(b, c)       == [op |-> "kernel", dst |-> b, src |-> c]
CopyDtoH(c)     == [op |-> "read", src |-> c]

Submitted ==
  [op : {"copy", "kernel"}, dst : Buffer, src : Buffer]
    \cup [op : {"read"}, src : Buffer]

(* A copy whose destination the host has destroyed. *)
Void == [op |-> "void"]

Command == Submitted \cup [op : {"write"}, dst : Buffer, val : Val] \cup {Void}

(* The memory after a command.                                             *)
Applied(c, m) ==
  CASE c.op = "write"  -> [m EXCEPT ![c.dst] = c.val]
    [] c.op = "copy"   -> [m EXCEPT ![c.dst] = m[c.src]]
    [] c.op = "kernel" -> [m EXCEPT ![c.dst] = Kernel[m[c.src]]]
    [] OTHER           -> m

Init ==
  /\ build \in Build
  /\ reports \in Reports
  /\ device = FALSE
  /\ pc = "idle"
  /\ call = None
  /\ is_ready = FALSE
  /\ mutex = "free"
  /\ queue = <<>>
  /\ due = 0
  /\ cb = "idle"
  /\ mem \in [Buffer -> Val]
  /\ staging = None
  /\ mapping = "none"
  /\ host = None
  /\ meant = mem
  /\ quiet = FALSE

-----------------------------------------------------------------------------
(* The host.                                                               *)

(* The device API asks for a device until it has one.  The first poll of   *)
(* it, in wgpuDevicePoll, sets the flag and registers the callback; the    *)
(* queue is empty, so that an answer to the request alone is due at once.  *)
DeviceGet ==
  /\ ~ device
  /\ device' = TRUE
  /\ is_ready' = (build = "dawn")
  /\ due' = IF build = "dawn" /\ reports = "once" THEN due + 1 ELSE due
  /\ UNCHANGED <<build, reports, pc, call, mutex, cb, queue, mem, staging,
                 mapping, host, meant, quiet>>

Idle == pc = "idle" /\ device

Room == Len(queue) + due < MaxOutstanding

(* The data is copied at the call, the buffer is written in queue order.   *)
MemoryCopyHtoD(b, v) ==
  /\ Idle
  /\ Room
  /\ queue' = Append(queue, Write(b, v))
  /\ meant' = Applied(Write(b, v), meant)
  /\ UNCHANGED <<env, pc, call, syncVars, due, mem, staging, mapping, host,
                 quiet>>

(* A call that submits: the command is encoded.  A call that fails before  *)
(* (no bind group layout, no staging buffer) changes nothing.              *)
Begin(c) ==
  /\ Idle
  /\ Room
  /\ call' = c
  /\ pc' = IF build = "dawn" THEN "add" ELSE "submit"
  /\ quiet' = (queue = <<>> /\ due = 0 /\ cb = "idle")
  /\ UNCHANGED <<env, syncVars, gpuVars, host, meant>>

(* wgpuAddTasksToQueue: lock, and clear the flag.                          *)
AddLock ==
  /\ pc = "add"
  /\ mutex = "free"
  /\ mutex' = "host"
  /\ pc' = "clear"
  /\ UNCHANGED <<env, call, is_ready, cb, gpuVars, host, meant, quiet>>

(* Faulty variant: the mutex is not given back. *)
AddClearKeepsLock ==
  /\ pc = "clear"
  /\ is_ready' = FALSE
  /\ pc' = "submit"
  /\ UNCHANGED <<env, call, mutex, cb, gpuVars, host, meant, quiet>>

AddClear ==
  /\ pc = "clear"
  /\ is_ready' = FALSE
  /\ mutex' = "free"
  /\ pc' = "submit"
  /\ UNCHANGED <<env, call, cb, gpuVars, host, meant, quiet>>

(* Only a copy to the host goes on after the submission.                   *)
AfterSubmit == IF call.op # "read" THEN "idle" ELSE "request"

Submit ==
  /\ pc = "submit"
  /\ queue' = Append(queue, call)
  /\ meant' = Applied(call, meant)
  /\ pc' = AfterSubmit
  /\ UNCHANGED <<env, call, syncVars, due, mem, staging, mapping, host, quiet>>

(* The mapping of the staging buffer is asked for; only the JavaScript     *)
(* build waits for it.                                                     *)
RequestMap ==
  /\ pc = "request"
  /\ mapping' = "pending"
  /\ pc' = IF build = "dawn" THEN "poll" ELSE "await"
  /\ UNCHANGED <<env, call, syncVars, queue, due, mem, staging, host, meant,
                 quiet>>

(* Faulty variant: one wait, whatever woke the thread. *)
PollOnce ==
  /\ pc \in {"poll", "woken"}
  /\ mutex = "free"
  /\ IF pc = "woken" THEN pc' = "map" /\ UNCHANGED mutex
     ELSE pc' = "check" /\ mutex' = "host"
  /\ UNCHANGED <<env, call, is_ready, cb, gpuVars, host, meant, quiet>>

(* wgpuDevicePoll of a known device: lock, and wait while the flag is not  *)
(* set.  pthread_cond_wait gives the mutex back and sleeps in one step, and *)
(* takes the mutex again before it returns.                                *)
PollLock ==
  /\ pc \in {"poll", "woken"}
  /\ mutex = "free"
  /\ mutex' = "host"
  /\ pc' = "check"
  /\ UNCHANGED <<env, call, is_ready, cb, gpuVars, host, meant, quiet>>

PollReady ==
  /\ pc = "check"
  /\ is_ready
  /\ mutex' = "free"
  /\ pc' = "map"
  /\ UNCHANGED <<env, call, is_ready, cb, gpuVars, host, meant, quiet>>

PollNotReady ==
  /\ pc = "check"
  /\ ~ is_ready
  /\ pc' = "wait"
  /\ UNCHANGED <<env, call, syncVars, gpuVars, host, meant, quiet>>

CondWait ==
  /\ pc = "wait"
  /\ mutex' = "free"
  /\ pc' = "asleep"
  /\ UNCHANGED <<env, call, is_ready, cb, gpuVars, host, meant, quiet>>

(* A condition variable may wake its thread for no reason. *)
SpuriousWake ==
  /\ pc = "asleep"
  /\ pc' = "woken"
  /\ UNCHANGED <<env, call, syncVars, gpuVars, host, meant, quiet>>

(* await mapAsync.                                                         *)
Await ==
  /\ pc = "await"
  /\ mapping = "done"
  /\ pc' = "map"
  /\ UNCHANGED <<env, call, syncVars, gpuVars, host, meant, quiet>>

(* The mapped range goes to the host, a null pointer if it is not mapped,  *)
(* and the staging buffer is destroyed.                                    *)
ReadBack ==
  /\ pc = "map"
  /\ host' = IF mapping = "done" THEN staging ELSE None
  /\ staging' = None
  /\ mapping' = "none"
  /\ queue' = [i \in DOMAIN queue |->
                 IF queue[i].op = "read" THEN Void ELSE queue[i]]
  /\ pc' = "idle"
  /\ UNCHANGED <<env, call, syncVars, due, mem, meant, quiet>>

(* What the host does on its own in the middle of a call. *)
HostStep ==
  \/ AddLock \/ AddClear \/ Submit \/ RequestMap
  \/ PollLock \/ PollReady \/ PollNotReady \/ CondWait
  \/ Await \/ ReadBack

-----------------------------------------------------------------------------
(* The device executes commands in order, each when the one before it is   *)
(* done.                                                                   *)
Execute ==
  /\ queue # <<>>
  /\ LET c == Head(queue)
     IN /\ mem' = Applied(c, mem)
        /\ staging' = IF c.op = "read" THEN mem[c.src] ELSE staging
        /\ due' = IF build = "dawn" /\ reports = "each" /\ c.op # "write"
                  THEN due + 1 ELSE due
  /\ queue' = Tail(queue)
  /\ UNCHANGED <<env, pc, call, syncVars, mapping, host, meant, quiet>>

(* The device maps a staging buffer some time after the copy into it is    *)
(* done; the callback of the native build does nothing.                    *)
MapDone ==
  /\ mapping = "pending"
  /\ staging # None
  /\ mapping' = "done"
  /\ UNCHANGED <<env, pc, call, syncVars, queue, due, mem, staging, host,
                 meant, quiet>>

(* Faulty variant: the callback does not take the mutex. *)
CallbackNoLock ==
  /\ cb = "idle"
  /\ due > 0
  /\ due' = due - 1
  /\ cb' = "set"
  /\ UNCHANGED <<env, pc, call, is_ready, mutex, queue, mem, staging, mapping,
                 host, meant, quiet>>

(* queue_submit_done_callback: lock, set the flag, signal, unlock.         *)
CallbackLock ==
  /\ cb = "idle"
  /\ due > 0
  /\ mutex = "free"
  /\ mutex' = "callback"
  /\ due' = due - 1
  /\ cb' = "set"
  /\ UNCHANGED <<env, pc, call, is_ready, queue, mem, staging, mapping, host,
                 meant, quiet>>

CallbackSet ==
  /\ cb = "set"
  /\ is_ready' = TRUE
  /\ cb' = "signal"
  /\ UNCHANGED <<env, pc, call, mutex, gpuVars, host, meant, quiet>>

(* Faulty variant: the waiting thread is not woken. *)
CallbackNoSignal ==
  /\ cb = "signal"
  /\ cb' = "unlock"
  /\ UNCHANGED <<env, pc, call, is_ready, mutex, gpuVars, host, meant, quiet>>

CallbackSignal ==
  /\ cb = "signal"
  /\ pc' = IF pc = "asleep" THEN "woken" ELSE pc
  /\ cb' = "unlock"
  /\ UNCHANGED <<env, call, is_ready, mutex, gpuVars, host, meant, quiet>>

CallbackUnlock ==
  /\ cb = "unlock"
  /\ mutex' = "free"
  /\ cb' = "idle"
  /\ UNCHANGED <<env, pc, call, is_ready, gpuVars, host, meant, quiet>>

Callback == CallbackLock \/ CallbackSet \/ CallbackSignal \/ CallbackUnlock

-----------------------------------------------------------------------------
Next ==
  \/ DeviceGet
  \/ \E b \in Buffer, v \in Val : MemoryCopyHtoD(b, v)
  \/ \E b, c \in Buffer : Begin(CopyDtoD(b, c)) \/ Begin(Run(b, c))
  \/ \E c \in Buffer : Begin(CopyDtoH(c))
  \/ HostStep
  \/ SpuriousWake
  \/ Execute
  \/ MapDone
  \/ Callback

Spec == Init /\ [][Next]_vars

(* A call goes on until it returns, the device executes and maps what it   *)
(* was given, and Dawn makes the calls that are due, without the host      *)
(* calling anything; which calls are due is a matter of reports.           *)
(* The callback waits for a mutex that the host gives back each time it    *)
(* sleeps: that it gets it some time is fairness of the mutex.             *)
FairSpec ==
  /\ Spec
  /\ WF_vars(HostStep)
  /\ WF_vars(Execute)
  /\ WF_vars(MapDone)
  /\ WF_vars(Callback)
  /\ SF_vars(CallbackLock)

-----------------------------------------------------------------------------
(* The types, and the lock: the host and the callback are in their critical *)
(* sections exactly when they hold the mutex, and only the native build    *)
(* gets there.                                                             *)
WebGPUTypeOK ==
  /\ build \in Build
  /\ reports \in Reports
  /\ device \in BOOLEAN
  /\ pc \in {"idle", "add", "clear", "submit", "request", "poll", "check",
             "wait", "asleep", "woken", "await", "map"}
  /\ call \in Submitted \cup {None}
  /\ pc # "idle" => device /\ call \in Submitted
  /\ is_ready \in BOOLEAN
  /\ mutex \in {"free", "host", "callback"}
  /\ queue \in Seq(Command)
  /\ due \in Nat
  /\ cb \in {"idle", "set", "signal", "unlock"}
  /\ mem \in [Buffer -> Val]
  /\ meant \in [Buffer -> Val]
  /\ staging \in Val \cup {None}
  /\ mapping \in {"none", "pending", "done"}
  /\ host \in Val \cup {None}
  /\ quiet \in BOOLEAN
  /\ mutex = "host" <=> pc \in {"clear", "check", "wait"}
  /\ mutex = "callback" <=> cb # "idle"
  /\ pc \notin {"idle", "submit", "request", "await", "map"} => build = "dawn"

(* If Dawn reports every submission, nobody sleeps for a call that does    *)
(* not come: while the host is in pthread_cond_wait, or has seen the flag  *)
(* clear and is about to be, some completion is still to be reported, by a *)
(* command in the queue, a callback that is due, or one that has not       *)
(* signalled yet.                                                          *)
SleeperIsWoken ==
  reports = "each" /\ pc \in {"wait", "asleep"} =>
    \/ \E i \in DOMAIN queue : queue[i].op # "write"
    \/ due > 0
    \/ cb \in {"set", "signal"}

(* What a copy to the host gives is what the buffer holds when every call  *)
(* before it has taken effect, in the order of the calls, and nothing      *)
(* older: in JavaScript always.  The native build does not wait for the    *)
(* mapping (webgpu_native_impl.c:209-214), so that its copy may find no    *)
(* range instead, however long the copy is done; but if nothing was        *)
(* outstanding when it began, the staging buffer has the right contents by *)
(* then (dawn.c:98-106).                                                   *)
HostReadsProgramOrder ==
  [][pc = "map" /\ pc' = "idle" =>
       /\ host' \in {meant[call.src], None}
       /\ build = "js" => host' = meant[call.src]
       /\ quiet => staging = meant[call.src]]_vars

(* "wait for tasks done" (webgpu_native_impl.c, in MemoryCopyDtoH): after  *)
(* the wait the copy that was submitted is done.                           *)
WaitsForTasksDone == pc = "map" => staging # None

(* The calls that wait for nothing, or for something Dawn reports.         *)
Answered == build = "js" \/ reports = "each" \/ call.op # "read"

(* The one answer has come, and a copy cleared the flag after it.          *)
Stranded ==
  /\ build = "dawn" /\ reports = "once"
  /\ due = 0 /\ cb = "idle" /\ ~ is_ready
  /\ pc \in {"request", "poll", "check", "wait", "asleep", "woken"}

(* Every call returns, although it waits for the callback of another       *)
(* thread and may be woken by the callback of another submission, with one *)
(* exception: if the request that dawn.c makes once (:97) is answered      *)
(* once, a copy to the host of the native build that clears the flag after *)
(* that answer stays in wgpuDevicePoll for ever.                           *)
CallsReturn ==
  /\ pc # "idle" /\ Answered ~> pc = "idle"
  /\ [][Stranded => Stranded']_vars
=============================================================================
