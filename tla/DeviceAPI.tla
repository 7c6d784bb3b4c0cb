----------------------------- MODULE DeviceAPI -----------------------------
(***************************************************************************)
(* The registry of device APIs (src/core/device/device_api.c), the device  *)
(* functions of the C runtime API over it (c_runtime_api.c) and the CUDA   *)
(* and WebGPU instances behind it (cuda_device_api.c,                      *)
(* webgpu_device_api.c).                                                   *)
(*                                                                         *)
(* Which device work goes to is kept in three places: cur_device of the    *)
(* packed function __tvm_set_device, current_device of the CUDA instance   *)
(* and the driver's current context.  The driver itself is not part of the *)
(* code; drv models what it is asked for, and any of its calls may fail.   *)
(***************************************************************************)
EXTENDS Integers, FiniteSets

CONSTANTS
  NumDevice,     \* what cuDeviceGetCount says
  Ptr,           \* addresses the device memory calls return
  Stream,        \* stream handles
  None,
  MaxCreate,     \* bound: attempts at creating the CUDA contexts
  MayFail        \* TRUE if calls of the driver may fail

ASSUME DeviceAssumption ==
  /\ NumDevice \in Nat \ {0}
  /\ MaxCreate \in Nat
  /\ MayFail \in BOOLEAN
  /\ None \notin Stream

Device   == 0 .. NumDevice - 1
CUDA     == {"CUDA", "CUDAHost"}
Type     == CUDA \cup {"WebGPU"}

(* The contexts the driver can hand out: one per device and attempt. *)
Context == Device \X (1 .. MaxCreate)

VARIABLES
  instance,      \* Type -> is g_device_api_instance[type] set
  cuda,          \* cudaDeviceApi and cuda_device_api_created
  drv,           \* the CUDA driver: live contexts, the current one, attempts;
                 \* follows: nothing moved it since a set_device did
  webgpu,        \* is webGPUDeviceAPI.device a device
  cur_device,    \* the static variable of TVM_RT_WASM_SetDevice
  data,          \* Ptr -> device asked for, device it is on, or None
  streams,       \* the driver's live streams
  state          \* "up", "released", or the undefined behaviour of a
                 \* release made "twice" or a missing instance: "undefined"

vars == <<instance, cuda, drv, webgpu, cur_device, data, streams, state>>

Init ==
  /\ instance = [t \in Type |-> FALSE]
  /\ cuda = [created |-> FALSE, contexts |-> [d \in Device |-> None],
             current_device |-> 0, stream |-> None]
  /\ drv = [alive |-> {}, ctx |-> None, attempts |-> 0, follows |-> FALSE]
  /\ webgpu = FALSE
  /\ cur_device = <<"CPU", 0>>
  /\ data = [p \in Ptr |-> None]
  /\ streams = {}
  /\ state = "up"

-----------------------------------------------------------------------------
(* Creation of the instances: the set of outcomes.                         *)

Outcome(status, c, v) == [status |-> status, cuda |-> c, drv |-> v]

(* Faulty variant: one context too many. *)
ContextsOver(k) ==
  [drv EXCEPT
     !.attempts = @ + 1,
     !.alive = @ \cup {<<d, drv.attempts + 1>> : d \in 0 .. k},
     !.ctx = IF k = 0 THEN @ ELSE <<k - 1, drv.attempts + 1>>,
     !.follows = FALSE]

(* cuCtxCreate succeeded for the first k devices: the driver makes each    *)
(* new context the current one.                                            *)
Contexts(k) ==
  [drv EXCEPT
     !.attempts = @ + 1,
     !.alive = @ \cup {<<d, drv.attempts + 1>> : d \in 0 .. k - 1},
     !.ctx = IF k = 0 THEN @ ELSE <<k - 1, drv.attempts + 1>>,
     !.follows = FALSE]

(* The instance after that. *)
Created(k, flag) ==
  [cuda EXCEPT
     !.created = flag,
     !.current_device = -1,
     !.contexts = [d \in Device |-> IF d < k THEN <<d, drv.attempts + 1>>
                                    ELSE None],
     !.stream = IF k = NumDevice THEN None ELSE @]

(* The first call creates a context for each device; one that fails leaves *)
(* the contexts it created, and the next call starts again.                *)
CUDADeviceAPICreate ==
  IF cuda.created THEN {Outcome(0, cuda, drv)}
  ELSE {Outcome(0, Created(NumDevice, TRUE), Contexts(NumDevice))}
         \cup {Outcome(-1, Created(k, FALSE), Contexts(k)) :
                 k \in {n \in 0 .. NumDevice - 1 : MayFail}}
         \cup {Outcome(-1, cuda, drv) : x \in {TRUE} \cap {MayFail}}

(* What the caller of DeviceAPIGet finds: the instance of the type is set  *)
(* only if its creation succeeded.                                         *)
Found(t, status, c, v, w) ==
  [status |-> status, cuda |-> c, drv |-> v, webgpu |-> w,
   instance |-> [instance EXCEPT ![t] = status = 0]]

DeviceAPIGet(t) ==
  IF instance[t] THEN {Found(t, 0, cuda, drv, webgpu)}
  ELSE IF t = "WebGPU"
  THEN {Found(t, 0, cuda, drv, TRUE)}
         \cup {Found(t, -1, cuda, drv, webgpu) : x \in {TRUE} \cap {MayFail}}
  ELSE {Found(t, o.status, o.cuda, o.drv, webgpu) : o \in CUDADeviceAPICreate}

(* cuCtxSetCurrent to the context c of a driver v, or it fails: for a      *)
(* set_device, which noted the device already, or on behalf of a stream.   *)
SetCurrent(v, c, set) ==
  {[ok |-> TRUE, drv |-> [v EXCEPT !.ctx = c, !.follows = set]]}
    \cup {[ok |-> FALSE, drv |-> [v EXCEPT !.follows = @ /\ ~ set]] :
             x \in {TRUE} \cap {MayFail}}

(* A function of the API for type t starts by getting its instance g.      *)
Gets(t, g) ==
  /\ state = "up"
  /\ t \in CUDA /\ ~ cuda.created => drv.attempts < MaxCreate
  /\ g \in DeviceAPIGet(t)
  /\ instance' = g.instance
  /\ webgpu' = g.webgpu

Keeps(g) == cuda' = g.cuda /\ drv' = g.drv

-----------------------------------------------------------------------------
(* Faulty variant: the CUDA instance is not told when the device differs   *)
(* only in its type.                                                       *)
SetDeviceById(t, d) ==
  \E g \in DeviceAPIGet(t) :
    /\ cur_device # <<t, d>>
    /\ Gets(t, g)
    /\ g.status = 0
    /\ cur_device' = <<t, d>>
    /\ cuda' = IF t \in CUDA /\ cur_device[2] # d
               THEN [g.cuda EXCEPT !.current_device = d] ELSE g.cuda
    /\ drv' = g.drv
    /\ UNCHANGED <<data, streams, state>>

(* __tvm_set_device.  The device is noted before the instance is asked,    *)
(* and the status of DeviceAPIGet is not looked at.                        *)
SetDevice(t, d) ==
  \E g \in DeviceAPIGet(t) :
    /\ cur_device # <<t, d>>
    /\ Gets(t, g)
    /\ cur_device' = <<t, d>>
    /\ IF g.status # 0
       THEN state' = "undefined" /\ Keeps(g)
       ELSE /\ IF t \in CUDA /\ g.cuda.current_device # d
               THEN /\ cuda' = [g.cuda EXCEPT !.current_device = d]
                    /\ \E s \in SetCurrent(g.drv, g.cuda.contexts[d], TRUE) :
                         drv' = s.drv
               ELSE Keeps(g)
            /\ UNCHANGED state
    /\ UNCHANGED <<data, streams>>

(* TVMDeviceAllocDataSpace: CUDA memory comes from the current context. *)
AllocDataSpace(t, d, p) ==
  \E g \in DeviceAPIGet(t) :
    /\ t # "CUDAHost"
    /\ data[p] = None
    /\ Gets(t, g)
    /\ Keeps(g)
    /\ \/ /\ g.status = 0
          /\ data' = [data EXCEPT ![p] =
                        [type |-> t, dev |-> d,
                         on |-> IF t = "CUDA" THEN g.drv.ctx[1] ELSE d]]
       \/ /\ g.status # 0 \/ MayFail
          /\ UNCHANGED data
    /\ UNCHANGED <<cur_device, streams, state>>

(* TVMDeviceFreeDataSpace. *)
FreeDataSpace(p) ==
  /\ data[p] # None
  /\ \E g \in DeviceAPIGet(data[p].type) :
       /\ Gets(data[p].type, g)
       /\ Keeps(g)
       /\ \/ g.status = 0 /\ data' = [data EXCEPT ![p] = None]
          \/ MayFail /\ UNCHANGED data
  /\ UNCHANGED <<cur_device, streams, state>>

(* TVMDeviceCopyDataFromTo and the TVMArrayCopy functions: of the state    *)
(* here, a copy only needs the instance.                                   *)
CopyDataFromTo(t) ==
  \E g \in DeviceAPIGet(t) :
    /\ Gets(t, g)
    /\ Keeps(g)
    /\ UNCHANGED <<cur_device, data, streams, state>>

(* TVMStreamCreate: makes the context of d current, and leaves it so. *)
StreamCreate(d, s) ==
  \E g \in DeviceAPIGet("CUDA") :
    /\ s \notin streams
    /\ Gets("CUDA", g)
    /\ cuda' = g.cuda
    /\ IF g.status # 0
       THEN drv' = g.drv /\ UNCHANGED streams
       ELSE \E x \in SetCurrent(g.drv, g.cuda.contexts[d], FALSE) :
              /\ drv' = x.drv
              /\ \/ x.ok /\ streams' = streams \cup {s}
                 \/ MayFail /\ UNCHANGED streams
    /\ UNCHANGED <<cur_device, data, state>>

(* TVMStreamFree. *)
StreamFree(d, s) ==
  \E g \in DeviceAPIGet("CUDA") :
    /\ s \in streams
    /\ Gets("CUDA", g)
    /\ cuda' = g.cuda
    /\ IF g.status # 0
       THEN drv' = g.drv /\ UNCHANGED streams
       ELSE \E x \in SetCurrent(g.drv, g.cuda.contexts[d], FALSE) :
              /\ drv' = x.drv
              /\ streams' = IF x.ok THEN streams \ {s} ELSE streams
    /\ UNCHANGED <<cur_device, data, state>>

(* TVMSynchronize. *)
Synchronize(d) ==
  \E g \in DeviceAPIGet("CUDA") :
    /\ Gets("CUDA", g)
    /\ cuda' = g.cuda
    /\ IF g.status # 0 THEN drv' = g.drv
       ELSE \E x \in SetCurrent(g.drv, g.cuda.contexts[d], FALSE) :
              drv' = x.drv
    /\ UNCHANGED <<cur_device, data, streams, state>>

(* TVMSetStream, to a stream or to NULL. *)
SetStream(s) ==
  \E g \in DeviceAPIGet("CUDA") :
    /\ Gets("CUDA", g)
    /\ cuda' = IF g.status = 0 THEN [g.cuda EXCEPT !.stream = s] ELSE g.cuda
    /\ drv' = g.drv
    /\ UNCHANGED <<cur_device, data, streams, state>>

(* Faulty variant: only the entry of kDLCUDA is released. *)
ReleaseAllCUDAOnly ==
  /\ state = "up"
  /\ state' = "released"
  /\ drv' = IF instance["CUDA"]
            THEN [drv EXCEPT !.alive = @ \ {cuda.contexts[d] : d \in Device}]
            ELSE drv
  /\ webgpu' = (webgpu /\ ~ instance["WebGPU"])
  /\ instance' = [t \in Type |-> FALSE]
  /\ UNCHANGED <<cuda, cur_device, data, streams>>

(* TVM_RT_WASM_DeviceReleaseAll, in the destructor of the program.  The    *)
(* contexts are destroyed once for each entry of the table that is set:    *)
(* with two, the first release does it all, and the second goes through    *)
(* the array the first one freed.                                          *)
ReleaseAll ==
  /\ state = "up"
  /\ LET set == {t \in CUDA : instance[t]}
     IN /\ state' = IF set = CUDA THEN "twice" ELSE "released"
        /\ drv' = IF set = {} THEN drv
                  ELSE [drv EXCEPT
                          !.alive = @ \ {cuda.contexts[d] : d \in Device}]
  /\ webgpu' = (webgpu /\ ~ instance["WebGPU"])
  /\ instance' = [t \in Type |-> FALSE]
  /\ UNCHANGED <<cuda, cur_device, data, streams>>

Next ==
  \/ \E t \in Type : CopyDataFromTo(t)
  \/ \E t \in Type, d \in Device :
       \/ SetDevice(t, d)
       \/ \E p \in Ptr : AllocDataSpace(t, d, p)
  \/ \E p \in Ptr : FreeDataSpace(p)
  \/ \E d \in Device :
       \/ \E s \in Stream : StreamCreate(d, s) \/ StreamFree(d, s)
       \/ Synchronize(d)
  \/ \E s \in Stream \cup {None} : SetStream(s)
  \/ ReleaseAll

Spec == Init /\ [][Next]_vars
-----------------------------------------------------------------------------
(* Properties.                                                             *)

DeviceTypeOK ==
  /\ instance \in [Type -> BOOLEAN]
  /\ cuda.created \in BOOLEAN
  /\ cuda.contexts \in [Device -> Context \cup {None}]
  /\ cuda.current_device \in Device \cup {-1}
  /\ cuda.stream \in Stream \cup {None}
  /\ drv.alive \subseteq Context
  /\ drv.ctx \in Context \cup {None}
  /\ drv.attempts \in 0 .. MaxCreate
  /\ drv.follows \in BOOLEAN
  /\ webgpu \in BOOLEAN
  /\ cur_device \in {<<"CPU", 0>>} \cup (Type \X Device)
  /\ data \in [Ptr -> {None} \cup [type : Type, dev : Device, on : Device]]
  /\ streams \subseteq Stream
  /\ state \in {"up", "released", "twice", "undefined"}

(* An entry of the table is an instance that works: every context of the   *)
(* CUDA one exists, and the driver's current context with them; the WebGPU *)
(* one has its device.  This holds however many creations failed before    *)
(* (device_api.c:34-45, cuda_device_api.c:248-259).  The device            *)
(* __tvm_set_device remembers is the one the CUDA instance remembers,      *)
(* whatever other types were set between (c_runtime_api.c:399-408,         *)
(* cuda_device_api.c:34-40), and once a set_device has reached the driver, *)
(* the driver's context is that device's as long as no set fails and no    *)
(* stream call and no creation comes between.  No more than that: the      *)
(* device is noted before cuCtxSetCurrent is tried, so that after a set    *)
(* that failed (or a stream call, :91, :100, :106) setting the device      *)
(* again is skipped and returns 0 with another context current.            *)
InstancesAreCurrent ==
  state = "up" =>
    /\ (\E t \in CUDA : instance[t]) <=> cuda.created
    /\ cuda.created =>
         {cuda.contexts[d] : d \in Device} \cup {drv.ctx} \subseteq drv.alive
    /\ instance["WebGPU"] <=> webgpu
    /\ cur_device[1] \in CUDA =>
         cuda.created /\ cuda.current_device = cur_device[2]
    /\ drv.follows =>
         /\ cuda.created /\ cuda.current_device \in Device
         /\ drv.ctx = cuda.contexts[cuda.current_device]

(* What the table reaches at the end of the program is released, whichever *)
(* entries of it were set: only contexts of creations that failed are      *)
(* left (device_api.c:63-70).  This is what is left, not that the release  *)
(* is sound: with the entries of CUDA and CUDAHost both set ("twice") the  *)
(* first release leaves no more than that, and then the shared instance is *)
(* released once more, which no property excludes.  Before the end the     *)
(* registry is left in one way only: set_device calls an instance whose    *)
(* creation failed (c_runtime_api.c:406-408).                              *)
ReleaseLeavesOnlyFailures ==
  /\ state \in {"released", "twice"} =>
       /\ ~ webgpu
       /\ \A c \in drv.alive : cuda.created => c[2] < drv.attempts
  /\ state = "undefined" =>
       cur_device[1] \in Type /\ ~ instance[cur_device[1]]
=============================================================================
