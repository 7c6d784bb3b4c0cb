---------------------------- MODULE DeviceProofs ----------------------------
(***************************************************************************)
(* Proofs about the devices: the registry of DeviceAPI, for any number of  *)
(* devices and any number of attempts at creating them, whichever calls of *)
(* the driver fail; and the workspace caches of Workspace, for any number  *)
(* of clients, blocks, sizes and devices and a cache of any length,        *)
(* compacting or not.  The invariants of a cache need each other: which    *)
(* block a client holds, which entry has it and what the driver knows of   *)
(* it.                                                                     *)
(***************************************************************************)
EXTENDS DeviceAPI, Workspace, FiniteSetTheorems, TLAPS

-----------------------------------------------------------------------------
(* The device registry.                                                    *)

Instance ==
  [created : BOOLEAN, contexts : [Device -> Context \cup {None}],
   current_device : Device \cup {-1}, stream : Stream \cup {None}]

Driver ==
  [alive : SUBSET Context, ctx : Context \cup {None},
   attempts : 0 .. MaxCreate, follows : BOOLEAN]

(* An instance c that was created has the contexts of the last attempt,    *)
(* one for each device, and they are alive in the driver v; the current    *)
(* one is that of the device last set, unless something came between.      *)
Sound(c, v) ==
  /\ c \in Instance
  /\ v \in Driver
  /\ \A x \in v.alive : x[2] <= v.attempts
  /\ c.created =>
       /\ \A d \in Device :
            c.contexts[d] = <<d, v.attempts>> /\ c.contexts[d] \in v.alive
       /\ v.ctx \in v.alive
  /\ v.follows => /\ c.created /\ c.current_device \in Device
                  /\ v.ctx = c.contexts[c.current_device]

RecordsOK == cuda \in Instance /\ drv \in Driver

IInv ==
  /\ DeviceTypeOK
  /\ RecordsOK
  /\ state = "up" => Sound(cuda, drv)
  /\ InstancesAreCurrent
  /\ ReleaseLeavesOnlyFailures

-----------------------------------------------------------------------------
(* Creation and lookup of an instance.                                     *)

(* However many contexts cuCtxCreate gave, the instance is complete if the *)
(* creation succeeded, and the next attempt starts again if not.           *)
LEMMA CreateOK ==
  ASSUME Sound(cuda, drv), cuda.created \/ drv.attempts < MaxCreate,
         NEW o \in CUDADeviceAPICreate
  PROVE  /\ Sound(o.cuda, o.drv)
         /\ o.status = 0 <=> o.cuda.created
         /\ cuda.created => o.cuda = cuda /\ o.drv = drv
<1>1. /\ cuda \in Instance /\ drv \in Driver
      /\ NumDevice \in Nat \ {0} /\ MaxCreate \in Nat
  BY DeviceAssumption DEF Sound
<1>2. CASE cuda.created
  BY <1>2 DEF CUDADeviceAPICreate, Outcome
<1>3. ASSUME ~ cuda.created, NEW k \in 0 .. NumDevice, NEW flag \in BOOLEAN,
             flag => k = NumDevice
      PROVE  Sound(Created(k, flag), Contexts(k)) /\ Created(k, flag).created = flag
  <2> DEFINE n == drv.attempts + 1
  <2>1. n \in 1 .. MaxCreate
    BY <1>1, <1>3 DEF Driver
  <2>2. \A d \in Device : <<d, n>> \in Context
    BY <2>1 DEF Context
  <2>3. /\ Created(k, flag) \in Instance
        /\ Created(k, flag).created = flag
        /\ \A d \in Device : d < k => Created(k, flag).contexts[d] = <<d, n>>
    BY <1>1, <2>2, ZenonT(60) DEF Created, Instance
  <2> DEFINE A == drv.alive \cup {<<d, n>> : d \in 0 .. k - 1}
             C == IF k = 0 THEN drv.ctx ELSE <<k - 1, n>>
  <2>4. Contexts(k) = [drv EXCEPT !.attempts = n, !.alive = A, !.ctx = C,
                                  !.follows = FALSE]
    BY Zenon DEF Contexts
  <2>5. 0 .. k - 1 \subseteq Device
    BY <1>1 DEF Device
  <2>6. A \in SUBSET Context /\ C \in Context \cup {None}
    BY <1>1, <2>2, <2>5 DEF Driver
  <2>7. \A x \in A : x[2] <= n
    <3>1. \A x \in drv.alive : x \in Context /\ x[2] <= drv.attempts
      BY <1>1 DEF Sound, Driver
    <3>2. \A x \in drv.alive : x[2] <= n
      BY <1>1, <3>1 DEF Context, Driver
    <3> QED BY <2>1, <3>2
  <2>8. flag => (\A d \in Device : <<d, n>> \in A) /\ C \in A
    BY <1>1, <1>3 DEF Device
  <2>9. /\ Contexts(k) \in Driver
        /\ Contexts(k).alive = A /\ Contexts(k).ctx = C
        /\ Contexts(k).attempts = n /\ Contexts(k).follows = FALSE
    <3>1. n \in 0 .. MaxCreate
      BY <1>1, <2>1
    <3> HIDE DEF A, C, n
    <3> QED BY <1>1, <2>4, <2>6, <3>1 DEF Driver
  <2>10. flag => \A d \in Device : Created(k, flag).contexts[d] = <<d, n>>
    <3> SUFFICES ASSUME flag, NEW d \in Device
                 PROVE  Created(k, flag).contexts[d] = <<d, n>>
      OBVIOUS
    <3>1. d < k
      BY <1>1, <1>3 DEF Device
    <3> QED BY <2>3, <3>1
  <2> HIDE DEF A, C, n
  <2> QED BY <2>3, <2>7, <2>8, <2>9, <2>10 DEF Sound
<1>4. CASE ~ cuda.created
  <2>1. CASE o = Outcome(0, Created(NumDevice, TRUE), Contexts(NumDevice))
    <3>1. /\ Sound(Created(NumDevice, TRUE), Contexts(NumDevice))
          /\ Created(NumDevice, TRUE).created = TRUE
      <4>1. NumDevice \in 0 .. NumDevice
        BY <1>1
      <4> QED BY <1>3, <1>4, <4>1
    <3>2. /\ o.status = 0 /\ o.cuda = Created(NumDevice, TRUE)
          /\ o.drv = Contexts(NumDevice)
      BY <2>1 DEF Outcome
    <3> QED BY <1>4, <3>1, <3>2
  <2>2. ASSUME NEW k \in 0 .. NumDevice - 1,
               o = Outcome(-1, Created(k, FALSE), Contexts(k))
        PROVE  Sound(o.cuda, o.drv) /\ o.status # 0 /\ ~ o.cuda.created
    <3>1. /\ Sound(Created(k, FALSE), Contexts(k))
          /\ Created(k, FALSE).created = FALSE
      <4>1. k \in 0 .. NumDevice
        BY <1>1
      <4> QED BY <1>3, <1>4, <4>1
    <3>2. /\ o.status # 0 /\ o.cuda = Created(k, FALSE)
          /\ o.drv = Contexts(k)
      BY <2>2 DEF Outcome
    <3>3. o.cuda.created = FALSE
      BY <3>1, <3>2
    <3> QED BY <3>1, <3>2, <3>3
  <2>3. CASE o = Outcome(-1, cuda, drv)
    BY <1>4, <2>3 DEF Outcome
  <2> QED BY <1>4, <2>1, <2>2, <2>3 DEF CUDADeviceAPICreate
<1> QED BY <1>2, <1>4

(* What a function of the API knows once it has asked for its instance.    *)
LEMMA GetOK ==
  ASSUME IInv, NEW t \in Type, NEW g, Gets(t, g)
  PROVE  /\ state = "up"
         /\ Sound(g.cuda, g.drv)
         /\ instance' \in [Type -> BOOLEAN] /\ webgpu' \in BOOLEAN
         /\ (\E x \in CUDA : instance'[x]) <=> g.cuda.created
         /\ instance'["WebGPU"] <=> webgpu'
         /\ cur_device[1] \in CUDA =>
              g.cuda.created /\ g.cuda.current_device = cur_device[2]
         /\ t \in CUDA => (g.status = 0 <=> g.cuda.created)
<1>1. /\ state = "up" /\ Sound(cuda, drv)
      /\ instance \in [Type -> BOOLEAN] /\ webgpu \in BOOLEAN
      /\ (\E x \in CUDA : instance[x]) <=> cuda.created
      /\ instance["WebGPU"] <=> webgpu
      /\ cur_device[1] \in CUDA =>
           cuda.created /\ cuda.current_device = cur_device[2]
  BY DEF IInv, Gets, InstancesAreCurrent, DeviceTypeOK
<1>2. /\ g \in DeviceAPIGet(t)
      /\ instance' = g.instance /\ webgpu' = g.webgpu
  BY DEF Gets
<1>3. CASE instance[t]
  <2>1. g = Found(t, 0, cuda, drv, webgpu)
    BY <1>2, <1>3 DEF DeviceAPIGet
  <2>2. /\ g.cuda = cuda /\ g.drv = drv /\ g.status = 0
        /\ instance' = instance /\ webgpu' = webgpu
    BY <1>1, <1>2, <1>3, <2>1 DEF Found
  <2> QED BY <1>1, <1>3, <2>2
<1>4. CASE ~ instance[t] /\ t = "WebGPU"
  <2>1. \/ g = Found(t, 0, cuda, drv, TRUE)
        \/ g = Found(t, -1, cuda, drv, webgpu)
    BY <1>2, <1>4 DEF DeviceAPIGet
  <2>2. g.cuda = cuda /\ g.drv = drv
    BY <2>1 DEF Found
  <2>3. /\ webgpu' \in BOOLEAN
        /\ instance' = [instance EXCEPT !["WebGPU"] = webgpu']
    <3>1. CASE g = Found(t, 0, cuda, drv, TRUE)
      <4>1. g.webgpu = TRUE /\ g.instance = [instance EXCEPT ![t] = 0 = 0]
        BY <3>1, Zenon DEF Found
      <4>2. (0 = 0) = TRUE
        OBVIOUS
      <4> QED BY <1>2, <1>4, <4>1, <4>2
    <3>2. CASE g = Found(t, -1, cuda, drv, webgpu)
      <4>1. /\ g.webgpu = webgpu
            /\ g.instance = [instance EXCEPT ![t] = -1 = 0]
        BY <3>2, Zenon DEF Found
      <4>2. (-1 = 0) = FALSE /\ webgpu = FALSE
        BY <1>1, <1>4
      <4> QED BY <1>1, <1>2, <1>4, <4>1, <4>2
    <3> QED BY <2>1, <3>1, <3>2
  <2> QED BY <1>1, <1>4, <2>2, <2>3 DEF CUDA, Type
<1>5. CASE ~ instance[t] /\ t # "WebGPU"
  <2>1. PICK o \in CUDADeviceAPICreate :
          g = Found(t, o.status, o.cuda, o.drv, webgpu)
    BY <1>2, <1>5 DEF DeviceAPIGet
  <2>2. t \in CUDA /\ (cuda.created \/ drv.attempts < MaxCreate)
    BY <1>5 DEF Type, Gets
  <2>3. /\ Sound(o.cuda, o.drv)
        /\ o.status = 0 <=> o.cuda.created
        /\ cuda.created => o.cuda = cuda /\ o.drv = drv
    BY <1>1, <2>2, CreateOK
  <2>4. /\ g.cuda = o.cuda /\ g.drv = o.drv /\ g.status = o.status
        /\ webgpu' = webgpu
        /\ instance' = [instance EXCEPT ![t] = o.status = 0]
    BY <1>2, <2>1 DEF Found
  <2>5. (\E x \in CUDA : instance'[x]) <=> o.cuda.created
    BY <1>1, <2>2, <2>3, <2>4 DEF CUDA, Type
  <2>6. instance' \in [Type -> BOOLEAN] /\ instance'["WebGPU"] = instance["WebGPU"]
    BY <1>1, <1>5, <2>4 DEF Type
  <2> QED BY <1>1, <2>2, <2>3, <2>4, <2>5, <2>6
<1> QED BY <1>3, <1>4, <1>5

(* cuCtxSetCurrent leaves a context that is alive, for an instance e that  *)
(* differs from c in the device a set_device noted.                        *)
LEMMA SetCurrentOK ==
  ASSUME NEW c, NEW v, Sound(c, v), c.created, NEW d \in Device,
         NEW set \in BOOLEAN, NEW s \in SetCurrent(v, c.contexts[d], set),
         NEW e \in Instance, e.created, e.contexts = c.contexts,
         e.current_device = IF set THEN d ELSE c.current_device
  PROVE  Sound(e, s.drv)
<1>1. /\ c.contexts[d] \in v.alive /\ v.alive \subseteq Context
      /\ v \in Driver
  BY DEF Sound, Driver
<1>2. CASE s = [ok |-> TRUE,
                drv |-> [v EXCEPT !.ctx = c.contexts[d], !.follows = set]]
  <2>1. /\ s.drv \in Driver /\ s.drv.alive = v.alive
        /\ s.drv.attempts = v.attempts /\ s.drv.ctx = c.contexts[d]
        /\ s.drv.follows = set
    BY <1>1, <1>2 DEF Driver
  <2> QED BY <1>1, <2>1 DEF Sound
<1>3. CASE s = [ok |-> FALSE, drv |-> [v EXCEPT !.follows = @ /\ ~ set]]
  <2> DEFINE w == v.follows /\ ~ set
  <2>1. s.drv = [v EXCEPT !.follows = w] /\ w \in BOOLEAN
    BY <1>3
  <2> HIDE DEF w
  <2>2. /\ s.drv \in Driver /\ s.drv.alive = v.alive
        /\ s.drv.attempts = v.attempts /\ s.drv.ctx = v.ctx
        /\ s.drv.follows = w
    BY <1>1, <2>1 DEF Driver
  <2>3. s.drv.follows => v.follows /\ ~ set
    BY <2>2 DEF w
  <2> QED BY <1>1, <2>2, <2>3 DEF Sound
<1> QED BY <1>2, <1>3 DEF SetCurrent

-----------------------------------------------------------------------------
(* A step that leaves the program up: what there is to show once GetOK was *)
(* used.                                                                   *)
LEMMA StepOK ==
  ASSUME IInv, NEW t \in Type, NEW g, Gets(t, g), Sound(cuda', drv'),
         cuda'.created = g.cuda.created,
         cur_device' \in {<<"CPU", 0>>} \cup (Type \X Device),
         cur_device'[1] \in CUDA =>
           cuda'.created /\ cuda'.current_device = cur_device'[2],
         data' \in [Ptr -> {None} \cup [type : Type, dev : Device, on : Device]],
         streams' \subseteq Stream, state' = "up"
  PROVE  IInv'
<1>1. /\ instance' \in [Type -> BOOLEAN] /\ webgpu' \in BOOLEAN
      /\ (\E x \in CUDA : instance'[x]) <=> cuda'.created
      /\ instance'["WebGPU"] <=> webgpu'
  BY GetOK
<1>2. RecordsOK'
  BY DEF RecordsOK, Sound
<1>3. DeviceTypeOK'
  BY <1>1, <1>2 DEF DeviceTypeOK, RecordsOK, Instance, Driver
<1>4. InstancesAreCurrent'
  BY <1>1 DEF InstancesAreCurrent, Sound
<1>5. ReleaseLeavesOnlyFailures'
  BY DEF ReleaseLeavesOnlyFailures
<1> QED BY <1>2, <1>3, <1>4, <1>5 DEF IInv

LEMMA InitOK == Init => IInv
<1> SUFFICES ASSUME Init PROVE IInv
  OBVIOUS
<1>1. 0 \in Device /\ MaxCreate \in Nat
  BY DeviceAssumption DEF Device
<1>2. Sound(cuda, drv)
  BY <1>1 DEF Init, Sound, Instance, Driver
<1>3. DeviceTypeOK
  BY <1>1, <1>2 DEF Init, DeviceTypeOK, Sound, Instance, Driver, Type, CUDA
<1>4. InstancesAreCurrent
  BY DEF Init, InstancesAreCurrent, CUDA, Type
<1> QED
  BY <1>2, <1>3, <1>4 DEF Init, IInv, RecordsOK, Sound, ReleaseLeavesOnlyFailures

-----------------------------------------------------------------------------
(* The actions.                                                            *)

Block == {None} \cup [type : Type, dev : Device, on : Device]

LEMMA CudaContexts ==
  ASSUME NEW c, NEW v, Sound(c, v), c.created
  PROVE  v.ctx \in Context /\ v.ctx[1] \in Device
BY DEF Sound, Driver, Context

(* An instance that was asked for and not given is not in the table.       *)
LEMMA MissingOK ==
  ASSUME IInv, NEW t \in Type, NEW g, Gets(t, g), g.status # 0
  PROVE  ~ instance'[t]
<1>1. /\ instance \in [Type -> BOOLEAN] /\ instance' = g.instance
      /\ g \in DeviceAPIGet(t)
  BY DEF IInv, DeviceTypeOK, Gets
<1>2. ASSUME NEW k, NEW c, NEW v, NEW w, g = Found(t, k, c, v, w)
      PROVE  ~ instance'[t]
  <2>1. g.status = k /\ g.instance = [instance EXCEPT ![t] = k = 0]
    BY <1>2, Zenon DEF Found
  <2>2. k # 0
    BY <2>1
  <2>3. instance'[t] = (k = 0)
    BY <1>1, <2>1, Zenon
  <2> QED BY <2>2, <2>3
<1>3. \E k, c, v, w : g = Found(t, k, c, v, w)
  BY <1>1, Zenon DEF DeviceAPIGet
<1> QED BY <1>2, <1>3, Zenon

LEMMA SetDeviceOK ==
  ASSUME IInv, NEW t \in Type, NEW d \in Device, SetDevice(t, d)
  PROVE  IInv'
<1>1. PICK g \in DeviceAPIGet(t) : SetDevice(t, d)!(g)
  BY DEF SetDevice
<1>2. /\ Gets(t, g) /\ cur_device' = <<t, d>>
      /\ UNCHANGED <<data, streams>>
  BY <1>1
<1>3. /\ state = "up" /\ Sound(g.cuda, g.drv)
      /\ instance' \in [Type -> BOOLEAN] /\ webgpu' \in BOOLEAN
      /\ t \in CUDA => (g.status = 0 <=> g.cuda.created)
  BY <1>2, GetOK
<1>4. /\ data \in [Ptr -> Block] /\ streams \subseteq Stream
  BY DEF IInv, DeviceTypeOK, Block
<1>5. CASE g.status # 0
  <2>1. state' = "undefined" /\ cuda' = g.cuda /\ drv' = g.drv
    BY <1>1, <1>5 DEF Keeps
  <2>2. RecordsOK'
    BY <1>3, <2>1 DEF RecordsOK, Sound
  <2>3. DeviceTypeOK'
    BY <1>2, <1>3, <1>4, <2>1, <2>2
       DEF DeviceTypeOK, RecordsOK, Instance, Driver, Block
  <2>4. cur_device'[1] = t /\ ~ instance'[t]
    <3>1. cur_device'[1] = t
      BY <1>2
    <3> QED BY <3>1, <1>2, <1>5, MissingOK
  <2> QED
    BY <2>1, <2>2, <2>3, <2>4
       DEF IInv, InstancesAreCurrent, ReleaseLeavesOnlyFailures
<1>6. CASE g.status = 0
  <2>1. state' = "up"
    BY <1>1, <1>3, <1>6
  <2>2. /\ Sound(cuda', drv') /\ cuda'.created = g.cuda.created
        /\ t \in CUDA => cuda'.created /\ cuda'.current_device = d
    <3>1. CASE t \in CUDA /\ g.cuda.current_device # d
      <4>1. cuda' = [g.cuda EXCEPT !.current_device = d]
        BY <1>1, <1>6, <3>1
      <4>2. PICK s \in SetCurrent(g.drv, g.cuda.contexts[d], TRUE) :
              drv' = s.drv
        BY <1>1, <1>6, <3>1
      <4>3. g.cuda \in Instance /\ g.cuda.created
        BY <1>3, <1>6, <3>1 DEF Sound
      <4>4. /\ cuda' \in Instance /\ cuda'.contexts = g.cuda.contexts
            /\ cuda'.created = g.cuda.created /\ cuda'.current_device = d
        BY <4>1, <4>3 DEF Instance
      <4>5. Sound(cuda', s.drv)
        BY <1>3, <4>3, <4>4, SetCurrentOK
      <4> QED BY <4>2, <4>3, <4>4, <4>5
    <3>2. CASE ~ (t \in CUDA /\ g.cuda.current_device # d)
      <4>1. cuda' = g.cuda /\ drv' = g.drv
        BY <1>1, <1>6, <3>2 DEF Keeps
      <4> QED BY <1>3, <1>6, <3>2, <4>1
    <3> QED BY <3>1, <3>2
  <2>3. cur_device' \in Type \X Device /\ cur_device'[1] = t
        /\ cur_device'[2] = d
    BY <1>2
  <2> QED BY <1>2, <1>4, <2>1, <2>2, <2>3, StepOK DEF Block
<1> QED BY <1>5, <1>6

(* A step that keeps what GetOK gives: cur_device stays, and of the CUDA   *)
(* instance no more than the stream changes.                               *)
LEMMA KeptOK ==
  ASSUME IInv, NEW t \in Type, NEW g, Gets(t, g), Sound(cuda', drv'),
         cuda'.created = g.cuda.created,
         cuda'.current_device = g.cuda.current_device,
         data' \in [Ptr -> Block], streams' \subseteq Stream,
         UNCHANGED <<cur_device, state>>
  PROVE  IInv'
<1>1. /\ state = "up"
      /\ cur_device[1] \in CUDA =>
           g.cuda.created /\ g.cuda.current_device = cur_device[2]
  BY GetOK
<1>2. cur_device \in {<<"CPU", 0>>} \cup (Type \X Device)
  BY DEF IInv, DeviceTypeOK
<1> QED BY <1>1, <1>2, StepOK DEF Block

LEMMA AllocOK ==
  ASSUME IInv, NEW t \in Type, NEW d \in Device, NEW p \in Ptr,
         AllocDataSpace(t, d, p)
  PROVE  IInv'
<1>1. PICK g \in DeviceAPIGet(t) : AllocDataSpace(t, d, p)!(g)
  BY DEF AllocDataSpace
<1>2. /\ t # "CUDAHost" /\ Gets(t, g) /\ cuda' = g.cuda /\ drv' = g.drv
      /\ UNCHANGED <<cur_device, streams, state>>
  BY <1>1 DEF Keeps
<1>3. /\ Sound(g.cuda, g.drv)
      /\ t \in CUDA => (g.status = 0 <=> g.cuda.created)
  BY <1>2, GetOK
<1>4. data \in [Ptr -> Block] /\ streams \subseteq Stream
  BY DEF IInv, DeviceTypeOK, Block
<1>5. data' \in [Ptr -> Block]
  <2>1. ASSUME g.status = 0
        PROVE  (IF t = "CUDA" THEN g.drv.ctx[1] ELSE d) \in Device
    BY <1>3, <2>1, CudaContexts DEF CUDA
  <2> QED BY <1>1, <1>4, <2>1 DEF Block
<1> QED BY <1>2, <1>3, <1>4, <1>5, KeptOK

LEMMA FreeOK ==
  ASSUME IInv, NEW p \in Ptr, FreeDataSpace(p)
  PROVE  IInv'
<1>1. data \in [Ptr -> Block] /\ streams \subseteq Stream
  BY DEF IInv, DeviceTypeOK, Block
<1>2. data[p] # None
  BY DEF FreeDataSpace
<1> DEFINE t == data[p].type
<1>3. t \in Type
  BY <1>1, <1>2 DEF Block
<1>4. PICK g \in DeviceAPIGet(t) :
        /\ Gets(t, g) /\ Keeps(g)
        /\ \/ g.status = 0 /\ data' = [data EXCEPT ![p] = None]
           \/ MayFail /\ UNCHANGED data
  BY DEF FreeDataSpace
<1>5. UNCHANGED <<cur_device, streams, state>>
  BY DEF FreeDataSpace
<1>6. data' \in [Ptr -> Block]
  BY <1>1, <1>4 DEF Block
<1> HIDE DEF t
<1>7. Sound(g.cuda, g.drv)
  BY <1>3, <1>4, GetOK
<1> QED BY <1>1, <1>3, <1>4, <1>5, <1>6, <1>7, KeptOK DEF Keeps

LEMMA CopyOK ==
  ASSUME IInv, NEW t \in Type, CopyDataFromTo(t)
  PROVE  IInv'
<1>1. PICK g \in DeviceAPIGet(t) : CopyDataFromTo(t)!(g)
  BY DEF CopyDataFromTo
<1>2. /\ Gets(t, g) /\ cuda' = g.cuda /\ drv' = g.drv
      /\ UNCHANGED <<cur_device, data, streams, state>>
  BY <1>1 DEF Keeps
<1>3. data \in [Ptr -> Block] /\ streams \subseteq Stream
  BY DEF IInv, DeviceTypeOK, Block
<1>4. Sound(g.cuda, g.drv)
  BY <1>2, GetOK
<1> QED BY <1>2, <1>3, <1>4, KeptOK

(* The functions of streams: they may change the current context.          *)
LEMMA StreamsOK ==
  ASSUME IInv, NEW g, Gets("CUDA", g), NEW d \in Device, cuda' = g.cuda,
         \/ drv' = g.drv
         \/ /\ g.status = 0
            /\ \E x \in SetCurrent(g.drv, g.cuda.contexts[d], FALSE) :
                 drv' = x.drv,
         streams' \subseteq Stream, UNCHANGED <<cur_device, data, state>>
  PROVE  IInv'
<1>1. "CUDA" \in Type /\ "CUDA" \in CUDA
  BY DEF Type, CUDA
<1>2. Sound(g.cuda, g.drv) /\ (g.status = 0 <=> g.cuda.created)
  BY <1>1, GetOK
<1>3. Sound(cuda', drv')
  <2>1. g.cuda \in Instance
    BY <1>2 DEF Sound
  <2> QED BY <1>2, <2>1, SetCurrentOK
<1>4. data' \in [Ptr -> Block]
  BY DEF IInv, DeviceTypeOK, Block
<1> QED BY <1>1, <1>3, <1>4, KeptOK

LEMMA StreamCreateOK ==
  ASSUME IInv, NEW d \in Device, NEW s \in Stream, StreamCreate(d, s)
  PROVE  IInv'
<1>1. PICK g \in DeviceAPIGet("CUDA") : StreamCreate(d, s)!(g)
  BY DEF StreamCreate
<1>2. streams \subseteq Stream
  BY DEF IInv, DeviceTypeOK
<1> QED BY <1>1, <1>2, StreamsOK

LEMMA StreamFreeOK ==
  ASSUME IInv, NEW d \in Device, NEW s \in Stream, StreamFree(d, s)
  PROVE  IInv'
<1>1. PICK g \in DeviceAPIGet("CUDA") : StreamFree(d, s)!(g)
  BY DEF StreamFree
<1>2. streams \subseteq Stream
  BY DEF IInv, DeviceTypeOK
<1> QED BY <1>1, <1>2, StreamsOK

LEMMA SynchronizeOK ==
  ASSUME IInv, NEW d \in Device, Synchronize(d)
  PROVE  IInv'
<1>1. PICK g \in DeviceAPIGet("CUDA") : Synchronize(d)!(g)
  BY DEF Synchronize
<1>2. streams \subseteq Stream
  BY DEF IInv, DeviceTypeOK
<1> QED BY <1>1, <1>2, StreamsOK

LEMMA SetStreamOK ==
  ASSUME IInv, NEW s \in Stream \cup {None}, SetStream(s)
  PROVE  IInv'
<1>1. PICK g \in DeviceAPIGet("CUDA") : SetStream(s)!(g)
  BY DEF SetStream
<1>2. "CUDA" \in Type
  BY DEF Type, CUDA
<1>3. Sound(g.cuda, g.drv)
  BY <1>1, <1>2, GetOK
<1>4. /\ cuda' \in Instance /\ cuda'.contexts = g.cuda.contexts
      /\ cuda'.created = g.cuda.created
      /\ cuda'.current_device = g.cuda.current_device
  BY <1>1, <1>3 DEF Sound, Instance
<1>5. Sound(cuda', drv')
  BY <1>1, <1>3, <1>4 DEF Sound
<1>6. data \in [Ptr -> Block] /\ streams \subseteq Stream
  BY DEF IInv, DeviceTypeOK, Block
<1> QED BY <1>1, <1>2, <1>4, <1>5, <1>6, KeptOK

(* The end of the program: contexts of the last attempt are destroyed if   *)
(* the table has an entry for them, which it has if they were created.     *)
LEMMA ReleaseAllOK ==
  ASSUME IInv, ReleaseAll
  PROVE  IInv'
<1>1. /\ state = "up" /\ state' \in {"released", "twice"}
      /\ webgpu' = (webgpu /\ ~ instance["WebGPU"])
      /\ instance' = [t \in Type |-> FALSE]
      /\ UNCHANGED <<cuda, cur_device, data, streams>>
  BY DEF ReleaseAll
<1>2. \/ drv' = drv /\ \A t \in CUDA : ~ instance[t]
      \/ drv' = [drv EXCEPT !.alive =
                   drv.alive \ {cuda.contexts[d] : d \in Device}]
  BY DEF ReleaseAll
<1>3. /\ Sound(cuda, drv) /\ RecordsOK /\ DeviceTypeOK
      /\ (\E t \in CUDA : instance[t]) <=> cuda.created
      /\ instance["WebGPU"] <=> webgpu
  BY <1>1 DEF IInv, InstancesAreCurrent
<1>4. /\ drv' \in Driver /\ drv'.attempts = drv.attempts
      /\ \/ drv' = drv /\ ~ cuda.created
         \/ drv'.alive = drv.alive \ {cuda.contexts[d] : d \in Device}
  BY <1>2, <1>3 DEF RecordsOK, Driver
<1>5. RecordsOK'
  BY <1>1, <1>3, <1>4 DEF RecordsOK
<1>6. DeviceTypeOK'
  BY <1>1, <1>3, <1>5 DEF DeviceTypeOK, RecordsOK, Instance, Driver
<1>7. ASSUME cuda.created, NEW c \in drv'.alive
      PROVE  c[2] < drv.attempts
  <2>1. /\ c \in drv.alive /\ c \in Context /\ c[2] <= drv.attempts
        /\ drv.attempts \in Int
    BY <1>3, <1>4, <1>7, DeviceAssumption DEF Sound, Driver
  <2>2. \A d \in Device : c # <<d, drv.attempts>>
    BY <1>3, <1>4, <1>7 DEF Sound
  <2>3. c[1] \in Device /\ c[2] \in Int /\ c = <<c[1], c[2]>>
    BY <2>1 DEF Context
  <2> QED BY <2>1, <2>2, <2>3
<1>8. ReleaseLeavesOnlyFailures'
  BY <1>1, <1>3, <1>4, <1>7 DEF ReleaseLeavesOnlyFailures
<1> QED BY <1>1, <1>5, <1>6, <1>8 DEF IInv, InstancesAreCurrent

LEMMA InvStep == IInv /\ [Next]_vars => IInv'
<1> SUFFICES ASSUME IInv, [Next]_vars PROVE IInv'
  OBVIOUS
<1>1. CASE UNCHANGED vars
  BY <1>1 DEF vars, IInv, DeviceTypeOK, RecordsOK, Sound, InstancesAreCurrent,
              ReleaseLeavesOnlyFailures
<1>2. CASE Next
  BY <1>2, SetDeviceOK, AllocOK, FreeOK, CopyOK, StreamCreateOK, StreamFreeOK,
     SynchronizeOK, SetStreamOK, ReleaseAllOK DEF Next
<1> QED BY <1>1, <1>2

LEMMA Invariant == Spec => []IInv
BY InitOK, InvStep, PTL DEF Spec

-----------------------------------------------------------------------------
(* The types, for any number of devices, attempts, blocks and streams: the *)
(* current context of a created instance is always one of its devices'.    *)
THEOREM DeviceTypeCorrect == Spec => []DeviceTypeOK
<1>1. IInv => DeviceTypeOK
  BY DEF IInv
<1> QED BY <1>1, Invariant, PTL

(* The table never has an instance that does not work, however many times  *)
(* its creation failed before (device_api.c:34-45), the device             *)
(* __tvm_set_device remembers is the one of the instance                   *)
(* (c_runtime_api.c:399-408), and the driver's context is that device's    *)
(* from a set_device on that succeeded until something comes between.      *)
THEOREM TableIsCurrent == Spec => []InstancesAreCurrent
<1>1. IInv => InstancesAreCurrent
  BY DEF IInv
<1> QED BY <1>1, Invariant, PTL

(* At the end of the program nothing is left of what the table reached,    *)
(* also where the release of a shared instance is made twice               *)
(* (device_api.c:63-70).                                                   *)
THEOREM ReleaseIsComplete == Spec => []ReleaseLeavesOnlyFailures
<1>1. IInv => ReleaseLeavesOnlyFailures
  BY DEF IInv
<1> QED BY <1>1, Invariant, PTL

-----------------------------------------------------------------------------
(* The workspace caches.                                                   *)

Held(c) == held[c] # Nothing

CacheOK ==
  /\ Typed
  /\ CacheIsBounded
  /\ NotHandedOutTwice
  /\ CacheKnowsItsHolders
  /\ BlocksAreLive

(* Marking an entry keeps the cache's length. *)
LEMMA MarkedBounded ==
  ASSUME CacheIsBounded, NEW e \in cache, NEW b
  PROVE  IsFiniteSet(Marked(e, b)) /\ Cardinality(Marked(e, b)) <= MaxCached
<1> DEFINE less == cache \ {e}
<1> DEFINE new  == [e EXCEPT !.is_free = b]
<1>1. /\ IsFiniteSet(less)
      /\ Cardinality(less) = Cardinality(cache) - 1
  BY FS_RemoveElement DEF CacheIsBounded
<1>2. /\ IsFiniteSet(less \cup {new})
      /\ Cardinality(less \cup {new}) <= Cardinality(less) + 1
  <2>1. CASE new \in less
    <3>1. less \cup {new} = less
      BY <2>1
    <3>2. Cardinality(less) \in Nat
      BY <1>1, FS_CardinalityType
    <3> QED BY <3>1, <3>2, <1>1
  <2>2. CASE new \notin less
    <3>1. /\ IsFiniteSet(less \cup {new})
          /\ Cardinality(less \cup {new}) = Cardinality(less) + 1
      BY <1>1, <2>2, FS_AddElement
    <3>2. Cardinality(less) \in Nat
      BY <1>1, FS_CardinalityType
    <3> QED BY <3>1, <3>2
  <2> QED BY <2>1, <2>2
<1>3. Marked(e, b) = less \cup {new}
  BY DEF Marked
<1>4. /\ Cardinality(cache) \in Nat
      /\ Cardinality(less \cup {new}) \in Nat
  BY <1>2, FS_CardinalityType DEF CacheIsBounded
<1> QED BY <1>1, <1>2, <1>3, <1>4, WorkspaceAssumption DEF CacheIsBounded

(* And each block stays in it. *)
LEMMA MarkedKeepsBlocks ==
  ASSUME cache \subseteq CachedWorkspaceMemory, NEW e \in cache, NEW b
  PROVE  \A g \in cache : \E h \in Marked(e, b) : h.ptr = g.ptr
<1> TAKE g \in cache
<1>1. CASE g = e
  <2>1. [e EXCEPT !.is_free = b] \in Marked(e, b)
    BY DEF Marked
  <2>2. [e EXCEPT !.is_free = b].ptr = g.ptr
    BY <1>1 DEF CachedWorkspaceMemory
  <2> QED BY <2>1, <2>2
<1>2. CASE g # e
  BY <1>2 DEF Marked
<1> QED BY <1>1, <1>2

(* A new block enters only if there is room. *)
LEMMA EnteredBounded ==
  ASSUME CacheIsBounded, NEW p, NEW n
  PROVE  IsFiniteSet(Entered(p, n)) /\ Cardinality(Entered(p, n)) <= MaxCached
<1> DEFINE new == Entry(p, n, FALSE)
<1>1. Kept \subseteq cache
  BY DEF Kept
<1>2. /\ IsFiniteSet(Kept)
      /\ Cardinality(Kept) <= Cardinality(cache)
  BY <1>1, FS_Subset DEF CacheIsBounded
<1>3. Cardinality(cache) \in Nat /\ Cardinality(Kept) \in Nat
  BY <1>2, FS_CardinalityType DEF CacheIsBounded
<1>4. CASE Cardinality(Kept) < MaxCached
  <2>1. Entered(p, n) = Kept \cup {new}
    BY <1>4 DEF Entered
  <2>2. CASE new \in Kept
    <3>1. Kept \cup {new} = Kept
      BY <2>2
    <3>2. Entered(p, n) = Kept
      BY <3>1, <2>1
    <3> HIDE DEF new
    <3> QED BY <3>2, <1>2, <1>4, <1>3, WorkspaceAssumption
  <2>3. CASE new \notin Kept
    <3>1. /\ IsFiniteSet(Kept \cup {new})
          /\ Cardinality(Kept \cup {new}) = Cardinality(Kept) + 1
      BY <1>2, <2>3, FS_AddElement
    <3> QED BY <3>1, <2>1, <1>3, <1>4, WorkspaceAssumption
  <2> QED BY <2>2, <2>3
<1>5. CASE ~ (Cardinality(Kept) < MaxCached)
  <2>1. Entered(p, n) = Kept
    BY <1>5 DEF Entered
  <2> QED BY <2>1, <1>2, <1>3, WorkspaceAssumption DEF CacheIsBounded
<1> QED BY <1>4, <1>5

LEMMA CacheInitOK == CacheInit => CacheOK
<1> SUFFICES ASSUME CacheInit PROVE CacheOK
  OBVIOUS
<1>1. Typed
  BY DEF CacheInit, Typed
<1>2. CacheIsBounded
  BY FS_EmptySet, WorkspaceAssumption DEF CacheInit, CacheIsBounded
<1>3. NotHandedOutTwice /\ CacheKnowsItsHolders /\ BlocksAreLive
  BY DEF CacheInit, NotHandedOutTwice, CacheKnowsItsHolders, BlocksAreLive
<1> QED BY <1>1, <1>2, <1>3 DEF CacheOK

(* A cached block is handed out: nobody held it, and its entry now says    *)
(* that somebody does.                                                     *)
LEMMA AllocCachedOK ==
  ASSUME CacheOK, NEW c \in Client, NEW n \in Size, AllocCached(c, n)
  PROVE  CacheOK'
<1> USE DEF CacheOK
<1>1. PICK e \in Hits(n) : cache' = Marked(e, FALSE) /\ Holds(c, e.ptr, n)
  BY DEF AllocCached
<1> DEFINE w == [ptr |-> e.ptr, size |-> n, dev |-> current]
<1>2. /\ e \in cache /\ e.size = n /\ e.is_free
      /\ e \in CachedWorkspaceMemory
      /\ e.ptr \in Address
  BY <1>1 DEF Hits, Typed, CachedWorkspaceMemory
<1>3. /\ held' = [held EXCEPT ![c] = w]
      /\ held[c] = Nothing
      /\ UNCHANGED <<blocks, current, released>>
      /\ w \in [ptr : Address, size : Size, dev : DeviceId]
      /\ w # Nothing
  <2>1. w \in [ptr : Address, size : Size, dev : DeviceId]
    BY <1>2 DEF Typed
  <2>2. w # Nothing
    BY <2>1, WorkspaceAssumption
  <2> QED BY <2>1, <2>2, <1>1 DEF AllocCached, Holds
<1>4. /\ held'[c] = w
      /\ \A k \in Client : k # c => held'[k] = held[k]
  BY <1>3 DEF Typed
<1>5. \A g \in cache' : (g \in cache /\ g # e)
                        \/ (g.ptr = e.ptr /\ g.size = n /\ ~ g.is_free
                            /\ g \in CachedWorkspaceMemory)
  BY <1>1, <1>2 DEF Marked, CachedWorkspaceMemory
<1>6. \A k \in Client : Held(k) => held[k].ptr # e.ptr
  BY <1>2 DEF CacheKnowsItsHolders, Held
<1>7. Typed'
  BY <1>3, <1>5 DEF Typed
<1>8. CacheIsBounded'
  BY <1>1, <1>2, MarkedBounded DEF CacheIsBounded
<1>9. NotHandedOutTwice'
  BY <1>3, <1>4, <1>6 DEF NotHandedOutTwice, Held
<1>10. CacheKnowsItsHolders'
  <2>1. ASSUME NEW g \in cache'
        PROVE  g.is_free <=>
                 \A k \in Client : held'[k] # Nothing => held'[k].ptr # g.ptr
    <3>1. CASE g.ptr = e.ptr
      BY <3>1, <1>2, <1>3, <1>4, <1>5 DEF CacheKnowsItsHolders
    <3>2. CASE g.ptr # e.ptr
      <4>1. g \in cache
        BY <3>2, <1>5
      <4>2. g.is_free <=>
              \A k \in Client : held[k] # Nothing => held[k].ptr # g.ptr
        BY <4>1 DEF CacheKnowsItsHolders
      <4>3. w.ptr # g.ptr
        BY <3>2
      <4> QED BY <4>2, <4>3, <1>3, <1>4
    <3> QED BY <3>1, <3>2
  <2>2. \A g, h \in cache' : g.ptr = h.ptr => g = h
    BY <1>1, <1>2, <1>5 DEF CacheKnowsItsHolders, Marked,
       CachedWorkspaceMemory
  <2> QED BY <2>1, <2>2 DEF CacheKnowsItsHolders
<1>11. BlocksAreLive'
  <2> SUFFICES ASSUME ~ released
               PROVE  /\ \A k \in Client : held'[k] # Nothing =>
                           /\ blocks[held'[k].ptr] # Nothing
                           /\ blocks[held'[k].ptr].size = held'[k].size
                      /\ \A g \in cache' : /\ blocks[g.ptr] # Nothing
                                           /\ blocks[g.ptr].size = g.size
    BY <1>3 DEF BlocksAreLive
  <2>1. blocks[e.ptr] # Nothing /\ blocks[e.ptr].size = n
    BY <1>2 DEF BlocksAreLive
  <2> QED BY <2>1, <1>4, <1>5 DEF BlocksAreLive
<1> QED BY <1>7, <1>8, <1>9, <1>10, <1>11

(* A block the driver just allocated was held by nobody and is in no entry *)
(* of the cache.                                                           *)
LEMMA AllocNewOK ==
  ASSUME CacheOK, NEW c \in Client, NEW n \in Size, AllocNew(c, n)
  PROVE  CacheOK'
<1> USE DEF CacheOK
<1>1. PICK p \in Address : /\ blocks[p] = Nothing
                       /\ blocks' = [blocks EXCEPT
                                       ![p] = [size |-> n, dev |-> current]]
                       /\ cache' = Entered(p, n)
                       /\ Holds(c, p, n)
  BY DEF AllocNew
<1> DEFINE w == [ptr |-> p, size |-> n, dev |-> current]
<1> DEFINE b == [size |-> n, dev |-> current]
<1> DEFINE new == Entry(p, n, FALSE)
<1>2. /\ ~ released /\ held[c] = Nothing
      /\ UNCHANGED <<current, released>>
      /\ held' = [held EXCEPT ![c] = w]
  BY <1>1 DEF AllocNew, Holds
<1>3. /\ w \in [ptr : Address, size : Size, dev : DeviceId] /\ w # Nothing
      /\ b \in [size : Size, dev : DeviceId] /\ b # Nothing
  <2>1. w \in [ptr : Address, size : Size, dev : DeviceId]
    BY DEF Typed
  <2>2. b \in [size : Size, dev : DeviceId]
    BY DEF Typed
  <2> QED BY <2>1, <2>2, WorkspaceAssumption
<1>4. /\ held'[c] = w
      /\ \A k \in Client : k # c => held'[k] = held[k]
      /\ blocks'[p] = b
      /\ \A q \in Address : q # p => blocks'[q] = blocks[q]
  BY <1>1, <1>2 DEF Typed
<1>5. /\ \A k \in Client : Held(k) => held[k].ptr # p
      /\ \A g \in cache : g.ptr # p
  BY <1>1, <1>2 DEF BlocksAreLive, Held
<1>6. /\ new.ptr = p /\ new.size = n /\ ~ new.is_free
      /\ new \in CachedWorkspaceMemory
  BY DEF Entry, CachedWorkspaceMemory
<1>7. cache' \subseteq cache \cup {new}
  BY <1>1 DEF Entered, Kept
<1> HIDE DEF new, b
<1>8. Typed'
  <2>1. blocks' \in [Address -> [size : Size, dev : DeviceId] \cup {Nothing}]
    BY <1>1, <1>3 DEF Typed, b
  <2>2. held' \in [Client ->
                   [ptr : Address, size : Size, dev : DeviceId] \cup {Nothing}]
    BY <1>2, <1>3 DEF Typed
  <2> QED BY <2>1, <2>2, <1>2, <1>6, <1>7 DEF Typed
<1>9. CacheIsBounded'
  BY <1>1, EnteredBounded DEF CacheIsBounded
<1>10. NotHandedOutTwice'
  BY <1>3, <1>4, <1>5 DEF NotHandedOutTwice, Held
<1>11. CacheKnowsItsHolders'
  <2>1. ASSUME NEW g \in cache'
        PROVE  g.is_free <=>
                 \A k \in Client : held'[k] # Nothing => held'[k].ptr # g.ptr
    <3>1. CASE g = new
      BY <3>1, <1>3, <1>4, <1>6
    <3>2. CASE g # new
      <4>1. g \in cache /\ g.ptr # p
        BY <3>2, <1>5, <1>7
      <4>2. g.is_free <=>
              \A k \in Client : held[k] # Nothing => held[k].ptr # g.ptr
        BY <4>1 DEF CacheKnowsItsHolders
      <4> QED BY <4>1, <4>2, <1>2, <1>4
    <3> QED BY <3>1, <3>2
  <2>2. \A g, h \in cache' : g.ptr = h.ptr => g = h
    BY <1>5, <1>6, <1>7 DEF CacheKnowsItsHolders
  <2> QED BY <2>1, <2>2 DEF CacheKnowsItsHolders
<1>12. BlocksAreLive'
  <2>1. ASSUME NEW k \in Client, held'[k] # Nothing
        PROVE  /\ blocks'[held'[k].ptr] # Nothing
               /\ blocks'[held'[k].ptr].size = held'[k].size
    <3>1. CASE k = c
      BY <3>1, <1>3, <1>4 DEF b
    <3>2. CASE k # c
      <4>1. held'[k] = held[k] /\ held[k].ptr # p /\ held[k].ptr \in Address
        BY <3>2, <2>1, <1>4, <1>5 DEF Held, Typed
      <4> QED BY <4>1, <2>1, <1>2, <1>4 DEF BlocksAreLive
    <3> QED BY <3>1, <3>2
  <2>2. ASSUME NEW g \in cache'
        PROVE  blocks'[g.ptr] # Nothing /\ blocks'[g.ptr].size = g.size
    <3>1. CASE g = new
      BY <3>1, <1>3, <1>4, <1>6 DEF b
    <3>2. CASE g # new
      <4>1. g \in cache /\ g.ptr # p /\ g.ptr \in Address
        BY <3>2, <1>5, <1>7 DEF Typed, CachedWorkspaceMemory
      <4> QED BY <4>1, <1>2, <1>4 DEF BlocksAreLive
    <3> QED BY <3>1, <3>2
  <2> QED BY <2>1, <2>2 DEF BlocksAreLive
<1> QED BY <1>8, <1>9, <1>10, <1>11, <1>12

(* The entry of a block that is given back is the only one that has it,    *)
(* and the client that gives it back the only one that held it.            *)
LEMMA FreeCachedOK ==
  ASSUME CacheOK, NEW c \in Client, FreeCached(c)
  PROVE  CacheOK'
<1> USE DEF CacheOK
<1>1. PICK e \in cache : e.ptr = held[c].ptr /\ cache' = Marked(e, TRUE)
  BY DEF FreeCached
<1>2. /\ held[c] # Nothing
      /\ held' = [held EXCEPT ![c] = Nothing]
      /\ UNCHANGED <<blocks, current, released>>
      /\ e \in CachedWorkspaceMemory
  BY DEF FreeCached, Typed
<1>3. /\ held'[c] = Nothing
      /\ \A k \in Client : k # c => held'[k] = held[k]
  BY <1>2 DEF Typed
<1>4. \A g \in cache' : (g \in cache /\ g # e)
                        \/ (g.ptr = e.ptr /\ g.size = e.size /\ g.is_free
                            /\ g \in CachedWorkspaceMemory)
  BY <1>1, <1>2 DEF Marked, CachedWorkspaceMemory
<1>5. \A k \in Client : k # c /\ Held(k) => held[k].ptr # e.ptr
  BY <1>1, <1>2 DEF NotHandedOutTwice, Held
<1>6. Typed'
  BY <1>2, <1>4 DEF Typed
<1>7. CacheIsBounded'
  BY <1>1, MarkedBounded DEF CacheIsBounded
<1>8. NotHandedOutTwice'
  BY <1>3 DEF NotHandedOutTwice
<1>9. CacheKnowsItsHolders'
  <2>1. ASSUME NEW g \in cache'
        PROVE  g.is_free <=>
                 \A k \in Client : held'[k] # Nothing => held'[k].ptr # g.ptr
    <3>1. CASE g \in cache /\ g # e
      <4>1. g.ptr # held[c].ptr
        BY <3>1, <1>1 DEF CacheKnowsItsHolders
      <4>2. g.is_free <=>
              \A k \in Client : held[k] # Nothing => held[k].ptr # g.ptr
        BY <3>1 DEF CacheKnowsItsHolders
      <4> QED BY <4>1, <4>2, <1>3
    <3>2. CASE g.ptr = e.ptr /\ g.is_free
      BY <3>2, <1>3, <1>5 DEF Held
    <3> QED BY <3>1, <3>2, <1>4
  <2>2. \A g, h \in cache' : g.ptr = h.ptr => g = h
    BY <1>1, <1>2, <1>4 DEF CacheKnowsItsHolders, Marked,
       CachedWorkspaceMemory
  <2> QED BY <2>1, <2>2 DEF CacheKnowsItsHolders
<1>10. BlocksAreLive'
  <2>1. ASSUME ~ released, NEW k \in Client, held'[k] # Nothing
        PROVE  /\ blocks[held'[k].ptr] # Nothing
               /\ blocks[held'[k].ptr].size = held'[k].size
    <3>1. k # c /\ held'[k] = held[k]
      BY <2>1, <1>3
    <3> QED BY <3>1, <2>1 DEF BlocksAreLive
  <2>2. ASSUME ~ released, NEW g \in cache'
        PROVE  blocks[g.ptr] # Nothing /\ blocks[g.ptr].size = g.size
    <3>1. PICK h \in cache : h.ptr = g.ptr /\ h.size = g.size
      BY <2>2, <1>1, <1>4
    <3> QED BY <3>1, <2>2 DEF BlocksAreLive
  <2>3. blocks' = blocks /\ released' = released
    BY <1>2
  <2> QED BY <2>1, <2>2, <2>3 DEF BlocksAreLive
<1> QED BY <1>6, <1>7, <1>8, <1>9, <1>10

(* A block the driver gets back is in no entry and held by nobody else. *)
LEMMA FreeUncachedOK ==
  ASSUME CacheOK, NEW c \in Client, FreeUncached(c)
  PROVE  CacheOK'
<1> USE DEF CacheOK
<1> DEFINE p == held[c].ptr
<1>1. /\ held[c] # Nothing
      /\ \A e \in cache : e.ptr # p
      /\ blocks' = [blocks EXCEPT ![p] = Nothing]
      /\ held' = [held EXCEPT ![c] = Nothing]
      /\ UNCHANGED <<cache, current, released>>
      /\ p \in Address
  BY DEF FreeUncached, Typed
<1>2. /\ held'[c] = Nothing
      /\ \A k \in Client : k # c => held'[k] = held[k]
      /\ \A q \in Address : q # p => blocks'[q] = blocks[q]
  BY <1>1 DEF Typed
<1>3. Typed'
  BY <1>1 DEF Typed
<1>4. CacheIsBounded'
  BY <1>1 DEF CacheIsBounded
<1>5. NotHandedOutTwice'
  BY <1>2 DEF NotHandedOutTwice
<1>6. CacheKnowsItsHolders'
  BY <1>1, <1>2 DEF CacheKnowsItsHolders
<1>7. BlocksAreLive'
  <2>1. \A k \in Client : held'[k] # Nothing =>
          /\ k # c /\ held'[k] = held[k]
          /\ held[k].ptr # p /\ held[k].ptr \in Address
    BY <1>1, <1>2 DEF NotHandedOutTwice, Typed
  <2>2. \A e \in cache : e.ptr # p /\ e.ptr \in Address
    BY <1>1 DEF Typed, CachedWorkspaceMemory
  <2> QED BY <2>1, <2>2, <1>1, <1>2 DEF BlocksAreLive
<1> QED BY <1>3, <1>4, <1>5, <1>6, <1>7

LEMMA CacheReleaseOK == ASSUME CacheOK, Release PROVE CacheOK'
<1> USE DEF CacheOK, Release
<1>1. Typed'
  <2>1. \A p \in Address :
          blocks[p] \in [size : Size, dev : DeviceId] \cup {Nothing}
    BY DEF Typed
  <2>2. blocks' \in [Address -> [size : Size, dev : DeviceId] \cup {Nothing}]
    BY <2>1
  <2> QED BY <2>2 DEF Typed
<1>2. CacheIsBounded' /\ NotHandedOutTwice' /\ CacheKnowsItsHolders'
  BY DEF CacheIsBounded, NotHandedOutTwice, CacheKnowsItsHolders
<1>3. BlocksAreLive'
  BY DEF BlocksAreLive
<1> QED BY <1>1, <1>2, <1>3

LEMMA CacheStepOK == CacheOK /\ [CacheNext]_cacheVars => CacheOK'
<1> SUFFICES ASSUME CacheOK, [CacheNext]_cacheVars PROVE CacheOK'
  OBVIOUS
<1>1. ASSUME NEW c \in Client, ClientStep(c) PROVE CacheOK'
  BY <1>1, AllocCachedOK, AllocNewOK, FreeCachedOK, FreeUncachedOK
  DEF ClientStep
<1>2. ASSUME NEW d \in DeviceId, CUDA_SetDevice(d) PROVE CacheOK'
  BY <1>2 DEF CUDA_SetDevice, CacheOK, Typed, CacheIsBounded,
     NotHandedOutTwice, CacheKnowsItsHolders, BlocksAreLive
<1>3. CASE Release
  BY <1>3, CacheReleaseOK
<1>4. CASE UNCHANGED cacheVars
  BY <1>4 DEF cacheVars, CacheOK, Typed, CacheIsBounded,
     NotHandedOutTwice, CacheKnowsItsHolders, BlocksAreLive
<1> QED BY <1>1, <1>2, <1>3, <1>4 DEF CacheNext

LEMMA CacheInvariant == CacheSpec => []CacheOK
<1> QED BY CacheInitOK, CacheStepOK, PTL DEF CacheSpec

-----------------------------------------------------------------------------
(* The state keeps its type (cuda_device_api.c:121-127), and the array of  *)
(* cached blocks never overflows.                                          *)
THEOREM WorkspaceTypeCorrect == CacheSpec => []WorkspaceTypeOK
<1>1. CacheOK => WorkspaceTypeOK
  BY DEF CacheOK, WorkspaceTypeOK
<1> QED BY <1>1, CacheInvariant, PTL

(* The array of cached blocks never overflows (cuda_device_api.c:152,      *)
(* webgpu_device_api.c:124).                                               *)
THEOREM CacheNeverOverflows == CacheSpec => []CacheIsBounded
<1>1. CacheOK => CacheIsBounded
  BY DEF CacheOK
<1> QED BY <1>1, CacheInvariant, PTL

(* No block is handed out while somebody holds it (AllocWorkspace).        *)
THEOREM NeverHandedOutTwice == CacheSpec => []NotHandedOutTwice
<1>1. CacheOK => NotHandedOutTwice
  BY DEF CacheOK
<1> QED BY <1>1, CacheInvariant, PTL

(* The flag is_free tells whether somebody holds the block, and a block is *)
(* cached once (FreeWorkspace).                                            *)
THEOREM CacheAlwaysKnowsItsHolders == CacheSpec => []CacheKnowsItsHolders
<1>1. CacheOK => CacheKnowsItsHolders
  BY DEF CacheOK
<1> QED BY <1>1, CacheInvariant, PTL

(* Held and cached blocks are allocated, with the size that is recorded.   *)
THEOREM BlocksStayLive == CacheSpec => []BlocksAreLive
<1>1. CacheOK => BlocksAreLive
  BY DEF CacheOK
<1> QED BY <1>1, CacheInvariant, PTL

(* The cache implements the promise of the device interface: each of its   *)
(* steps hands out a block nobody holds, takes one back, or changes        *)
(* nothing a client sees (AllocWorkspace and FreeWorkspace).               *)
THEOREM CacheImplementsPromise == CacheSpec => ImplementsPromise
<1> DEFINE seen == [c \in Client |->
                     IF held[c] = Nothing THEN Nothing
                     ELSE [ptr |-> held[c].ptr, size |-> held[c].size]]
<1> USE DEF Promised!Init, Promised!Unheld
<1>1. CacheInit => Promised!Init
  BY DEF CacheInit
<1>2. CacheOK /\ [CacheNext]_cacheVars => [Promised!Next]_seen
  <2> SUFFICES ASSUME CacheOK, [CacheNext]_cacheVars PROVE [Promised!Next]_seen
    OBVIOUS
  <2> USE DEF CacheOK
  <2>1. ASSUME NEW c \in Client, NEW n \in Size, NEW p \in Address,
               held[c] = Nothing, Holds(c, p, n),
               \A k \in Client : Held(k) => held[k].ptr # p
        PROVE  Promised!Next
    <3> DEFINE w == [ptr |-> p, size |-> n, dev |-> current]
    <3>1. w \in [ptr : Address, size : Size, dev : DeviceId] /\ w # Nothing
      <4>1. w \in [ptr : Address, size : Size, dev : DeviceId]
        BY DEF Typed
      <4> QED BY <4>1, WorkspaceAssumption
    <3>2. /\ held'[c] = w
          /\ \A k \in Client : k # c => held'[k] = held[k]
      BY <2>1 DEF Holds, Typed
    <3>3. seen' = [seen EXCEPT ![c] = [ptr |-> p, size |-> n]]
      <4>1. seen'[c] = [ptr |-> p, size |-> n]
        BY <3>1, <3>2
      <4>2. \A k \in Client : k # c => seen'[k] = seen[k]
        BY <3>2
      <4>3. DOMAIN seen' = Client /\ DOMAIN seen = Client
        OBVIOUS
      <4> HIDE DEF w
      <4> QED BY <4>1, <4>2, <4>3
    <3>4. \A k \in Client : seen[k] # Nothing => seen[k].ptr # p
      BY <2>1 DEF Held
    <3>5. seen[c] = Nothing
      BY <2>1
    <3>6. Promised!Alloc(c, n)
      BY <3>3, <3>4, <3>5 DEF Promised!Alloc
    <3> QED BY <3>6 DEF Promised!Next
  <2>2. ASSUME NEW c \in Client, NEW n \in Size, AllocCached(c, n)
        PROVE  Promised!Next
    <3>1. PICK e \in Hits(n) : Holds(c, e.ptr, n)
      BY <2>2 DEF AllocCached
    <3>2. e \in cache /\ e.is_free /\ e.ptr \in Address
      BY <3>1 DEF Hits, Typed, CachedWorkspaceMemory
    <3>3. \A k \in Client : Held(k) => held[k].ptr # e.ptr
      BY <3>2 DEF CacheKnowsItsHolders, Held
    <3> QED BY <2>2, <3>1, <3>2, <3>3, <2>1 DEF AllocCached
  <2>3. ASSUME NEW c \in Client, NEW n \in Size, AllocNew(c, n)
        PROVE  Promised!Next
    <3>1. PICK p \in Address : blocks[p] = Nothing /\ Holds(c, p, n)
      BY <2>3 DEF AllocNew
    <3>2. \A k \in Client : Held(k) => held[k].ptr # p
      BY <2>3, <3>1 DEF AllocNew, BlocksAreLive, Held
    <3> QED BY <2>3, <3>1, <3>2, <2>1 DEF AllocNew
  <2>4. ASSUME NEW c \in Client, held[c] # Nothing,
               held' = [held EXCEPT ![c] = Nothing]
        PROVE  Promised!Next
    <3>1. /\ held'[c] = Nothing
          /\ \A k \in Client : k # c => held'[k] = held[k]
      BY <2>4 DEF Typed
    <3>2. seen' = [seen EXCEPT ![c] = Nothing]
      BY <3>1
    <3>3. [ptr |-> held[c].ptr, size |-> held[c].size] # Nothing
      <4>1. [ptr |-> held[c].ptr, size |-> held[c].size]
              \in [ptr : Address, size : Size]
        BY <2>4 DEF Typed
      <4> QED BY <4>1, WorkspaceAssumption
    <3>4. Promised!Free(c)
      BY <2>4, <3>2, <3>3 DEF Promised!Free
    <3> QED BY <3>4 DEF Promised!Next
  <2>5. ASSUME NEW c \in Client, ClientStep(c) PROVE Promised!Next
    BY <2>5, <2>2, <2>3, <2>4 DEF ClientStep, FreeCached, FreeUncached
  <2>6. ASSUME UNCHANGED held PROVE UNCHANGED seen
    BY <2>6
  <2> QED BY <2>5, <2>6 DEF CacheNext, CUDA_SetDevice, Release, cacheVars
<1> QED BY <1>1, <1>2, CacheInvariant, PTL DEF CacheSpec, ImplementsPromise,
   Promised!Spec

(* A step loses a block only by dropping it from a full cache that         *)
(* compacts.                                                               *)
LEMMA StepLoses ==
  ASSUME CacheOK, [CacheNext]_cacheVars, NEW p \in Address, Lost(p)'
  PROVE  Lost(p) \/ Drops(p)
<1> SUFFICES ASSUME ~ Lost(p), ~ Drops(p), blocks'[p] # Nothing
             PROVE  \/ \E c \in Client : held'[c] # Nothing /\ held'[c].ptr = p
                    \/ \E e \in cache' : e.ptr = p
  BY DEF Lost
<1> USE DEF CacheOK
<1> DEFINE kept == \E e \in cache' : e.ptr = p
<1> DEFINE has(c) == held'[c] # Nothing /\ held'[c].ptr = p
<1>0. blocks[p] # Nothing =>
        \/ \E c \in Client : held[c] # Nothing /\ held[c].ptr = p
        \/ \E e \in cache : e.ptr = p
  BY DEF Lost
<1>1. ASSUME NEW c \in Client, NEW n \in Size, AllocCached(c, n)
      PROVE  kept \/ \E k \in Client : has(k)
  <2>1. PICK e \in cache : cache' = Marked(e, FALSE)
    BY <1>1 DEF AllocCached, Hits
  <2>2. \A g \in cache : \E h \in cache' : h.ptr = g.ptr
    BY <2>1, MarkedKeepsBlocks, ZenonT(60) DEF Typed
  <2>3. /\ blocks' = blocks /\ held[c] = Nothing
        /\ \A k \in Client : k # c => held'[k] = held[k]
    BY <1>1 DEF AllocCached, Holds, Typed
  <2> QED BY <2>2, <2>3, <1>0
<1>2. ASSUME NEW c \in Client, NEW n \in Size, AllocNew(c, n)
      PROVE  kept \/ \E k \in Client : has(k)
  <2>1. PICK q \in Address :
          /\ blocks' = [blocks EXCEPT ![q] = [size |-> n, dev |-> current]]
          /\ cache' = Entered(q, n)
          /\ Holds(c, q, n)
    BY <1>2 DEF AllocNew
  <2> DEFINE w == [ptr |-> q, size |-> n, dev |-> current]
  <2>2. w \in [ptr : Address, size : Size, dev : DeviceId] /\ w # Nothing
    <3>1. w \in [ptr : Address, size : Size, dev : DeviceId]
      BY DEF Typed
    <3> QED BY <3>1, WorkspaceAssumption
  <2>3. /\ held'[c] = w /\ held[c] = Nothing
        /\ \A k \in Client : k # c => held'[k] = held[k]
    BY <1>2, <2>1 DEF AllocNew, Holds, Typed
  <2>4. \A e \in cache : e.ptr = p => e \in cache'
    BY <2>1 DEF Entered, Kept, Drops
  <2>5. CASE p = q
    BY <2>5, <2>2, <2>3
  <2>6. CASE p # q
    <3>1. blocks[p] # Nothing
      BY <2>1, <2>6 DEF Typed
    <3> QED BY <3>1, <2>3, <2>4, <1>0
  <2> QED BY <2>5, <2>6
<1>3. ASSUME NEW c \in Client, FreeCached(c)
      PROVE  kept \/ \E k \in Client : has(k)
  <2>1. PICK e \in cache : e.ptr = held[c].ptr /\ cache' = Marked(e, TRUE)
    BY <1>3 DEF FreeCached
  <2>2. \A g \in cache : \E h \in cache' : h.ptr = g.ptr
    BY <2>1, MarkedKeepsBlocks, ZenonT(60) DEF Typed
  <2>3. /\ blocks' = blocks
        /\ \A k \in Client : k # c => held'[k] = held[k]
    BY <1>3 DEF FreeCached, Typed
  <2>4. blocks[p] # Nothing
    BY <2>3
  <2>5. CASE \E g \in cache : g.ptr = p
    BY <2>2, <2>5
  <2>6. CASE \E k \in Client : held[k] # Nothing /\ held[k].ptr = p
    <3>1. PICK k \in Client : held[k] # Nothing /\ held[k].ptr = p
      BY <2>6
    <3>2. CASE k = c
      BY <3>1, <3>2, <2>1, <2>5
    <3>3. CASE k # c
      BY <3>1, <3>3, <2>3
    <3> QED BY <3>2, <3>3
  <2> QED BY <2>4, <2>5, <2>6, <1>0
<1>4. ASSUME NEW c \in Client, FreeUncached(c)
      PROVE  kept \/ \E k \in Client : has(k)
  <2>1. /\ blocks' = [blocks EXCEPT ![held[c].ptr] = Nothing]
        /\ cache' = cache /\ held[c] # Nothing /\ held[c].ptr \in Address
        /\ \A k \in Client : k # c => held'[k] = held[k]
    BY <1>4 DEF FreeUncached, Typed
  <2>2. p # held[c].ptr /\ blocks[p] # Nothing
    BY <2>1 DEF Typed
  <2> QED BY <2>1, <2>2, <1>0
<1>5. CASE Release
  BY <1>5, <1>0 DEF Release
<1>6. CASE UNCHANGED <<cache, blocks, held>>
  BY <1>6, <1>0
<1> QED BY <1>1, <1>2, <1>3, <1>4, <1>5, <1>6 DEF CacheNext, ClientStep,
   CUDA_SetDevice, cacheVars

(* For every cache, memory is lost in one way only: a full cache that      *)
(* compacts drops a free block (cuda_device_api.c:142-151).                *)
THEOREM OnlyCompactingLoses == CacheSpec => LostOnlyWhenCompacting
<1>1. CacheOK /\ [CacheNext]_cacheVars
        => [\A p \in Address : Lost(p)' => Lost(p) \/ Drops(p)]_cacheVars
  BY StepLoses
<1> QED BY <1>1, CacheInvariant, PTL DEF CacheSpec, LostOnlyWhenCompacting

(* A cache that does not compact, the WebGPU one, loses nothing            *)
(* (webgpu_device_api.c:109-143).                                          *)
THEOREM WebGPULosesNothing ==
  ASSUME Compacts = FALSE
  PROVE  CacheSpec => []NothingIsLost
<1>1. CacheInit => NothingIsLost
  BY DEF CacheInit, NothingIsLost, Lost
<1>2. CacheOK /\ NothingIsLost /\ [CacheNext]_cacheVars => NothingIsLost'
  <2> SUFFICES ASSUME CacheOK, NothingIsLost, [CacheNext]_cacheVars,
                      NEW p \in Address, Lost(p)'
               PROVE  FALSE
    BY DEF NothingIsLost
  <2> QED BY StepLoses DEF NothingIsLost, Drops
<1> QED BY <1>1, <1>2, CacheInvariant, PTL DEF CacheSpec
=============================================================================
