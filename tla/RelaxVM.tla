------------------------------ MODULE RelaxVM ------------------------------
(***************************************************************************)
(* The Relax virtual machine: the bytecode interpreter                     *)
(* (src/backends/relax_vm/relax_vm_runner.c), the builtin functions it     *)
(* calls (vm_builtin.c) and the public functions of relax_vm.c that set    *)
(* inputs, run a function and free the machine.                            *)
(*                                                                         *)
(* The machine is single threaded.  One action is one bytecode instruction *)
(* or one public call; what the environment decides (which public call     *)
(* comes next, what a packed function answers) is nondeterministic.  All   *)
(* tensors are on the machine's device, where inputs are not copied.       *)
(***************************************************************************)
EXTENDS RelaxVMFrames, RelaxVMRegister, Sequences

CONSTANTS
  Func,         \* names of the VM functions of the executable
  NoFunc,
  FuncInfo,     \* their table: start, end, register_file_size, num_params
  Callable,     \* the functions the user runs
  Packed,       \* the packed functions the code calls
  PackedKind,   \* what each of them does
  MayFail,      \* those that may return a status other than 0
  Code,         \* the instructions, a function on PC
  Const,        \* the constant table, a sequence of values
  ConstCell,    \* the heap cells of the constants that are objects
  Special       \* RelaxVM_RegName_Special: register names from here on are
                \* not registers

Void == Special
VM   == Special + 1

ASSUME RelaxAssumption ==
  /\ NoFunc \notin Func
  /\ Callable \subseteq Func
  /\ MayFail \subseteq Packed
  /\ Special \in Nat
  /\ \A f \in Func : FuncInfo[f].num_params <= FuncInfo[f].register_file_size
  /\ DOMAIN ConstCell \subseteq Obj

VARIABLES
  heap,        \* the reference-counted cells
  regs,        \* the registers behind each buffer
  io,          \* func_inputs_output_map: inputs, then the output
  pc,
  cur,         \* the function the last Run was called on
  state,       \* "idle", "running", "freed" or "undefined"
  status,      \* what the last Run returned
  failed       \* history: some Run has returned an error from a packed call

vmVars == <<heap, regs, io, pc, cur, state, status, failed>>
vars == <<frameVars, vmVars>>

RegIdx == 0 .. Special - 1
NumParams(f) == FuncInfo[f].num_params
NumRegs(f) == FuncInfo[f].register_file_size
Body(f) == FuncInfo[f].start .. FuncInfo[f].end - 1

(* The instructions that may come after the one at i. *)
Follows(i) ==
  CASE Code[i].op = "Call" -> {i + 1}
    [] Code[i].op = "Goto" -> {i + Code[i].offset}
    [] Code[i].op = "If"   -> {i + 1, i + Code[i].offset}
    [] OTHER               -> {}

(* The code is what the compiler emits, which the loader does not check:   *)
(* control stays inside the function that is run until it returns.         *)
ASSUME CodeAssumption ==
  /\ \A f \in Func : /\ NumRegs(f) \in RegisterCount
                     /\ FuncInfo[f].start \in Body(f)
                     /\ Body(f) \subseteq PC
  /\ \A f \in Func : \A i \in Body(f) : Follows(i) \subseteq Body(f)
  /\ \A i \in PC : /\ Follows(i) \subseteq PC
                   /\ Code[i].op = "Call" => Code[i].dst \in RegisterName

(* The kind of cell a counted type code leads to.                          *)
KindOf ==
  [ManagedDLTensor |-> "tensor", VMObjectStorage |-> "storage",
   VMObjectShapeTuple |-> "shape", VMObjectString |-> "string"]

(* A register name an instruction of f may read; an operand of its calls.  *)
Readable(f, r) == r \in Nat /\ (r < NumRegs(f) \/ r >= Special)

Operand(f, a) ==
  \/ a.type = "ConstIdx" /\ a.value \in DOMAIN Const
  \/ a.type = "Immediate" /\ a.value \in Int
  \/ a.type = "Register" /\ Readable(f, a.value)

(* The arguments a function takes without looking at how many it was given *)
(* (vm_builtin.c, relax_vm_runner.c:178-180); and those that are called    *)
(* for what they do to the destination register.                           *)
Takes(g) ==
  IF g \in Func THEN 1 .. NumParams(g)
  ELSE CASE PackedKind[g] \in {"alloc_storage", "alloc_tensor"} -> 1 .. 3
         [] PackedKind[g] = "reshape" -> 1 .. 2
         [] OTHER -> {}

NeedsRegister ==
  {p \in Packed : PackedKind[p] \in
     {"alloc_storage", "alloc_tensor", "reshape", "null_value"}}

(* Nor does anything check the operands: what is read is a register of the *)
(* function, a call gives the function what it takes, what is allocated    *)
(* goes to a register, and the constants that are objects are live ones of *)
(* their kind, on which the executable itself holds a reference.           *)
ASSUME OperandAssumption ==
  /\ IsFiniteSet(Buffer) /\ IsFiniteSet(Func)
  /\ Func \cap Packed = {}
  /\ RegisterCount \subseteq 1 .. Special
  /\ RegisterName \subseteq Nat
  /\ \A f \in Func : NumParams(f) \in Nat
  /\ \A f \in Func : \A i \in Body(f) :
       /\ Code[i].op = "Call" =>
            /\ Code[i].func \in Func \cup Packed
            /\ \A a \in DOMAIN Code[i].args : Operand(f, Code[i].args[a])
            /\ Takes(Code[i].func) \subseteq DOMAIN Code[i].args
            /\ Code[i].func \in NeedsRegister => Code[i].dst < NumRegs(f)
       /\ Code[i].op = "Ret" => Readable(f, Code[i].result)
  /\ \A c \in DOMAIN Const :
       /\ Const[c] \in Value
       /\ Const[c].typecode \in Counted =>
            /\ Const[c].value \in DOMAIN ConstCell
            /\ ConstCell[Const[c].value].kind = KindOf[Const[c].typecode]
  /\ \A o \in DOMAIN ConstCell :
       \E kind \in {"storage", "shape", "string"} : ConstCell[o] = ObjectCell(kind)

Zeroed == [r \in RegIdx |-> Int64(0)]

Init ==
  /\ FramesInit
  /\ heap = [o \in Obj |-> IF o \in DOMAIN ConstCell THEN ConstCell[o]
                           ELSE FreeCell]
  /\ regs = [b \in Buffer |-> Zeroed]
  /\ io = [f \in Func |-> [i \in 0 .. NumParams(f) |-> Nullptr]]
  /\ pc = 0
  /\ cur = NoFunc
  /\ state = "idle"
  /\ status = 0
  /\ failed = FALSE

-----------------------------------------------------------------------------
(* The current frame.                                                      *)

Top == frames[frame_size - 1]
Caller == frames[frame_size - 2]
Instr == Code[pc]

(* The register name as the value of an argument or of a result. *)
Named(rs, r) ==
  IF r < Special THEN rs[r] ELSE IF r = Void THEN Nullptr ELSE ObjectHandle

Arg(a) ==
  CASE a.type = "ConstIdx"  -> Const[a.value]
    [] a.type = "Immediate" -> Int64(a.value)
    [] a.type = "Register"  -> Named(regs[Top.registers], a.value)

Args == [i \in DOMAIN Instr.args |-> Arg(Instr.args[i])]

(* reg_caller_return is not written by RunFunction: the slot keeps the one *)
(* of the call that used it last.                                          *)
StaleDst == GrownFrames[frame_size].reg_caller_return

(* The registers of buffer b after a push: zeroed if b was allocated by    *)
(* it, otherwise whatever the last call left in them.                      *)
Pushed(b) == IF bufcap'[b] # bufcap[b] THEN Zeroed ELSE regs[b]

(* Faulty variant: the arguments are written to the registers the           *)
(* interpreter still points to, those of the caller.                       *)
EnterCallerRegisters(f, values, p, d) ==
  /\ FramePush(NumRegs(f), p, d)
  /\ LET b == IF frame_size = 0 THEN frames'[frame_size].registers
              ELSE frames[frame_size - 1].registers
         n == NumParams(f)
     IN /\ heap' = Retain(heap, values, 1 .. n)
        /\ regs' = [c \in Buffer |->
             [r \in RegIdx |-> IF c = b /\ r < n THEN values[r + 1]
                               ELSE Pushed(c)[r]]]

(* Push a frame for f that returns to p, with the given arguments copied   *)
(* into its first registers.                                               *)
Enter(f, values, p, d) ==
  /\ FramePush(NumRegs(f), p, d)
  /\ LET b == frames'[frame_size].registers
         n == NumParams(f)
     IN /\ heap' = Retain(heap, values, 1 .. n)
        /\ regs' = [c \in Buffer |->
             [r \in RegIdx |-> IF c = b /\ r < n THEN values[r + 1]
                               ELSE Pushed(c)[r]]]

-----------------------------------------------------------------------------
(* Packed functions: what each needs of its arguments, and what it answers *)
(* (status, the heap it leaves, the value in *ret_value).                  *)

(* What *ret_value holds when the function writes none, which is most of   *)
(* vm_builtin.c: an uninitialised variable of the interpreter.  That it    *)
(* holds the type code of a counted reference is CallUndefined.            *)
Uninitialized == {Int64(0), Int64(1), Nullptr}

IsTensor(v) == v.typecode \in {"ManagedDLTensor", "DLTensorHandle"}

WellTyped(p, a) ==
  CASE PackedKind[p] = "alloc_storage" ->
         /\ a[1].typecode = "ObjectHandle"
         /\ a[2].typecode = "VMObjectShapeTuple"
    [] PackedKind[p] = "alloc_tensor" ->
         /\ a[1].typecode = "VMObjectStorage"
         /\ a[3].typecode = "VMObjectShapeTuple"
    [] PackedKind[p] = "reshape" ->
         IsTensor(a[1]) /\ a[2].typecode = "VMObjectShapeTuple"
    [] PackedKind[p] \in {"kernel", "predicate"} ->
         \A i \in DOMAIN a : IsTensor(a[i])
    [] OTHER -> TRUE

Answer(h, v) == [status |-> 0, heap |-> h, result |-> v]

(* Faulty variant: the tensor does not count as a holder of its storage. *)
NewTensorBorrows(z, s) ==
  LET t == Fresh(heap)
      h == [heap EXCEPT ![t] = TensorCell(z, s)]
  IN Answer([h EXCEPT ![z].ref_num = @ + 1], Managed(t))

(* A tensor over the storage s with the shape tuple z; each of them gains  *)
(* a holder.                                                               *)
NewTensor(z, s) ==
  LET t == Fresh(heap)
      h == [heap EXCEPT ![t] = TensorCell(z, s)]
  IN Answer([o \in Obj |->
               [h[o] EXCEPT !.ref_num =
                  @ + (IF o = z THEN 1 ELSE 0) + (IF o = s THEN 1 ELSE 0)]],
            Managed(t))

NewStorage ==
  LET s == Fresh(heap)
  IN Answer([heap EXCEPT ![s] = ObjectCell("storage")], Storage(s))

(* Reshape shares the storage of a managed tensor that has one; a borrowed *)
(* tensor, or one over borrowed data, is aliased without being owned.      *)
Reshaped(v, z) ==
  NewTensor(z, IF v.typecode = "ManagedDLTensor" THEN heap[v.value].storage
               ELSE NoObj)

Answers(p, a) ==
  {[status |-> -1, heap |-> heap, result |-> Nullptr] : x \in {p} \cap MayFail}
  \cup
  CASE PackedKind[p] = "alloc_storage" -> {NewStorage}
    [] PackedKind[p] = "alloc_tensor"  -> {NewTensor(a[3].value, a[1].value)}
    [] PackedKind[p] = "reshape"       -> {Reshaped(a[1], a[2].value)}
    [] PackedKind[p] = "predicate"     -> {Answer(heap, Int64(n)) : n \in 0 .. 1}
    [] OTHER                           -> {Answer(heap, v) : v \in Uninitialized}

WritesResult(p) == PackedKind[p] \notin {"kernel", "stub"}

Allocates(p) ==
  PackedKind[p] \in {"alloc_storage", "alloc_tensor", "reshape"}

-----------------------------------------------------------------------------
(* Instructions.                                                           *)

Fetch(op) == state = "running" /\ Instr.op = op

IsPacked == Instr.func \in Packed

(* The answer of the called function goes to the destination register,     *)
(* whose old value is freed first.                                         *)
PackedReturns(answer) ==
  /\ answer.status = 0
  /\ pc' = pc + 1
  /\ IF Instr.dst < Top.register_size
     THEN LET b == Top.registers
          IN /\ heap' = ReleaseOne(answer.heap, regs[b][Instr.dst])
             /\ regs' = [regs EXCEPT ![b][Instr.dst] = answer.result]
     ELSE heap' = answer.heap /\ UNCHANGED regs
  /\ UNCHANGED <<frameVars, io, cur, state, status, failed>>

(* The interpreter returns at once; the frames stay where they are. *)
PackedFails(answer) ==
  /\ answer.status # 0
  /\ pc' = pc + 1
  /\ state' = "idle"
  /\ status' = answer.status
  /\ failed' = TRUE
  /\ UNCHANGED <<frameVars, heap, regs, io, cur>>

CallPacked ==
  /\ Fetch("Call")
  /\ IsPacked
  /\ PackedKind[Instr.func] # "null_value"
  /\ WellTyped(Instr.func, Args)
  /\ Allocates(Instr.func) => FreeAddress(heap) # {}
  /\ \E answer \in Answers(Instr.func, Args) :
       PackedReturns(answer) \/ PackedFails(answer)

(* vm.builtin.null_value has no code: the call frees the destination.      *)
CallNullValue ==
  /\ Fetch("Call")
  /\ IsPacked
  /\ PackedKind[Instr.func] = "null_value"
  /\ LET b == Top.registers
         v == regs[b][Instr.dst]
     IN /\ heap' = ReleaseOne(heap, v)
        /\ regs' = [regs EXCEPT ![b][Instr.dst] = Emptied(v)]
  /\ pc' = pc + 1
  /\ UNCHANGED <<frameVars, io, cur, state, status, failed>>

(* A packed function that is handed an argument of another type, or whose  *)
(* result is stored although it wrote none and the memory happens to hold  *)
(* the type code of a counted reference, has undefined behaviour.          *)
CallUndefined ==
  /\ Fetch("Call")
  /\ IsPacked
  /\ PackedKind[Instr.func] # "null_value"
  /\ WellTyped(Instr.func, Args) =>
       Instr.dst < Top.register_size /\ ~ WritesResult(Instr.func)
  /\ state' = "undefined"
  /\ UNCHANGED <<frameVars, heap, regs, io, pc, cur, status, failed>>

(* Faulty variant: the return address is that of the call itself. *)
CallVMFuncAgain ==
  /\ Fetch("Call")
  /\ Instr.func \in Func
  /\ Enter(Instr.func, Args, pc, Instr.dst)
  /\ pc' = FuncInfo[Instr.func].start
  /\ UNCHANGED <<io, cur, state, status, failed>>

CallVMFunc ==
  /\ Fetch("Call")
  /\ Instr.func \in Func
  /\ Enter(Instr.func, Args, pc + 1, Instr.dst)
  /\ pc' = FuncInfo[Instr.func].start
  /\ UNCHANGED <<io, cur, state, status, failed>>

(* Pop the frame of buffer b from a machine with heap h and registers rs. *)
Leave(h, rs) ==
  LET b    == Top.registers
      live == 0 .. Top.register_size - 1
  IN /\ FramePop
     /\ pc' = Top.return_pc
     /\ heap' = Release(h, rs[b], live)
     /\ regs' = [rs EXCEPT ![b] =
          [r \in RegIdx |-> IF r \in live THEN Emptied(@[r]) ELSE @[r]]]

(* Ret in the only frame: the result goes to the output of the function. *)
RetToUser ==
  /\ Fetch("Ret")
  /\ frame_size <= 1
  /\ LET out == NumParams(cur)
         v   == Named(regs[Top.registers], Instr.result)
     IN /\ io' = [io EXCEPT ![cur][out] = v]
        /\ Leave(RetainOne(ReleaseOne(heap, io[cur][out]), v), regs)
  /\ state' = "idle"
  /\ status' = 0
  /\ UNCHANGED <<cur, failed>>

(* Faulty variant: the old value of the destination is not freed. *)
RetToCallerLeaks ==
  /\ Fetch("Ret")
  /\ frame_size > 1
  /\ LET d   == Top.reg_caller_return
         b   == Caller.registers
         v   == Named(regs[Top.registers], Instr.result)
     IN IF d < Caller.register_size
        THEN Leave(RetainOne(heap, v), [regs EXCEPT ![b][d] = v])
        ELSE Leave(heap, regs)
  /\ UNCHANGED <<io, cur, state, status, failed>>

(* Ret to a caller: the result goes to one of its registers, if any. *)
RetToCaller ==
  /\ Fetch("Ret")
  /\ frame_size > 1
  /\ LET d   == Top.reg_caller_return
         b   == Caller.registers
         v   == Named(regs[Top.registers], Instr.result)
     IN IF d < Caller.register_size
        THEN Leave(RetainOne(ReleaseOne(heap, regs[b][d]), v),
                   [regs EXCEPT ![b][d] = v])
        ELSE Leave(heap, regs)
  /\ UNCHANGED <<io, cur, state, status, failed>>

Goto ==
  /\ Fetch("Goto")
  /\ pc' = pc + Instr.offset
  /\ UNCHANGED <<frameVars, heap, regs, io, cur, state, status, failed>>

(* The condition is the register read as an integer; of another value the  *)
(* bits are read, which may or may not be zero.                            *)
If ==
  /\ Fetch("If")
  /\ LET v == regs[Top.registers][Instr.cond]
     IN \E taken \in IF v.typecode = "Int" THEN {v.value # 0} ELSE BOOLEAN :
          pc' = IF taken THEN pc + 1 ELSE pc + Instr.offset
  /\ UNCHANGED <<frameVars, heap, regs, io, cur, state, status, failed>>

Step ==
  \/ CallPacked
  \/ CallNullValue
  \/ CallUndefined
  \/ CallVMFunc
  \/ RetToUser
  \/ RetToCaller
  \/ Goto
  \/ If

-----------------------------------------------------------------------------
(* Public calls.                                                           *)

(* The input register borrows the user's tensor. *)
SetInput(f, i, t) ==
  /\ state = "idle"
  /\ heap' = ReleaseOne(heap, io[f][i])
  /\ io' = [io EXCEPT ![f][i] = TensorHandle(t)]
  /\ UNCHANGED <<frameVars, regs, pc, cur, state, status, failed>>

InputsSet(f) == \A i \in 0 .. NumParams(f) - 1 : io[f][i] # Nullptr

(* Faulty variant: the run starts where the last one stopped. *)
RunKeepsPc(f) ==
  /\ state = "idle"
  /\ InputsSet(f)
  /\ Enter(f, [i \in 1 .. NumParams(f) |-> io[f][i - 1]], pc, StaleDst)
  /\ cur' = f
  /\ state' = "running"
  /\ UNCHANGED <<pc, io, status, failed>>

Run(f) ==
  /\ state = "idle"
  /\ InputsSet(f)
  /\ Enter(f, [i \in 1 .. NumParams(f) |-> io[f][i - 1]], pc, StaleDst)
  /\ pc' = FuncInfo[f].start
  /\ cur' = f
  /\ state' = "running"
  /\ UNCHANGED <<io, status, failed>>

RunRefused(f) ==
  /\ state = "idle"
  /\ ~ InputsSet(f)
  /\ status' = -2
  /\ cur' = f
  /\ UNCHANGED <<frameVars, heap, regs, io, pc, state, failed>>

(* The registers that can hold a value: those of the frames in use, and    *)
(* the inputs and output of every function.                                *)
FrameLocs ==
  UNION {{<<frames[i].registers, r>> : r \in 0 .. frames[i].register_size - 1} :
         i \in 0 .. frame_size - 1}

IoLocs == UNION {{<<f, i>> : i \in 0 .. NumParams(f)} : f \in Func}

FrameValues == [l \in FrameLocs |-> regs[l[1]][l[2]]]
IoValues    == [l \in IoLocs |-> io[l[1]][l[2]]]

Free ==
  /\ state = "idle"
  /\ heap' = Release(Release(heap, FrameValues, FrameLocs), IoValues, IoLocs)
  /\ io' = [f \in Func |-> [i \in 0 .. NumParams(f) |-> Nullptr]]
  /\ regs' = [b \in Buffer |-> Zeroed]
  /\ FramesFree
  /\ state' = "freed"
  /\ UNCHANGED <<pc, cur, status, failed>>

Next ==
  \/ Step
  \/ \E f \in Callable :
       \/ \E i \in 0 .. NumParams(f) - 1, t \in Tensor : SetInput(f, i, t)
       \/ Run(f)
       \/ RunRefused(f)
  \/ Free

Spec == Init /\ [][Next]_vars

(* The interpreter loop does not stop on its own while a run is going on.  *)
FairSpec == Spec /\ WF_vars(Step)
-----------------------------------------------------------------------------
(* Properties.                                                             *)

Sound(v) == v.typecode \in Counted => heap[v.value].kind = KindOf[v.typecode]

(* The types of the state; and a handle leads to a cell of the kind its    *)
(* type code says, a managed tensor to a live storage and a live shape,    *)
(* although addresses are reused: a storage killed by null_value outlives  *)
(* it for its tensors.                                                     *)
RelaxTypeOK ==
  /\ FramesTypeOK
  /\ heap \in [Obj -> Cell]
  /\ regs \in [Buffer -> [RegIdx -> Value]]
  /\ \A f \in Func : io[f] \in [0 .. NumParams(f) -> Value]
  /\ pc \in PC
  /\ cur \in Func \cup {NoFunc}
  /\ state \in {"idle", "running", "freed", "undefined"}
  /\ status \in {0, -1, -2}
  /\ failed \in BOOLEAN
  /\ \A l \in FrameLocs : Sound(FrameValues[l])
  /\ \A l \in IoLocs : Sound(IoValues[l])
  /\ \A t \in Obj : heap[t].kind = "tensor" =>
       /\ heap[heap[t].shape].kind = "shape"
       /\ heap[t].storage # NoObj => heap[heap[t].storage].kind = "storage"

(* The count of the reference the executable itself holds on a constant.   *)
Base(o) == IF o \in DOMAIN ConstCell THEN 1 ELSE 0

Holders(o) ==
  References(FrameValues, FrameLocs, o) + References(IoValues, IoLocs, o)
    + Cardinality(ShapeHolders(heap, o)) + Cardinality(StorageHolders(heap, o))

(* The reference count of every cell is the number of its holders: the     *)
(* registers of the frames in use, the inputs and outputs kept between     *)
(* runs, the tensors over it, and the constant table.  A cell with none is *)
(* freed and a freed cell has none, so nothing is freed twice, used after  *)
(* it is freed, or lost; this holds through errors in packed calls too.    *)
(* "The dst register must be empty" (relax_vm_register.h:94): Copy         *)
(* overwrites registers without freeing them, which is safe only because   *)
(* no register outside the frames in use holds a counted reference,        *)
(* whatever earlier calls left in the buffers that are handed on.          *)
RefCountsAreExact ==
  /\ \A o \in Obj :
       /\ heap[o].ref_num = Base(o) + Holders(o)
       /\ heap[o].kind = "free" <=> heap[o].ref_num = 0
  /\ \A b \in Buffer, r \in RegIdx :
       <<b, r>> \notin FrameLocs => regs[b][r].typecode \notin Counted

RunSucceeds == state = "running" /\ state' = "idle" /\ status' = 0

(* A run that succeeds ends with a Ret of the function it was called on    *)
(* and leaves no frame, as long as no earlier packed call has failed.      *)
CleanRunsReturnTheirOwn ==
  [][RunSucceeds /\ ~ failed => pc \in Body(cur) /\ frame_size' = 0]_vars

(* The public contract, "Execute the VM function ... @return 0 if          *)
(* successful": a run that returns 0 ends with a Ret of its own function.  *)
RunsReturnTheirOwn == [][RunSucceeds => pc \in Body(cur)]_vars

(* A call writes no register of the frames below it, those of its caller   *)
(* included from the moment it is entered, but for one: the destination    *)
(* register of the caller, when it returns.                                *)
CallerRegistersKept ==
  [][\A i \in 0 .. frame_size - (IF frame_size' > frame_size THEN 1 ELSE 2) :
       i < frame_size' =>
         \A r \in RegIdx :
           regs'[frames[i].registers][r] = regs[frames[i].registers][r]
             \/ /\ i = frame_size - 2
                /\ frame_size' = frame_size - 1
                /\ r = Top.reg_caller_return]_vars

(* The functions without a jump backwards. *)
LoopFree ==
  {f \in Func : \A i \in Body(f) : Code[i].op = "Goto" => Code[i].offset > 0}

(* Every run of a function that does not loop comes to an end, however     *)
(* deep it calls others of the kind and whichever way it branches.         *)
RunTerminates ==
  \A f \in Callable \cap LoopFree :
    (state = "running" /\ cur = f) ~> (state # "running")
=============================================================================
