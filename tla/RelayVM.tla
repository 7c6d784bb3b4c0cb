------------------------------ MODULE RelayVM ------------------------------
(***************************************************************************)
(* The Relay virtual machine: its interpreter                              *)
(* (src/backends/relay_vm/relay_vm_interpreter.c) and its public functions *)
(* (relay_vm.c).                                                           *)
(*                                                                         *)
(* Unlike the Relax machine it counts no references.  A register owns a    *)
(* tensor, borrows one, or holds a storage, and ownership moves from       *)
(* register to register: whoever holds the owning register last frees the  *)
(* tensor, its data and its shape.  The model keeps the addresses of both  *)
(* and who may free the memory behind each, so that a second free, a free  *)
(* of somebody else's memory and a read of freed memory are all visible.   *)
(* No instruction calls a VM function, so one frame is in use at most.     *)
(***************************************************************************)
EXTENDS Integers, FiniteSets

CONSTANTS
  Mem,           \* addresses of memory blocks
  Null,          \* the null pointer
  UserData, UserShape,    \* the tensor of the user, on the machine's device
  ExecData, ExecShape,    \* the constants of the executable
  Func,          \* VM functions
  NoFunc,
  NumParams,     \* Func -> Nat
  NumRegs,       \* Func -> Nat
  Code,          \* Func -> sequence of instructions
  Callable,      \* the functions the user runs
  Supply,        \* Func -> kinds of inputs the user gives: "borrow", "copy"
  Bytes,         \* sizes of the input tensors that are copied
  MayFail,       \* packed functions that may return a status other than 0
  StorageMayFail, InputMayFail    \* may the device run out of memory

ASSUME RelayAssumption ==
  /\ {UserData, UserShape, ExecData, ExecShape} \subseteq Mem
  /\ Null \notin Mem
  /\ NoFunc \notin Func
  /\ IsFiniteSet(Mem)
  /\ "frame" \notin Func \cup {NoFunc}
  /\ Callable \subseteq Func
  /\ \A f \in Func : /\ NumParams[f] \in Nat /\ NumRegs[f] \in Nat
                     /\ NumParams[f] <= NumRegs[f]
  /\ Bytes \subseteq Nat
  /\ {StorageMayFail, InputMayFail} \subseteq BOOLEAN

VARIABLES
  mem,          \* who may free each block: "vm", "user", "exec"; or "free"
  regs,         \* current_frame.registers
  frame_stack_size,
  inputs,       \* func->inputs
  ret,          \* ret_register
  func, pc,     \* the function being run, its program counter
  state,        \* "idle", "running", "freed", or "undefined" behaviour
  status,       \* what the last run returned
  ok            \* the local status of the interpreter loop

vars == <<mem, regs, frame_stack_size, inputs, ret, func, pc, state, status,
          ok>>

-----------------------------------------------------------------------------
(* Registers. *)

Register == [tp : {"Null", "Borrowed", "Owned", "Storage"},
             data : Mem \cup {Null}, shape : Mem \cup {Null}, bytes : Nat]

Empty == [tp |-> "Null", data |-> Null, shape |-> Null, bytes |-> 0]

Tensor(tp, d, s, n) == [tp |-> tp, data |-> d, shape |-> s, bytes |-> n]

IsTensor(r) == r.tp \in {"Borrowed", "Owned"}

Nulled(r) == [r EXCEPT !.tp = "Null"]

(* The blocks RegisterFree frees: only an owned tensor has any.            *)
Frees(r) ==
  IF r.tp = "Owned" THEN {r.shape, r.data} \ {Null} ELSE {}

(* Freeing the registers rs[l], l \in D, is sound if each block is the     *)
(* machine's and is freed once.                                            *)
FreeIsSound(h, rs, D) ==
  /\ \A l \in D : \A m \in Frees(rs[l]) : h[m] = "vm"
  /\ \A l, k \in D : l # k => Frees(rs[l]) \cap Frees(rs[k]) = {}

Freed(h, rs, D) ==
  [m \in Mem |-> IF \E l \in D : m \in Frees(rs[l]) THEN "free" ELSE h[m]]

FreeBlocks(h) == {m \in Mem : h[m] = "free"}

(* The block the next allocation returns, and the one after it. *)
Block1(h) == CHOOSE m \in FreeBlocks(h) : TRUE
Block2(h) == CHOOSE m \in FreeBlocks(h) \ {Block1(h)} : TRUE

Readable(h, r) == r.data # Null /\ h[r.data] # "free" /\ h[r.shape] # "free"

Init ==
  /\ mem = [m \in Mem |-> CASE m \in {UserData, UserShape} -> "user"
                            [] m \in {ExecData, ExecShape} -> "exec"
                            [] OTHER -> "free"]
  /\ regs = <<>>
  /\ frame_stack_size = 0
  /\ inputs = [f \in Func |-> [i \in 0 .. NumParams[f] - 1 |-> Empty]]
  /\ ret = Empty
  /\ func = NoFunc
  /\ pc = 0
  /\ state = "idle"
  /\ status = 0
  /\ ok = 0

-----------------------------------------------------------------------------
(* The interpreter.                                                        *)

Instr == Code[func][pc + 1]
Fetch(op) == state = "running" /\ Instr.op = op

Undefined ==
  /\ state' = "undefined"
  /\ UNCHANGED <<mem, regs, frame_stack_size, inputs, ret, func, pc, status,
                 ok>>

(* The instruction wrote the registers rs and left the heap h. *)
Goes(h, rs, k) ==
  /\ mem' = h
  /\ regs' = rs
  /\ pc' = pc + 1
  /\ ok' = k
  /\ UNCHANGED <<frame_stack_size, inputs, ret, func, state, status>>

(* The current frame goes, with all its registers. *)
PopFrame(h, rs) ==
  /\ mem' = Freed(h, rs, DOMAIN rs)
  /\ regs' = <<>>
  /\ frame_stack_size' = frame_stack_size - 1

(* The run fails: the frame is freed and k returned. *)
Fails(k) ==
  IF FreeIsSound(mem, regs, DOMAIN regs)
  THEN /\ PopFrame(mem, regs)
       /\ state' = "idle"
       /\ status' = k
       /\ UNCHANGED <<inputs, ret, func, pc, ok>>
  ELSE Undefined

Move ==
  /\ Fetch("Move")
  /\ LET src == regs[Instr.from]
     IN Goes(mem, [regs EXCEPT ![Instr.dst] = src,
                               ![Instr.from] = Nulled(src)], ok)

(* The result leaves its register before the frame is freed; the previous  *)
(* result is freed and replaced.                                           *)
Ret ==
  /\ Fetch("Ret")
  /\ LET value == regs[Instr.result]
         left  == [regs EXCEPT ![Instr.result] = Nulled(value)]
         all   == [l \in DOMAIN regs \cup {-1} |->
                     IF l = -1 THEN ret ELSE left[l]]
     IN IF FreeIsSound(mem, all, DOMAIN all)
        THEN /\ PopFrame(Freed(mem, all, {-1}), left)
             /\ ret' = value
             /\ state' = "idle"
             /\ status' = 0
             /\ UNCHANGED <<inputs, func, pc, ok>>
        ELSE Undefined

(* Arguments that are no tensors are skipped; a compiled kernel that is    *)
(* given too few fails.                                                    *)
InvokePacked ==
  /\ Fetch("InvokePacked")
  /\ LET args    == {regs[r] : r \in Instr.args}
         tensors == {a \in args : IsTensor(a)}
         answers == IF tensors # args THEN {-1}
                    ELSE {0} \cup {-1 : p \in {Instr.func} \cap MayFail}
     IN IF \A a \in tensors : Readable(mem, a)
        THEN \E k \in answers : IF k = 0 THEN Goes(mem, regs, 0) ELSE Fails(k)
        ELSE Undefined

(* LoadTensorFirstElem reads register r: what follows if it is a tensor.   *)
Loads(r, Then) ==
  CASE ~ IsTensor(regs[r])                       -> Fails(-1)
    [] IsTensor(regs[r]) /\ ~ Readable(mem, regs[r])  -> Undefined
    [] OTHER                                     -> Then

(* A storage is allocated on the device, or the device has no memory.      *)
AllocStorage ==
  /\ Fetch("AllocStorage")
  /\ FreeBlocks(mem) # {}
  /\ LET m == Block1(mem)
         s == Tensor("Storage", m, Null, 0)
     IN \E full \in BOOLEAN :
          /\ full => StorageMayFail
          /\ Loads(Instr.size,
                   IF full THEN Fails(1)
                   ELSE Goes([mem EXCEPT ![m] = "vm"],
                             [regs EXCEPT ![Instr.dst] = s], 0))

(* Faulty variant: the storage register keeps the data.                    *)
AllocTensorShares ==
  /\ Fetch("AllocTensor")
  /\ FreeBlocks(mem) # {}
  /\ LET m == Block1(mem)
         t == Tensor("Owned", regs[Instr.storage].data, m, 1)
     IN Loads(Instr.offset,
              Goes([mem EXCEPT ![m] = "vm"],
                   [regs EXCEPT ![Instr.dst] = t,
                                ![Instr.storage].tp = "Owned"], 0))

(* A tensor takes the data of the storage over. *)
AllocTensor ==
  /\ Fetch("AllocTensor")
  /\ FreeBlocks(mem) # {}
  /\ LET m == Block1(mem)
         t == Tensor("Owned", regs[Instr.storage].data, m, 1)
     IN Loads(Instr.offset,
              Goes([mem EXCEPT ![m] = "vm"],
                   [regs EXCEPT ![Instr.dst] = t,
                                ![Instr.storage] = Nulled(@)], 0))

LoadConst ==
  /\ Fetch("LoadConst")
  /\ Goes(mem, [regs EXCEPT ![Instr.dst] = Tensor("Borrowed", ExecData,
                                                  ExecShape, 1)], ok)

(* The register is copied to the destination, and only then emptied: of a  *)
(* tensor reshaped in its own register nothing is left.  The old shape is  *)
(* freed, whoever owns the tensor, before the new one is read, from what   *)
(* its register holds after the move.                                      *)
ReshapeTensor ==
  /\ Fetch("ReshapeTensor")
  /\ LET src   == regs[Instr.tensor]
         moved == [regs EXCEPT ![Instr.dst] = src,
                               ![Instr.tensor].tp = "Null"]
         h     == [b \in Mem |-> IF b = src.shape THEN "free" ELSE mem[b]]
         m     == Block1(h)
     IN IF /\ src.shape # Null => mem[src.shape] = "vm"
           /\ Readable(h, moved[Instr.shape])
        THEN Goes([h EXCEPT ![m] = "vm"],
                  [moved EXCEPT ![Instr.dst].shape = m], ok)
        ELSE Undefined

KillRegister ==
  /\ Fetch("KillRegister")
  /\ IF FreeIsSound(mem, regs, {Instr.dst})
     THEN Goes(Freed(mem, regs, {Instr.dst}),
               [regs EXCEPT ![Instr.dst] = Nulled(@)], ok)
     ELSE Undefined

(* Faulty variant: the instruction is skipped.                             *)
UnsupportedSkips ==
  /\ Fetch("Fatal")
  /\ Goes(mem, regs, ok)

(* Fatal and the opcodes that are not implemented return the status the    *)
(* last instruction left.                                                  *)
Unsupported ==
  /\ Fetch("Fatal")
  /\ Fails(ok)

Step ==
  \/ Move
  \/ Ret
  \/ InvokePacked
  \/ AllocStorage
  \/ AllocTensor
  \/ LoadConst
  \/ ReshapeTensor
  \/ KillRegister
  \/ Unsupported

-----------------------------------------------------------------------------
(* Public functions.                                                       *)

(* An input on the machine's device is borrowed; what the register held is *)
(* forgotten.                                                              *)
Borrow(f, i) ==
  /\ state = "idle"
  /\ inputs' = [inputs EXCEPT ![f][i] =
                  Tensor("Borrowed", UserData, UserShape, 1)]
  /\ UNCHANGED <<mem, regs, frame_stack_size, ret, func, pc, state, status,
                 ok>>

SetsInput(f, i, h, r) ==
  /\ mem' = h
  /\ inputs' = [inputs EXCEPT ![f][i] = r]
  /\ UNCHANGED <<regs, frame_stack_size, ret, func, pc, state, status, ok>>

(* An input on another device is copied into an owned tensor, which is     *)
(* kept if its size is right.  Comparing the sizes reads the old shape.    *)
CopyIn(f, i, n) ==
  /\ state = "idle"
  /\ Cardinality(FreeBlocks(mem)) >= 2
  /\ LET old  == inputs[f][i]
         h    == Freed(mem, inputs[f], {i})
         m    == Block1(mem)
         s    == Block2(mem)
         full == Tensor("Owned", Null, old.shape, n)
         new  == Tensor("Owned", m, s, n)
     IN CASE old.tp = "Owned" /\ old.shape # Null /\ mem[old.shape] = "free" ->
               Undefined
          [] old.tp = "Owned" /\ old.bytes = n ->
               SetsInput(f, i, mem, old)
          [] OTHER ->
               \/ SetsInput(f, i, [h EXCEPT ![m] = "vm", ![s] = "vm"], new)
               \/ InputMayFail /\ SetsInput(f, i, h, full)

(* Faulty variant: the frame takes the inputs over.                        *)
LentAway(r) == r

(* The registers of the parameters borrow the inputs. *)
Lent(r) == IF r.tp = "Owned" THEN [r EXCEPT !.tp = "Borrowed"] ELSE r

Run(f) ==
  /\ state = "idle"
  /\ frame_stack_size' = frame_stack_size + 1
  /\ regs' = [r \in 0 .. NumRegs[f] - 1 |->
                IF r < NumParams[f] THEN Lent(inputs[f][r]) ELSE Empty]
  /\ func' = f
  /\ pc' = 0
  /\ state' = "running"
  /\ ok' = -1
  /\ UNCHANGED <<mem, inputs, ret, status>>

(* Copy the return register into the user's tensor. *)
GetOutput(f) ==
  /\ state = "idle"
  /\ IsTensor(ret)
  /\ IF Readable(mem, ret)
     THEN UNCHANGED vars
     ELSE Undefined

(* Everything the machine keeps between runs. *)
KeptLocs == {<<NoFunc, 0>>} \cup
  UNION {{<<f, i>> : i \in 0 .. NumParams[f] - 1} : f \in Func}
Kept == [l \in KeptLocs |-> IF l[1] = NoFunc THEN ret ELSE inputs[l[1]][l[2]]]

Free ==
  /\ state = "idle"
  /\ IF FreeIsSound(mem, Kept, KeptLocs)
     THEN /\ mem' = [m \in Mem |->
                       IF mem[m] = "exec" THEN "free"
                       ELSE Freed(mem, Kept, KeptLocs)[m]]
          /\ state' = "freed"
          /\ ret' = Empty
          /\ inputs' = [f \in Func |-> [i \in 0 .. NumParams[f] - 1 |-> Empty]]
          /\ UNCHANGED <<regs, frame_stack_size, func, pc, status, ok>>
     ELSE Undefined

UserStep(f) ==
  \/ \E i \in 0 .. NumParams[f] - 1 :
       \/ "borrow" \in Supply[f] /\ Borrow(f, i)
       \/ "copy" \in Supply[f] /\ \E n \in Bytes : CopyIn(f, i, n)
  \/ Run(f)
  \/ GetOutput(f)

Next ==
  \/ Step
  \/ \E f \in Callable : UserStep(f)
  \/ Free

Spec == Init /\ [][Next]_vars

-----------------------------------------------------------------------------
(* The code the compiler emits, which nothing here checks.  Code is        *)
(* straight, so that what a register holds before an instruction is known: *)
(* K[f][n] gives the kinds before the n-th of f.                           *)

Regs(f) == 0 .. NumRegs[f] - 1

(* "Input" borrows an input, or is empty when the user gave none. *)
Kind == {"Null", "Input", "Const", "Owned", "Storage"}

Overwritable == {"Null", "Input", "Const"}
SureTensor == {"Const", "Owned"}

NoStorage(k) == \A r \in DOMAIN k : k[r] # "Storage"

After(i, k) ==
  CASE i.op = "Move"          -> [k EXCEPT ![i.dst] = k[i.from],
                                           ![i.from] = "Null"]
    [] i.op = "AllocStorage"  -> [k EXCEPT ![i.dst] = "Storage"]
    [] i.op = "AllocTensor"   -> [k EXCEPT ![i.dst] = "Owned",
                                           ![i.storage] = "Null"]
    [] i.op = "LoadConst"     -> [k EXCEPT ![i.dst] = "Const"]
    [] i.op = "ReshapeTensor" -> [k EXCEPT ![i.dst] = "Owned",
                                           ![i.tensor] = "Null"]
    [] i.op = "KillRegister"  -> [k EXCEPT ![i.dst] = "Null"]
    [] OTHER                  -> k

(* What owns memory is not overwritten, a storage is made a tensor before  *)
(* anything can fail, only an owned tensor is reshaped, into another       *)
(* register and not the one its new shape is in, and what borrows from an  *)
(* input that is copied is not returned.                                   *)
Proper(f, i, k) ==
  CASE i.op = "Move" ->
         i.from \in Regs(f) /\ i.dst \in Regs(f) /\ k[i.dst] \in Overwritable
    [] i.op = "Ret" ->
         /\ i.result \in Regs(f) /\ NoStorage(k)
         /\ k[i.result] = "Input" => "copy" \notin Supply[f]
    [] i.op = "InvokePacked" ->
         /\ i.args \subseteq Regs(f)
         /\ \/ NoStorage(k)
            \/ i.func \notin MayFail /\ \A r \in i.args : k[r] \in SureTensor
    [] i.op = "AllocStorage" ->
         /\ i.size \in Regs(f)
         /\ i.dst \in Regs(f) /\ k[i.dst] \in Overwritable
         /\ NoStorage(k) \/ (~ StorageMayFail /\ k[i.size] \in SureTensor)
    [] i.op = "AllocTensor" ->
         /\ i.storage \in Regs(f) /\ k[i.storage] = "Storage"
         /\ i.offset \in Regs(f) /\ k[i.offset] \in SureTensor
         /\ i.dst \in Regs(f) /\ k[i.dst] \in Overwritable
    [] i.op = "LoadConst" ->
         i.dst \in Regs(f) /\ k[i.dst] \in Overwritable
    [] i.op = "ReshapeTensor" ->
         /\ i.tensor \in Regs(f) /\ k[i.tensor] = "Owned"
         /\ i.dst \in Regs(f) /\ k[i.dst] \in Overwritable
         /\ i.shape \in Regs(f) \ {i.tensor, i.dst}
         /\ k[i.shape] \in SureTensor
    [] i.op = "KillRegister" ->
         i.dst \in Regs(f) /\ k[i.dst] # "Storage"
    [] i.op = "Fatal" ->
         NoStorage(k)
    [] OTHER -> FALSE

Typing(K) ==
  \A f \in Callable :
    /\ 1 \in DOMAIN Code[f]
    /\ K[f][1] = [r \in Regs(f) |->
                    IF r < NumParams[f] THEN "Input" ELSE "Null"]
    /\ \A n \in DOMAIN Code[f] :
         /\ K[f][n] \in [Regs(f) -> Kind]
         /\ Proper(f, Code[f][n], K[f][n])
         /\ Code[f][n].op \notin {"Ret", "Fatal"} =>
              /\ n + 1 \in DOMAIN Code[f]
              /\ K[f][n + 1] = After(Code[f][n], K[f][n])

(* Nor is a function given both tensors that are copied and tensors that   *)
(* are not: borrowing forgets the copy the input had.                      *)
SuppliesOneKind ==
  \A f \in Func :
    Supply[f] \subseteq {"borrow"} \/ Supply[f] \subseteq {"copy"}

-----------------------------------------------------------------------------
(* Properties.                                                             *)

RelayTypeOK ==
  /\ mem \in [Mem -> {"free", "vm", "user", "exec"}]
  /\ \A r \in DOMAIN regs : regs[r] \in Register
  /\ \A f \in Func : inputs[f] \in [0 .. NumParams[f] - 1 -> Register]
  /\ ret \in Register
  /\ func \in Func \cup {NoFunc}
  /\ state = "running" => pc + 1 \in DOMAIN Code[func]
  /\ state \in {"idle", "running", "freed", "undefined"}
  /\ {status, ok} \subseteq {-1, 0, 1}

(* The registers that own memory, and the blocks each owns. *)
Owners == {<<"frame", r>> : r \in DOMAIN regs} \cup KeptLocs
At(l) == IF l \in KeptLocs THEN Kept[l] ELSE regs[l[2]]
Owned(l) ==
  IF At(l).tp \in {"Owned", "Storage"} THEN {At(l).data, At(l).shape} \ {Null}
  ELSE {}

(* Single ownership: each block the machine allocated and has not freed is *)
(* owned by exactly one register of the frame, of the inputs or the        *)
(* result.  Nothing is lost, nothing is freed twice, and nothing that is   *)
(* the user's or the executable's.  And no tensor outlives its memory: one *)
(* that only borrows it is never left behind by the owner.                 *)
EveryBlockHasOneOwner ==
  /\ state # "undefined"
  /\ \A m \in Mem :
      /\ mem[m] = "vm" => \E l \in Owners : m \in Owned(l)
      /\ \A l, k \in Owners : m \in Owned(l) /\ m \in Owned(k) => l = k
      /\ (\E l \in Owners : m \in Owned(l)) => mem[m] = "vm"
  /\ \A l \in Owners : IsTensor(At(l)) => Readable(mem, At(l))

(* A run leaves the inputs as they were and their memory live, and one     *)
(* that fails the result of the run before it as well: after any run the   *)
(* machine can be used again as if it had not been (relay_vm.c:145-150).   *)
RunsKeepInputs ==
  [][state = "running" =>
       /\ inputs' = inputs
       /\ state' = "idle" /\ status' # 0 => ret' = ret
       /\ \A l \in KeptLocs :
            l[1] # NoFunc \/ ret' = ret =>
              \A m \in Owned(l) : mem'[m] = "vm"]_vars
=============================================================================
