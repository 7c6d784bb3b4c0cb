---------------------------- MODULE RelayVMProofs ----------------------------
(***************************************************************************)
(* Proofs about who owns the memory of the Relay virtual machine, for      *)
(* every executable, every number of functions, registers and blocks and   *)
(* every order of calls.                                                   *)
(*                                                                         *)
(* The machine counts no references and checks nothing: what it does is    *)
(* right for the code a compiler emits.  What that means is Typing(K) of   *)
(* RelayVM: K says before each instruction which kind of thing each        *)
(* register holds, and each instruction finds what it needs.  The theorems *)
(* take such a K, that no function is given both tensors that are copied   *)
(* and tensors that are not (SuppliesOneKind), and that the device has     *)
(* memory for inputs (~ InputMayFail); README.md says what the code does   *)
(* when one of them fails.                                                 *)
(*                                                                         *)
(* The inductive invariant RInv relates the registers to K, says which of  *)
(* their kinds inputs and result have, and that each block the machine     *)
(* allocated is owned at one location (OwnOK).  Each instruction, and each *)
(* call of the user, exchanges the blocks of a few locations, frees some   *)
(* and allocates others (Rearranges): that keeps OwnOK is proved once.     *)
(***************************************************************************)
EXTENDS RelayVM, FiniteSetTheorems, TLAPS

-----------------------------------------------------------------------------
(* The invariant.                                                          *)

Loc == ({"frame"} \X Nat) \cup KeptLocs

(* The blocks a register owns; those of all registers, those of the frame  *)
(* being rs, the inputs is and the result v.                               *)
Blocks(r) ==
  IF r.tp \in {"Owned", "Storage"} THEN {r.data, r.shape} \ {Null} ELSE {}

Own(rs, is, v) ==
  [l \in Loc |->
     IF l[1] = NoFunc THEN Blocks(v)
     ELSE IF l[1] = "frame" THEN IF l[2] \in DOMAIN rs THEN Blocks(rs[l[2]]) ELSE {}
     ELSE Blocks(is[l[1]][l[2]])]

OwnOK(h, O) ==
  /\ \A m \in Mem : h[m] = "vm" <=> \E l \in Loc : m \in O[l]
  /\ \A l, k \in Loc : \A m \in Mem : m \in O[l] /\ m \in O[k] => l = k

MemState == {"free", "vm", "user", "exec"}

OwnedOK(r) ==
  r.tp = "Owned" /\ r.data \in Mem /\ r.shape \in Mem /\ r.data # r.shape

Borrows(r, d, s) == r.tp = "Borrowed" /\ r.data = d /\ r.shape = s
FromUser(r) == Borrows(r, UserData, UserShape)
FromExec(r) == Borrows(r, ExecData, ExecShape)

(* A register of the given kind, of a frame of f while the inputs are is.  *)
HasKind(r, kind, f, is) ==
  \/ kind = "Null" /\ r.tp = "Null"
  \/ /\ kind = "Input"
     /\ \/ r.tp = "Null"
        \/ FromUser(r)
        \/ \E i \in 0 .. NumParams[f] - 1 :
             OwnedOK(is[f][i]) /\ Borrows(r, is[f][i].data, is[f][i].shape)
  \/ kind = "Const" /\ FromExec(r)
  \/ kind = "Owned" /\ OwnedOK(r)
  \/ kind = "Storage" /\ r.tp = "Storage" /\ r.data \in Mem /\ r.shape = Null

InputOK(f, r) ==
  \/ r.tp = "Null"
  \/ FromUser(r) /\ "borrow" \in Supply[f]
  \/ OwnedOK(r) /\ "copy" \in Supply[f]

InputsOK(is) ==
  /\ is = [f \in Func |-> is[f]]
  /\ \A f \in Func : /\ is[f] \in [0 .. NumParams[f] - 1 -> Register]
                     /\ \A i \in 0 .. NumParams[f] - 1 : InputOK(f, is[f][i])

ResultOK(v) ==
  v \in Register /\ (v.tp = "Null" \/ FromUser(v) \/ FromExec(v) \/ OwnedOK(v))

(* The blocks that are not the machine's own stay where they are.          *)
ForeignOK(h) ==
  \A m \in {UserData, UserShape, ExecData, ExecShape} : h[m] \in {"user", "exec"}

FrameOK(K) ==
  /\ func \in Callable
  /\ pc + 1 \in DOMAIN Code[func]
  /\ regs \in [Regs(func) -> Register]
  /\ \A r \in Regs(func) : HasKind(regs[r], K[func][pc + 1][r], func, inputs)

RInv(K) ==
  /\ mem \in [Mem -> MemState]
  /\ state \in {"idle", "running", "freed"}
  /\ func \in Func \cup {NoFunc}
  /\ {status, ok} \subseteq {-1, 0, 1}
  /\ InputsOK(inputs)
  /\ ResultOK(ret)
  /\ IF state = "running" THEN FrameOK(K) ELSE DOMAIN regs = {}
  /\ IF state = "freed"
     THEN /\ ret.tp = "Null"
          /\ \A f \in Func : \A i \in 0 .. NumParams[f] - 1 : inputs[f][i].tp = "Null"
     ELSE ForeignOK(mem)
  /\ OwnOK(mem, Own(regs, inputs, ret))

-----------------------------------------------------------------------------
(* A location is a register of the frame, the result, or an input.         *)
LEMMA Locations ==
  /\ \A r \in Nat : <<"frame", r>> \in Loc
  /\ <<NoFunc, 0>> \in Loc
  /\ \A f \in Func : \A i \in 0 .. NumParams[f] - 1 : <<f, i>> \in Loc
  /\ \A l \in Loc : \/ \E r \in Nat : l = <<"frame", r>>
                    \/ l = <<NoFunc, 0>>
                    \/ \E f \in Func : \E i \in 0 .. NumParams[f] - 1 : l = <<f, i>>
  BY DEF Loc, KeptLocs

(* What is owned at each of them.                                          *)
LEMMA OwnAt ==
  ASSUME NEW rs, NEW is, NEW v
  PROVE  /\ \A r \in Nat : Own(rs, is, v)[<<"frame", r>>] =
                             IF r \in DOMAIN rs THEN Blocks(rs[r]) ELSE {}
         /\ Own(rs, is, v)[<<NoFunc, 0>>] = Blocks(v)
         /\ \A f \in Func : \A i \in 0 .. NumParams[f] - 1 :
              Own(rs, is, v)[<<f, i>>] = Blocks(is[f][i])
  <1>1. "frame" # NoFunc /\ \A f \in Func : f # NoFunc /\ f # "frame"
    BY RelayAssumption
  <1> QED
    BY <1>1, Locations DEF Own

(* Registers that are not written own what they owned.                     *)
LEMMA OwnOther ==
  ASSUME NEW rs, NEW rs2, NEW is, NEW v, DOMAIN rs2 = DOMAIN rs,
         NEW D, \A r \in DOMAIN rs : r \notin D => rs2[r] = rs[r],
         NEW l \in Loc, \A r \in D : l # <<"frame", r>>
  PROVE  Own(rs2, is, v)[l] = Own(rs, is, v)[l]
  <1>1. CASE \E r \in Nat : l = <<"frame", r>>
    <2>1. PICK r \in Nat : l = <<"frame", r>>
      BY <1>1
    <2>2. r \notin D
      BY <2>1
    <2>3. Own(rs2, is, v)[l] = IF r \in DOMAIN rs2 THEN Blocks(rs2[r]) ELSE {}
      BY <2>1, OwnAt
    <2>4. Own(rs, is, v)[l] = IF r \in DOMAIN rs THEN Blocks(rs[r]) ELSE {}
      BY <2>1, OwnAt
    <2> QED
      BY <2>2, <2>3, <2>4
  <1>2. CASE l = <<NoFunc, 0>>
    BY <1>2, OwnAt
  <1>3. CASE \E f \in Func : \E i \in 0 .. NumParams[f] - 1 : l = <<f, i>>
    BY <1>3, OwnAt
  <1> QED
    BY <1>1, <1>2, <1>3, Locations

(* The locations in A exchange, free and allocate: the blocks of F are     *)
(* freed, those of N allocated.                                            *)
Rearranges(h, O, A, F, N, h2, O2) ==
  /\ A \subseteq Loc /\ F \subseteq Mem /\ N \subseteq Mem
  /\ \A m \in Mem : h2[m] = IF m \in N THEN "vm" ELSE IF m \in F THEN "free" ELSE h[m]
  /\ \A l \in Loc : l \notin A => O2[l] = O[l]
  /\ \A m \in F : \E l \in A : m \in O[l]
  /\ \A m \in N : h[m] = "free" \/ m \in F
  /\ \A m \in Mem : (\E l \in A : m \in O2[l]) <=>
                      m \in N \/ (m \notin F /\ \E l \in A : m \in O[l])
  /\ \A l, k \in A : \A m \in Mem : m \in O2[l] /\ m \in O2[k] => l = k

(* Then each block has one owner again, and only blocks of the machine     *)
(* were freed or allocated.                                                *)
LEMMA Rearranged ==
  ASSUME NEW h, NEW O, NEW A, NEW F, NEW N, NEW h2, NEW O2,
         OwnOK(h, O), Rearranges(h, O, A, F, N, h2, O2)
  PROVE  /\ OwnOK(h2, O2)
         /\ \A m \in Mem : h[m] \in {"user", "exec"} => h2[m] = h[m]
  <1>1. ASSUME NEW m \in Mem
        PROVE  h2[m] = "vm" <=> \E l \in Loc : m \in O2[l]
    BY DEF OwnOK, Rearranges
  <1>2. ASSUME NEW l \in Loc, NEW k \in Loc, NEW m \in Mem, m \in O2[l], m \in O2[k],
               l \in A, k \notin A
        PROVE  FALSE
    BY <1>2 DEF OwnOK, Rearranges
  <1>3. ASSUME NEW l \in Loc, NEW k \in Loc, NEW m \in Mem, m \in O2[l], m \in O2[k]
        PROVE  l = k
    <2>1. CASE l \in A /\ k \in A
      BY <1>3, <2>1 DEF Rearranges
    <2>2. CASE l \notin A /\ k \notin A
      BY <1>3, <2>2 DEF OwnOK, Rearranges
    <2> QED
      BY <1>2, <1>3, <2>1, <2>2
  <1>4. \A m \in Mem : h[m] \in {"user", "exec"} => h2[m] = h[m]
    BY DEF OwnOK, Rearranges
  <1> QED
    BY <1>1, <1>3, <1>4 DEF OwnOK, Rearranges

(* Two registers of a frame of f, which may be the same, do so.            *)
Touches(h, rs, rs2, f, a, b, F, N, h2) ==
  /\ DOMAIN rs = Regs(f) /\ DOMAIN rs2 = Regs(f)
  /\ a \in Regs(f) /\ b \in Regs(f)
  /\ \A r \in Regs(f) : r \notin {a, b} => rs2[r] = rs[r]
  /\ F \subseteq Mem /\ N \subseteq Mem
  /\ F \subseteq Blocks(rs[a]) \cup Blocks(rs[b])
  /\ \A m \in N : h[m] = "free" \/ m \in F
  /\ Blocks(rs2[a]) \cup Blocks(rs2[b]) =
       N \cup ((Blocks(rs[a]) \cup Blocks(rs[b])) \ F)
  /\ a # b => Blocks(rs2[a]) \cap Blocks(rs2[b]) = {}
  /\ \A m \in Mem : h2[m] = IF m \in N THEN "vm" ELSE IF m \in F THEN "free" ELSE h[m]

(* Then each block has one owner again.                                    *)
LEMMA TwoRegisters ==
  ASSUME NEW h, NEW rs, NEW rs2, NEW is, NEW v, NEW f \in Func, NEW a, NEW b,
         NEW F, NEW N, NEW h2,
         OwnOK(h, Own(rs, is, v)), Touches(h, rs, rs2, f, a, b, F, N, h2)
  PROVE  /\ OwnOK(h2, Own(rs2, is, v))
         /\ \A m \in Mem : h[m] \in {"user", "exec"} => h2[m] = h[m]
  <1> USE DEF Touches
  <1> DEFINE O == Own(rs, is, v)
             O2 == Own(rs2, is, v)
             p == <<"frame", a>>
             q == <<"frame", b>>
  <1>1. Regs(f) \subseteq Nat
    BY RelayAssumption DEF Regs
  <1>2. /\ O[p] = Blocks(rs[a]) /\ O[q] = Blocks(rs[b])
        /\ O2[p] = Blocks(rs2[a]) /\ O2[q] = Blocks(rs2[b])
    BY <1>1, OwnAt
  <1>3. {p, q} \in SUBSET Loc /\ (p = q <=> a = b)
    BY <1>1, Locations
  <1> DEFINE A == {p, q}
             D == {a, b}
  <1>4. ASSUME NEW l \in Loc, l \notin A
        PROVE  O2[l] = O[l]
    <2>1. \A r \in D : l # <<"frame", r>>
      BY <1>4
    <2>2. DOMAIN rs2 = DOMAIN rs /\ \A r \in DOMAIN rs : r \notin D => rs2[r] = rs[r]
      OBVIOUS
    <2> HIDE DEF D
    <2> QED
      BY <2>1, <2>2, OwnOther
  <1> HIDE DEF O, O2, p, q
  <1>5. OwnOK(h, O)
    BY DEF O
  <1>6. \A m \in F : \E l \in A : m \in O[l]
    BY <1>2
  <1>7. \A m \in Mem : (\E l \in A : m \in O2[l]) <=>
                          m \in N \/ (m \notin F /\ \E l \in A : m \in O[l])
    BY <1>2
  <1>8. \A l, k \in A : \A m \in Mem : m \in O2[l] /\ m \in O2[k] => l = k
    BY <1>2, <1>3
  <1>a. A \in SUBSET Loc
    BY <1>3
  <1> HIDE DEF A
  <1>b. Rearranges(h, O, A, F, N, h2, O2)
    BY <1>4, <1>6, <1>7, <1>8, <1>a DEF Rearranges
  <1>9. /\ OwnOK(h2, O2)
        /\ \A m \in Mem : h[m] \in {"user", "exec"} => h2[m] = h[m]
    BY <1>5, <1>b, Rearranged
  <1> QED
    BY <1>9 DEF O2

-----------------------------------------------------------------------------
(* What registers hold before an instruction, and what is live.            *)

(* What a register owns, by its kind. *)
LEMMA KindBlocks ==
  ASSUME NEW r, NEW f, NEW is
  PROVE  /\ \A kind \in Overwritable : HasKind(r, kind, f, is) => Blocks(r) = {}
         /\ r.tp = "Null" => Blocks(r) = {}
         /\ OwnedOK(r) => Blocks(r) = {r.data, r.shape}
         /\ HasKind(r, "Owned", f, is) => OwnedOK(r)
         /\ HasKind(r, "Storage", f, is) =>
              r.tp = "Storage" /\ r.data \in Mem /\ r.shape = Null /\ Blocks(r) = {r.data}
         /\ HasKind(r, "Null", f, is) <=> r.tp = "Null"
         /\ HasKind(r, "Const", f, is) <=> FromExec(r)
  <1>1. Null \notin Mem
    BY RelayAssumption
  <1> QED
    BY <1>1 DEF HasKind, Overwritable, Blocks, OwnedOK, FromUser, FromExec, Borrows

(* A register that was emptied owns nothing, whatever it still points to.  *)
LEMMA NulledIs ==
  ASSUME NEW r \in Register
  PROVE  /\ Nulled(r) \in Register /\ Nulled(r).tp = "Null" /\ Blocks(Nulled(r)) = {}
         /\ \A f, is : HasKind(Nulled(r), "Null", f, is)
  <1>1. Nulled(r) \in Register /\ Nulled(r).tp = "Null"
    BY DEF Nulled, Register
  <1> QED
    BY <1>1, KindBlocks

(* The instruction that is run, and what its registers hold. *)
LEMMA Current ==
  ASSUME NEW K, Typing(K), RInv(K), state = "running"
  PROVE  /\ func \in Callable /\ func \in Func /\ pc + 1 \in DOMAIN Code[func]
         /\ regs \in [Regs(func) -> Register] /\ DOMAIN regs = Regs(func)
         /\ K[func][pc + 1] \in [Regs(func) -> Kind]
         /\ Proper(func, Instr, K[func][pc + 1])
         /\ \A r \in Regs(func) : HasKind(regs[r], K[func][pc + 1][r], func, inputs)
         /\ Instr.op \notin {"Ret", "Fatal"} =>
              /\ (pc + 1) + 1 \in DOMAIN Code[func]
              /\ K[func][(pc + 1) + 1] = After(Instr, K[func][pc + 1])
         /\ Regs(func) \subseteq Nat
  <1>1. FrameOK(K)
    BY DEF RInv
  <1>2. func \in Func /\ Regs(func) \subseteq Nat
    BY <1>1, RelayAssumption DEF FrameOK, Regs
  <1> QED
    BY <1>1, <1>2 DEF FrameOK, Typing, Instr

(* The instruction wrote the registers, and the next one finds them so. *)
LEMMA GoesOK ==
  ASSUME NEW K, Typing(K), RInv(K), state = "running",
         NEW h, NEW rs, NEW k \in {-1, 0, 1}, Goes(h, rs, k),
         Instr.op \notin {"Ret", "Fatal"},
         h \in [Mem -> MemState], rs \in [Regs(func) -> Register],
         \A r \in Regs(func) :
           HasKind(rs[r], After(Instr, K[func][pc + 1])[r], func, inputs),
         OwnOK(h, Own(rs, inputs, ret)),
         \A m \in Mem : mem[m] \in {"user", "exec"} => h[m] = mem[m]
  PROVE  RInv(K)'
  <1>1. /\ mem' = h /\ regs' = rs /\ pc' = pc + 1 /\ ok' = k
        /\ UNCHANGED <<frame_stack_size, inputs, ret, func, state, status>>
    BY DEF Goes
  <1>2. FrameOK(K)'
    BY <1>1, Current DEF FrameOK
  <1>3. ForeignOK(mem)'
    BY <1>1, RelayAssumption DEF RInv, ForeignOK
  <1>4. OwnOK(mem', Own(regs', inputs', ret'))
    BY <1>1
  <1> QED
    BY <1>1, <1>2, <1>3, <1>4 DEF RInv

(* A tensor in a register, an input or the result is live. *)
LEMMA OwnedIsLive ==
  ASSUME NEW h, NEW rs, NEW is, NEW v, OwnOK(h, Own(rs, is, v))
  PROVE  /\ \A r \in Nat : r \in DOMAIN rs =>
              \A m \in Blocks(rs[r]) : m \in Mem => h[m] = "vm"
         /\ \A f \in Func : \A i \in 0 .. NumParams[f] - 1 :
              \A m \in Blocks(is[f][i]) : m \in Mem => h[m] = "vm"
         /\ \A m \in Blocks(v) : m \in Mem => h[m] = "vm"
  <1>1. \A l \in Loc : \A m \in Own(rs, is, v)[l] : m \in Mem => h[m] = "vm"
    BY DEF OwnOK
  <1>2. ASSUME NEW r \in Nat, r \in DOMAIN rs
        PROVE  \A m \in Blocks(rs[r]) : m \in Mem => h[m] = "vm"
    <2>1. Own(rs, is, v)[<<"frame", r>>] = Blocks(rs[r]) /\ <<"frame", r>> \in Loc
      BY <1>2, OwnAt, Locations
    <2> QED
      BY <1>1, <2>1
  <1>3. ASSUME NEW f \in Func, NEW i \in 0 .. NumParams[f] - 1
        PROVE  \A m \in Blocks(is[f][i]) : m \in Mem => h[m] = "vm"
    <2>1. Own(rs, is, v)[<<f, i>>] = Blocks(is[f][i]) /\ <<f, i>> \in Loc
      BY OwnAt, Locations
    <2> QED
      BY <1>1, <2>1
  <1>4. \A m \in Blocks(v) : m \in Mem => h[m] = "vm"
    <2>1. Own(rs, is, v)[<<NoFunc, 0>>] = Blocks(v) /\ <<NoFunc, 0>> \in Loc
      BY OwnAt, Locations
    <2> QED
      BY <1>1, <2>1
  <1> QED
    BY <1>2, <1>3, <1>4

(* A tensor in a register is live, and what K says is a tensor is one.     *)
LEMMA RegisterReadable ==
  ASSUME NEW K, Typing(K), RInv(K), state = "running", NEW r \in Regs(func)
  PROVE  /\ IsTensor(regs[r]) => Readable(mem, regs[r])
         /\ K[func][pc + 1][r] \in SureTensor => IsTensor(regs[r])
  <1>1. /\ HasKind(regs[r], K[func][pc + 1][r], func, inputs)
        /\ r \in DOMAIN regs /\ r \in Nat /\ func \in Func
    BY Current
  <1>2. ForeignOK(mem) /\ OwnOK(mem, Own(regs, inputs, ret))
    BY DEF RInv
  <1>3. {UserData, UserShape, ExecData, ExecShape} \subseteq Mem /\ Null \notin Mem
    BY RelayAssumption
  <1>4. FromUser(regs[r]) \/ FromExec(regs[r]) => Readable(mem, regs[r])
    BY <1>2, <1>3 DEF FromUser, FromExec, Borrows, Readable, ForeignOK
  <1>5. OwnedOK(regs[r]) => Readable(mem, regs[r])
    BY <1>1, <1>2, <1>3, OwnedIsLive, KindBlocks DEF OwnedOK, Readable
  <1>6. ASSUME NEW i \in 0 .. NumParams[func] - 1, OwnedOK(inputs[func][i]),
               Borrows(regs[r], inputs[func][i].data, inputs[func][i].shape)
        PROVE  Readable(mem, regs[r])
    <2>1. \A m \in Blocks(inputs[func][i]) : m \in Mem => mem[m] = "vm"
      BY <1>1, <1>2, OwnedIsLive
    <2> QED
      BY <1>3, <1>6, <2>1, KindBlocks DEF OwnedOK, Readable, Borrows
  <1>7. IsTensor(regs[r]) => Readable(mem, regs[r])
    BY <1>1, <1>4, <1>5, <1>6 DEF HasKind, IsTensor
  <1>8. K[func][pc + 1][r] \in SureTensor => IsTensor(regs[r])
    BY <1>1 DEF HasKind, SureTensor, IsTensor, OwnedOK, FromExec, Borrows
  <1> QED
    BY <1>7, <1>8

(* The block an allocation returns. *)
LEMMA BlockFree ==
  ASSUME NEW h, FreeBlocks(h) # {}
  PROVE  Block1(h) \in Mem /\ h[Block1(h)] = "free"
  <1>1. Block1(h) \in FreeBlocks(h)
    BY DEF Block1
  <1> QED
    BY <1>1 DEF FreeBlocks

-----------------------------------------------------------------------------
(* The instructions.                                                       *)

(* What is known before an instruction that is not a return. *)
Runs(K) == Typing(K) /\ RInv(K) /\ state = "running"

Kinds(K) == K[func][pc + 1]

(* The instruction writes the registers a and b, of the kinds it should.   *)
Writes(K, rs, a, b) ==
  /\ rs \in [Regs(func) -> Register]
  /\ a \in Regs(func) /\ b \in Regs(func)
  /\ \A r \in Regs(func) :
       r \notin {a, b} => rs[r] = regs[r] /\ After(Instr, Kinds(K))[r] = Kinds(K)[r]
  /\ HasKind(rs[a], After(Instr, Kinds(K))[a], func, inputs)
  /\ HasKind(rs[b], After(Instr, Kinds(K))[b], func, inputs)

(* An instruction that writes two registers as it should keeps the         *)
(* invariant.                                                              *)
LEMMA WritesOK ==
  ASSUME NEW K, Runs(K), Instr.op \notin {"Ret", "Fatal"},
         NEW h \in [Mem -> MemState], NEW rs, NEW k \in {-1, 0, 1}, Goes(h, rs, k),
         NEW a, NEW b, Writes(K, rs, a, b),
         NEW F, NEW N, Touches(mem, regs, rs, func, a, b, F, N, h)
  PROVE  RInv(K)'
  <1>1. /\ func \in Func
        /\ \A r \in Regs(func) : HasKind(regs[r], Kinds(K)[r], func, inputs)
    BY Current DEF Runs, Kinds
  <1>2. OwnOK(mem, Own(regs, inputs, ret))
    BY DEF Runs, RInv
  <1>3. /\ OwnOK(h, Own(rs, inputs, ret))
        /\ \A m \in Mem : mem[m] \in {"user", "exec"} => h[m] = mem[m]
    BY <1>1, <1>2, TwoRegisters
  <1>4. \A r \in Regs(func) : HasKind(rs[r], After(Instr, Kinds(K))[r], func, inputs)
    BY <1>1 DEF Writes
  <1> QED
    BY <1>3, <1>4, GoesOK DEF Writes, Runs, Kinds

(* What a kind says of the registers it lets the instruction use. *)
LEMMA Before ==
  ASSUME NEW K, Runs(K)
  PROVE  /\ func \in Func
         /\ Kinds(K) \in [Regs(func) -> Kind]
         /\ Proper(func, Instr, Kinds(K))
         /\ regs \in [Regs(func) -> Register]
         /\ mem \in [Mem -> MemState] /\ {status, ok} \subseteq {-1, 0, 1}
         /\ \A r \in Regs(func) : HasKind(regs[r], Kinds(K)[r], func, inputs)
         /\ \A r \in Regs(func) : Kinds(K)[r] \in Overwritable => Blocks(regs[r]) = {}
  <1>1. /\ func \in Func
        /\ Kinds(K) \in [Regs(func) -> Kind]
        /\ Proper(func, Instr, Kinds(K))
        /\ regs \in [Regs(func) -> Register]
        /\ \A r \in Regs(func) : HasKind(regs[r], Kinds(K)[r], func, inputs)
    BY Current DEF Runs, Kinds
  <1>2. \A r \in Regs(func) : Kinds(K)[r] \in Overwritable => Blocks(regs[r]) = {}
    BY <1>1, KindBlocks
  <1> QED
    BY <1>1, <1>2 DEF Runs, RInv

(* Move: the destination owns what the source did.                         *)
LEMMA MoveOK ==
  ASSUME NEW K, Runs(K), Move
  PROVE  RInv(K)'
  <1> DEFINE a == Instr.from
             b == Instr.dst
             src == regs[a]
             rs == [regs EXCEPT ![b] = src, ![a] = Nulled(src)]
             k == Kinds(K)
  <1>1. Instr.op = "Move" /\ Goes(mem, rs, ok)
    BY DEF Move, Fetch
  <1>2. /\ a \in Regs(func) /\ b \in Regs(func) /\ k[b] \in Overwritable
        /\ After(Instr, k) = [k EXCEPT ![b] = k[a], ![a] = "Null"]
    BY <1>1, Before DEF Proper, After
  <1>3. Blocks(regs[b]) = {} /\ src \in Register /\ HasKind(src, k[a], func, inputs)
    BY <1>2, Before, SMTT(60)
  <1>4. /\ Nulled(src) \in Register /\ Blocks(Nulled(src)) = {}
        /\ HasKind(Nulled(src), "Null", func, inputs)
    BY <1>3, NulledIs
  <1>5. /\ k \in [Regs(func) -> Kind] /\ regs \in [Regs(func) -> Register]
        /\ mem \in [Mem -> MemState] /\ ok \in {-1, 0, 1}
    BY Before
  <1> HIDE DEF k
  <1>6. rs \in [Regs(func) -> Register] /\ rs[a] = Nulled(src) /\ (a # b => rs[b] = src)
        /\ \A r \in Regs(func) : r \notin {a, b} => rs[r] = regs[r]
    BY <1>2, <1>3, <1>4, <1>5
  <1>7. After(Instr, k)[a] = "Null" /\ (a # b => After(Instr, k)[b] = k[a])
        /\ \A r \in Regs(func) : r \notin {a, b} => After(Instr, k)[r] = k[r]
    BY <1>2, <1>5
  <1> HIDE DEF rs
  <1>8. Writes(K, rs, a, b)
    <2>1. HasKind(rs[b], After(Instr, k)[b], func, inputs)
      BY <1>3, <1>4, <1>6, <1>7
    <2> QED
      BY <2>1, <1>2, <1>3, <1>4, <1>6, <1>7 DEF Writes, k
  <1>9. Touches(mem, regs, rs, func, a, b, {}, {}, mem)
    BY <1>2, <1>3, <1>4, <1>5, <1>6 DEF Touches
  <1> QED
    BY <1>1, <1>5, <1>8, <1>9, WritesOK

(* LoadConst: the destination owned nothing.                               *)
LEMMA LoadConstOK ==
  ASSUME NEW K, Runs(K), LoadConst
  PROVE  RInv(K)'
  <1> DEFINE b == Instr.dst
             x == Tensor("Borrowed", ExecData, ExecShape, 1)
             rs == [regs EXCEPT ![b] = x]
             k == Kinds(K)
  <1>1. Instr.op = "LoadConst" /\ Goes(mem, rs, ok)
    BY DEF LoadConst, Fetch
  <1>2. /\ b \in Regs(func) /\ k[b] \in Overwritable
        /\ After(Instr, k) = [k EXCEPT ![b] = "Const"]
    BY <1>1, Before DEF Proper, After
  <1>3. Blocks(regs[b]) = {}
    BY <1>2, Before
  <1>4. x \in Register /\ Blocks(x) = {} /\ HasKind(x, "Const", func, inputs)
    BY RelayAssumption DEF Tensor, Register, Blocks, HasKind, FromExec, Borrows
  <1>5. /\ k \in [Regs(func) -> Kind] /\ regs \in [Regs(func) -> Register]
        /\ mem \in [Mem -> MemState] /\ ok \in {-1, 0, 1}
    BY Before
  <1> HIDE DEF k, x
  <1>6. /\ rs \in [Regs(func) -> Register] /\ rs[b] = x
        /\ \A r \in Regs(func) : r # b => rs[r] = regs[r]
        /\ After(Instr, k)[b] = "Const"
        /\ \A r \in Regs(func) : r # b => After(Instr, k)[r] = k[r]
    BY <1>2, <1>4, <1>5
  <1> HIDE DEF rs
  <1>8. Writes(K, rs, b, b)
    BY <1>2, <1>4, <1>6 DEF Writes, k
  <1>9. Touches(mem, regs, rs, func, b, b, {}, {}, mem)
    BY <1>2, <1>3, <1>4, <1>5, <1>6 DEF Touches
  <1> QED
    BY <1>1, <1>5, <1>8, <1>9, WritesOK

(* KillRegister frees what the register owned.                             *)
LEMMA KillOK ==
  ASSUME NEW K, Runs(K), KillRegister
  PROVE  RInv(K)'
  <1> DEFINE b == Instr.dst
             x == regs[b]
             rs == [regs EXCEPT ![b] = Nulled(x)]
             k == Kinds(K)
             h == Freed(mem, regs, {b})
  <1>0. Instr.op = "KillRegister"
    BY DEF KillRegister, Fetch
  <1>2. /\ b \in Regs(func) /\ k[b] # "Storage"
        /\ After(Instr, k) = [k EXCEPT ![b] = "Null"]
    BY <1>0, Before DEF Proper, After
  <1>5. /\ k \in [Regs(func) -> Kind] /\ regs \in [Regs(func) -> Register]
        /\ mem \in [Mem -> MemState] /\ ok \in {-1, 0, 1}
        /\ func \in Func
    BY Before
  <1>3. x \in Register /\ HasKind(x, k[b], func, inputs)
    BY <1>2, Before
  <1>4. /\ Nulled(x) \in Register /\ Blocks(Nulled(x)) = {}
        /\ HasKind(Nulled(x), "Null", func, inputs)
    BY <1>3, NulledIs
  <1>6. Frees(x) = Blocks(x) /\ Blocks(x) \subseteq Mem
    <2>1. x.tp # "Storage"
      BY <1>2, <1>3, <1>5 DEF HasKind, FromUser, FromExec, Borrows, OwnedOK, Kind
    <2> QED
      BY <1>3, <2>1 DEF Frees, Blocks, Register
  <1>7. \A m \in Blocks(x) : mem[m] = "vm"
    <2>1. b \in DOMAIN regs /\ b \in Nat
      BY <1>2, <1>5, RelayAssumption DEF Regs
    <2>2. OwnOK(mem, Own(regs, inputs, ret))
      BY DEF Runs, RInv
    <2> QED
      BY <1>6, <2>1, <2>2, OwnedIsLive
  <1>1. Goes(h, rs, ok)
    <2>1. FreeIsSound(mem, regs, {b})
      BY <1>6, <1>7 DEF FreeIsSound
    <2> QED
      BY <2>1 DEF KillRegister
  <1>8. /\ h \in [Mem -> MemState]
        /\ \A m \in Mem : h[m] = IF m \in Blocks(x) THEN "free" ELSE mem[m]
    BY <1>5, <1>6 DEF Freed, MemState
  <1> HIDE DEF k, x, h
  <1>9. /\ rs \in [Regs(func) -> Register] /\ rs[b] = Nulled(x)
        /\ \A r \in Regs(func) : r # b => rs[r] = regs[r]
        /\ After(Instr, k)[b] = "Null"
        /\ \A r \in Regs(func) : r # b => After(Instr, k)[r] = k[r]
    BY <1>2, <1>4, <1>5
  <1> HIDE DEF rs
  <1>a. Writes(K, rs, b, b)
    BY <1>2, <1>4, <1>9 DEF Writes, k
  <1>b. Touches(mem, regs, rs, func, b, b, Blocks(x), {}, h)
    BY <1>2, <1>4, <1>5, <1>6, <1>8, <1>9 DEF Touches, x
  <1> QED
    BY <1>0, <1>1, <1>5, <1>8, <1>a, <1>b, WritesOK

(* The frame goes: of what its registers and the result owned F is freed,  *)
(* and the new result owns the rest.                                       *)
Empties(h, rs, v, v2, F, h2) ==
  /\ DOMAIN rs \subseteq Nat
  /\ F \subseteq Mem
  /\ \A m \in Mem : h2[m] = IF m \in F THEN "free" ELSE h[m]
  /\ \A m \in Mem : m \in Blocks(v) \/ (\E r \in DOMAIN rs : m \in Blocks(rs[r]))
                      <=> m \in F \/ m \in Blocks(v2)
  /\ F \cap Blocks(v2) = {}

(* Then each block has one owner, though no register is left.              *)
LEMMA FrameGone ==
  ASSUME NEW h, NEW rs, NEW is, NEW v, NEW v2, NEW F, NEW h2, NEW rs2, DOMAIN rs2 = {},
         OwnOK(h, Own(rs, is, v)), Empties(h, rs, v, v2, F, h2)
  PROVE  /\ OwnOK(h2, Own(rs2, is, v2))
         /\ \A m \in Mem : h[m] \in {"user", "exec"} => h2[m] = h[m]
  <1> USE DEF Empties
  <1> DEFINE O == Own(rs, is, v)
             O2 == Own(rs2, is, v2)
             ret0 == <<NoFunc, 0>>
             A == {<<"frame", r>> : r \in Nat} \cup {ret0}
  <1>1. /\ \A r \in Nat : O[<<"frame", r>>] = IF r \in DOMAIN rs THEN Blocks(rs[r]) ELSE {}
        /\ O[ret0] = Blocks(v)
    BY OwnAt
  <1>2. /\ \A r \in Nat : O2[<<"frame", r>>] = {}
        /\ O2[ret0] = Blocks(v2)
    BY OwnAt
  <1>3. A \in SUBSET Loc
    BY Locations
  <1>4. ASSUME NEW l \in Loc, l \notin A
        PROVE  O2[l] = O[l]
    BY <1>4, Locations, OwnAt
  <1>5. OwnOK(h, O)
    OBVIOUS
  <1> HIDE DEF O, O2, ret0
  <1>6. \A m \in Mem : (\E l \in A : m \in O[l]) <=>
                         m \in Blocks(v) \/ \E r \in DOMAIN rs : m \in Blocks(rs[r])
    <2>1. ASSUME NEW m \in Mem, NEW l \in A, m \in O[l]
          PROVE  m \in Blocks(v) \/ \E r \in DOMAIN rs : m \in Blocks(rs[r])
      BY <1>1, <2>1
    <2>2. ASSUME NEW m \in Mem, m \in Blocks(v)
          PROVE  \E l \in A : m \in O[l]
      BY <1>1, <2>2
    <2>3. ASSUME NEW m \in Mem, NEW r \in DOMAIN rs, m \in Blocks(rs[r])
          PROVE  \E l \in A : m \in O[l]
      <3>1. <<"frame", r>> \in A /\ O[<<"frame", r>>] = Blocks(rs[r])
        BY <1>1
      <3> QED
        BY <2>3, <3>1
    <2> QED
      BY <2>1, <2>2, <2>3
  <1>7. \A m \in Mem : (\E l \in A : m \in O2[l]) <=> m \in Blocks(v2)
    <2>1. ASSUME NEW m \in Mem, NEW l \in A, m \in O2[l]
          PROVE  m \in Blocks(v2)
      BY <1>2, <2>1
    <2>2. ret0 \in A
      OBVIOUS
    <2> QED
      BY <1>2, <2>1, <2>2
  <1>8. \A l, k \in A : \A m \in Mem : m \in O2[l] /\ m \in O2[k] => l = k
    BY <1>2
  <1> HIDE DEF A
  <1>9. Rearranges(h, O, A, F, {}, h2, O2)
    BY <1>3, <1>4, <1>6, <1>7, <1>8 DEF Rearranges
  <1> QED
    BY <1>5, <1>9, Rearranged DEF O2

(* What a register without a storage owns is what RegisterFree frees. *)
LEMMA FreesBlocks ==
  ASSUME NEW r \in Register
  PROVE  /\ Frees(r) \subseteq Blocks(r) /\ Blocks(r) \subseteq Mem
         /\ r.tp # "Storage" => Frees(r) = Blocks(r)
  BY DEF Frees, Blocks, Register

(* A frame that may be freed holds no storage: RegisterFree would lose it. *)
LEMMA NoStorages ==
  ASSUME NEW K, Runs(K), NoStorage(Kinds(K)), NEW r \in Regs(func)
  PROVE  regs[r] \in Register /\ regs[r].tp # "Storage" /\ r \in Nat /\ r \in DOMAIN regs
  <1>1. /\ regs \in [Regs(func) -> Register] /\ func \in Func
        /\ HasKind(regs[r], Kinds(K)[r], func, inputs)
        /\ Kinds(K)[r] # "Storage"
    BY Before DEF NoStorage
  <1>2. r \in Nat
    BY <1>1, RelayAssumption DEF Regs
  <1> QED
    BY <1>1, <1>2 DEF HasKind, FromUser, FromExec, Borrows, OwnedOK

(* No two registers of the frame own the same, nor the result and one. *)
LEMMA OwnedOnce ==
  ASSUME NEW h, NEW rs, NEW is, NEW v, OwnOK(h, Own(rs, is, v)), NEW m \in Mem,
         NEW r \in Nat, r \in DOMAIN rs, m \in Blocks(rs[r])
  PROVE  /\ m \notin Blocks(v)
         /\ \A q \in Nat : q \in DOMAIN rs /\ m \in Blocks(rs[q]) => q = r
  <1>1. <<"frame", r>> \in Loc /\ m \in Own(rs, is, v)[<<"frame", r>>]
    BY Locations, OwnAt
  <1>2. ASSUME m \in Blocks(v)
        PROVE  FALSE
    <2>1. <<NoFunc, 0>> \in Loc /\ m \in Own(rs, is, v)[<<NoFunc, 0>>]
      BY <1>2, Locations, OwnAt
    <2>2. <<NoFunc, 0>> # <<"frame", r>>
      BY RelayAssumption
    <2> QED
      BY <1>1, <2>1, <2>2 DEF OwnOK
  <1>3. ASSUME NEW q \in Nat, q \in DOMAIN rs, m \in Blocks(rs[q])
        PROVE  q = r
    <2>1. <<"frame", q>> \in Loc /\ m \in Own(rs, is, v)[<<"frame", q>>]
      BY <1>3, Locations, OwnAt
    <2>2. <<"frame", q>> = <<"frame", r>>
      BY <1>1, <2>1 DEF OwnOK
    <2> QED
      BY <2>2
  <1> QED
    BY <1>2, <1>3

(* A run that fails frees what the frame owned, once each.                 *)
LEMMA FailsOK ==
  ASSUME NEW K, Runs(K), NoStorage(Kinds(K)), NEW k \in {-1, 0, 1}, Fails(k)
  PROVE  RInv(K)'
  <1> DEFINE D == DOMAIN regs
             F == {m \in Mem : \E r \in D : m \in Blocks(regs[r])}
             h == Freed(mem, regs, D)
  <1>1. /\ regs \in [Regs(func) -> Register] /\ D = Regs(func) /\ func \in Func
        /\ mem \in [Mem -> MemState]
    BY Before
  <1>2. \A r \in D : /\ Frees(regs[r]) = Blocks(regs[r]) /\ Blocks(regs[r]) \subseteq Mem
                     /\ r \in Nat
    BY <1>1, NoStorages, FreesBlocks
  <1>3. OwnOK(mem, Own(regs, inputs, ret))
    BY DEF Runs, RInv
  <1>4. FreeIsSound(mem, regs, D)
    <2>1. \A r \in D : \A m \in Frees(regs[r]) : mem[m] = "vm"
      BY <1>2, <1>3, OwnedIsLive
    <2>2. ASSUME NEW r \in D, NEW q \in D, r # q
          PROVE  Frees(regs[r]) \cap Frees(regs[q]) = {}
      BY <1>2, <1>3, <2>2, OwnedOnce
    <2> QED
      BY <2>1, <2>2 DEF FreeIsSound
  <1>5. /\ mem' = h /\ regs' = <<>> /\ state' = "idle" /\ status' = k
        /\ UNCHANGED <<inputs, ret, func, pc, ok>>
    BY <1>4 DEF Fails, PopFrame
  <1>6. /\ h \in [Mem -> MemState]
        /\ \A m \in Mem : h[m] = IF m \in F THEN "free" ELSE mem[m]
    BY <1>1, <1>2 DEF Freed, MemState
  <1>7. Empties(mem, regs, ret, ret, F, h)
    <2>1. F \cap Blocks(ret) = {}
      BY <1>2, <1>3, OwnedOnce
    <2> HIDE DEF h
    <2> QED
      BY <1>2, <1>6, <2>1 DEF Empties
  <1> HIDE DEF D, F, h
  <1>8. DOMAIN <<>> = {}
    OBVIOUS
  <1>9. /\ OwnOK(h, Own(<<>>, inputs, ret))
        /\ \A m \in Mem : mem[m] \in {"user", "exec"} => h[m] = mem[m]
    BY <1>3, <1>7, <1>8, FrameGone
  <1>a. ForeignOK(mem)'
    BY <1>5, <1>9, RelayAssumption DEF Runs, RInv, ForeignOK
  <1> QED
    BY <1>5, <1>6, <1>8, <1>9, <1>a DEF Runs, RInv

(* So does an instruction that is not implemented.                         *)
LEMMA UnsupportedOK ==
  ASSUME NEW K, Runs(K), Unsupported
  PROVE  RInv(K)'
  <1>1. Instr.op = "Fatal" /\ Fails(ok)
    BY DEF Unsupported, Fetch
  <1>2. NoStorage(Kinds(K)) /\ ok \in {-1, 0, 1}
    BY <1>1, Before DEF Proper
  <1> QED
    BY <1>1, <1>2, FailsOK

(* Ret: the old result and the frame are freed, the new result is not.     *)
LEMMA RetOK ==
  ASSUME NEW K, Runs(K), Ret
  PROVE  RInv(K)'
  <1> DEFINE p == Instr.result
             value == regs[p]
             left == [regs EXCEPT ![p] = Nulled(value)]
             D == DOMAIN regs
             all == [l \in D \cup {-1} |-> IF l = -1 THEN ret ELSE left[l]]
             F == {m \in Mem : \/ m \in Blocks(ret)
                               \/ \E r \in D \ {p} : m \in Blocks(regs[r])}
             h1 == Freed(mem, all, {-1})
             h == Freed(h1, left, DOMAIN left)
  <1>1. /\ regs \in [Regs(func) -> Register] /\ D = Regs(func) /\ func \in Func
        /\ mem \in [Mem -> MemState] /\ -1 \notin D
    BY Before, RelayAssumption DEF Regs
  <1>2. /\ Instr.op = "Ret" /\ p \in Regs(func) /\ NoStorage(Kinds(K))
        /\ Kinds(K)[p] = "Input" => "copy" \notin Supply[func]
    BY Before DEF Proper, Ret, Fetch
  <1>3. \A r \in D : /\ Frees(regs[r]) = Blocks(regs[r]) /\ Blocks(regs[r]) \subseteq Mem
                     /\ r \in Nat /\ regs[r].tp # "Storage"
    BY <1>1, <1>2, NoStorages, FreesBlocks
  <1>4. OwnOK(mem, Own(regs, inputs, ret)) /\ ResultOK(ret)
    BY DEF Runs, RInv
  <1>5. Frees(ret) = Blocks(ret) /\ Blocks(ret) \subseteq Mem
    BY <1>4, FreesBlocks DEF ResultOK, FromUser, FromExec, Borrows, OwnedOK
  <1>6. value \in Register /\ Blocks(Nulled(value)) = {} /\ Frees(Nulled(value)) = {}
    BY <1>1, <1>2, NulledIs, FreesBlocks
  <1>7. /\ DOMAIN left = D /\ Frees(left[p]) = {}
        /\ \A r \in D : r # p => left[r] = regs[r]
    BY <1>1, <1>2, <1>6
  <1> HIDE DEF left, value
  <1>8. /\ DOMAIN all = D \cup {-1} /\ all[-1] = ret /\ \A r \in D : all[r] = left[r]
    BY <1>1
  <1> HIDE DEF all
  <1>9. FreeIsSound(mem, all, DOMAIN all)
    <2>1. \A m \in Blocks(ret) : mem[m] = "vm"
      BY <1>4, <1>5, OwnedIsLive
    <2>2. \A r \in D : \A m \in Blocks(regs[r]) : mem[m] = "vm"
      BY <1>3, <1>4, OwnedIsLive
    <2>3. \A r \in D : Blocks(ret) \cap Blocks(regs[r]) = {}
      BY <1>3, <1>4, <1>5, OwnedOnce
    <2>4. ASSUME NEW r \in D, NEW q \in D, r # q
          PROVE  Blocks(regs[q]) \cap Blocks(regs[r]) = {}
      BY <1>3, <1>4, <2>4, OwnedOnce
    <2>5. \A r \in D : Frees(all[r]) = IF r = p THEN {} ELSE Blocks(regs[r])
      BY <1>3, <1>7, <1>8
    <2>6. \A l \in DOMAIN all : \A m \in Frees(all[l]) : mem[m] = "vm"
      BY <1>5, <1>8, <2>1, <2>2, <2>5
    <2>7. ASSUME NEW l \in DOMAIN all, NEW k \in DOMAIN all, l # k
          PROVE  Frees(all[l]) \cap Frees(all[k]) = {}
      BY <1>5, <1>8, <2>3, <2>4, <2>5, <2>7
    <2> QED
      BY <2>6, <2>7 DEF FreeIsSound
  <1>a. /\ mem' = h /\ regs' = <<>> /\ ret' = value /\ state' = "idle" /\ status' = 0
        /\ UNCHANGED <<inputs, func, pc, ok>>
    BY <1>9 DEF Ret, PopFrame, left, value, all
  <1>b. /\ h \in [Mem -> MemState]
        /\ \A m \in Mem : h[m] = IF m \in F THEN "free" ELSE mem[m]
    <2>1. \A m \in Mem : h1[m] = IF m \in Blocks(ret) THEN "free" ELSE mem[m]
      BY <1>5, <1>8 DEF Freed
    <2> HIDE DEF h1
    <2>2. \A r \in D : Frees(left[r]) = IF r = p THEN {} ELSE Blocks(regs[r])
      BY <1>3, <1>7
    <2>3. \A m \in Mem : h[m] = IF \E r \in D \ {p} : m \in Blocks(regs[r])
                               THEN "free" ELSE h1[m]
      BY <1>7, <2>2 DEF Freed
    <2>4. DOMAIN h = Mem /\ h = [m \in Mem |-> h[m]]
      BY DEF Freed
    <2>5. \A m \in Mem : h[m] = IF m \in F THEN "free" ELSE mem[m]
      BY <2>1, <2>3
    <2> HIDE DEF h, F
    <2> QED
      BY <1>1, <2>4, <2>5 DEF MemState
  <1>c. Empties(mem, regs, ret, value, F, h)
    <2>1. \A m \in F : m \notin Blocks(value)
      BY <1>1, <1>2, <1>3, <1>4, OwnedOnce DEF value
    <2>2. \A m \in Mem : m \in Blocks(ret) \/ (\E r \in DOMAIN regs : m \in Blocks(regs[r]))
                      <=> m \in F \/ m \in Blocks(value)
      BY <1>1, <1>2 DEF value
    <2>3. DOMAIN regs \subseteq Nat
      BY <1>3
    <2> HIDE DEF h, F
    <2>4. \A m \in Mem : h[m] = IF m \in F THEN "free" ELSE mem[m]
      BY <1>b
    <2>5. F \subseteq Mem
      BY DEF F
    <2> QED
      BY <2>1, <2>2, <2>3, <2>4, <2>5 DEF Empties
  <1>d. ResultOK(value)
    <2>1. HasKind(value, Kinds(K)[p], func, inputs) /\ Kinds(K)[p] # "Storage"
      BY <1>2, Before DEF NoStorage, value
    <2>2. ASSUME Kinds(K)[p] = "Input", NEW i \in 0 .. NumParams[func] - 1
          PROVE  ~ OwnedOK(inputs[func][i])
      <3>1. InputOK(func, inputs[func][i])
        BY <1>1 DEF Runs, RInv, InputsOK
      <3> QED
        BY <1>2, <2>2, <3>1 DEF InputOK, OwnedOK, FromUser, Borrows
    <2> QED
      BY <1>6, <2>1, <2>2 DEF ResultOK, HasKind
  <1> HIDE DEF D, F, h
  <1>e. DOMAIN <<>> = {}
    OBVIOUS
  <1>f. /\ OwnOK(h, Own(<<>>, inputs, value))
        /\ \A m \in Mem : mem[m] \in {"user", "exec"} => h[m] = mem[m]
    BY <1>4, <1>c, <1>e, FrameGone
  <1>g. ForeignOK(mem)'
    BY <1>a, <1>f, RelayAssumption DEF Runs, RInv, ForeignOK
  <1> QED
    BY <1>a, <1>b, <1>d, <1>e, <1>f, <1>g DEF Runs, RInv

(* InvokePacked reads live tensors only; a run it ends frees its frame.    *)
LEMMA InvokePackedOK ==
  ASSUME NEW K, Runs(K), InvokePacked
  PROVE  RInv(K)'
  <1> DEFINE args == {regs[r] : r \in Instr.args}
             tensors == {a \in args : IsTensor(a)}
             answers == IF tensors # args THEN {-1}
                        ELSE {0} \cup {-1 : p \in {Instr.func} \cap MayFail}
  <1>1. Instr.op = "InvokePacked"
    BY DEF InvokePacked, Fetch
  <1>2. /\ Instr.args \subseteq Regs(func)
        /\ \/ NoStorage(Kinds(K))
           \/ Instr.func \notin MayFail /\ \A r \in Instr.args : Kinds(K)[r] \in SureTensor
        /\ After(Instr, Kinds(K)) = Kinds(K)
    BY <1>1, Before DEF Proper, After
  <1>3. \A r \in Regs(func) : /\ IsTensor(regs[r]) => Readable(mem, regs[r])
                              /\ Kinds(K)[r] \in SureTensor => IsTensor(regs[r])
    BY RegisterReadable DEF Runs, Kinds
  <1>4. PICK k \in answers : IF k = 0 THEN Goes(mem, regs, 0) ELSE Fails(k)
    <2>1. \A a \in tensors : Readable(mem, a)
      BY <1>2, <1>3
    <2> QED
      BY <2>1 DEF InvokePacked
  <1>5. CASE k = 0
    <2>1. Goes(mem, regs, 0)
      BY <1>4, <1>5
    <2>2. /\ mem \in [Mem -> MemState] /\ regs \in [Regs(func) -> Register]
          /\ \A r \in Regs(func) : HasKind(regs[r], After(Instr, Kinds(K))[r], func, inputs)
          /\ OwnOK(mem, Own(regs, inputs, ret))
      BY <1>2, Before DEF Runs, RInv
    <2> QED
      BY <1>1, <2>1, <2>2, GoesOK DEF Runs, Kinds
  <1>6. CASE k # 0
    <2>1. k = -1 /\ Fails(k)
      BY <1>4, <1>6
    <2>2. NoStorage(Kinds(K))
      BY <1>2, <1>3, <1>6
    <2> QED
      BY <2>1, <2>2, FailsOK
  <1> QED
    BY <1>5, <1>6

(* AllocStorage: the new block is owned by the register of the storage.    *)
LEMMA AllocStorageOK ==
  ASSUME NEW K, Runs(K), AllocStorage
  PROVE  RInv(K)'
  <1> DEFINE b == Instr.dst
             z == Instr.size
             m == Block1(mem)
             x == Tensor("Storage", m, Null, 0)
             h == [mem EXCEPT ![m] = "vm"]
             rs == [regs EXCEPT ![b] = x]
             k == Kinds(K)
  <1>1. Instr.op = "AllocStorage" /\ FreeBlocks(mem) # {}
    BY DEF AllocStorage, Fetch
  <1>2. /\ b \in Regs(func) /\ k[b] \in Overwritable /\ z \in Regs(func)
        /\ NoStorage(k) \/ (~ StorageMayFail /\ k[z] \in SureTensor)
        /\ After(Instr, k) = [k EXCEPT ![b] = "Storage"]
    BY <1>1, Before DEF Proper, After
  <1>3. /\ IsTensor(regs[z]) => Readable(mem, regs[z])
        /\ k[z] \in SureTensor => IsTensor(regs[z])
    BY <1>2, RegisterReadable DEF Runs, Kinds
  <1>4. PICK full \in BOOLEAN :
          /\ full => StorageMayFail
          /\ Loads(z, IF full THEN Fails(1) ELSE Goes(h, rs, 0))
    BY DEF AllocStorage
  <1>5. CASE ~ IsTensor(regs[z])
    <2>1. Fails(-1)
      BY <1>4, <1>5 DEF Loads
    <2> QED
      BY <1>2, <1>3, <1>5, <2>1, FailsOK
  <1>6. CASE IsTensor(regs[z]) /\ full
    <2>1. Fails(1)
      BY <1>3, <1>4, <1>6 DEF Loads
    <2> QED
      BY <1>2, <1>4, <1>6, <2>1, FailsOK
  <1>7. CASE IsTensor(regs[z]) /\ ~ full
    <2>1. Goes(h, rs, 0)
      BY <1>3, <1>4, <1>7 DEF Loads
    <2>2. m \in Mem /\ mem[m] = "free"
      BY <1>1, BlockFree
    <2>3. Blocks(regs[b]) = {}
      BY <1>2, Before, SMTT(60)
    <2>4. x \in Register /\ Blocks(x) = {m} /\ HasKind(x, "Storage", func, inputs)
      BY <2>2, RelayAssumption DEF Tensor, Register, Blocks, HasKind
    <2>5. /\ k \in [Regs(func) -> Kind] /\ regs \in [Regs(func) -> Register]
          /\ mem \in [Mem -> MemState]
      BY Before
    <2> HIDE DEF k, x, m
    <2>6. /\ h \in [Mem -> MemState]
          /\ \A c \in Mem : h[c] = IF c \in {m} THEN "vm" ELSE mem[c]
      BY <2>2, <2>5 DEF MemState
    <2>7. /\ rs \in [Regs(func) -> Register] /\ rs[b] = x
          /\ \A r \in Regs(func) : r # b => rs[r] = regs[r]
          /\ After(Instr, k)[b] = "Storage"
          /\ \A r \in Regs(func) : r # b => After(Instr, k)[r] = k[r]
      BY <1>2, <2>4, <2>5
    <2> HIDE DEF rs, h
    <2>8. Writes(K, rs, b, b)
      BY <1>2, <2>4, <2>7 DEF Writes, k
    <2>9. Touches(mem, regs, rs, func, b, b, {}, {m}, h)
      BY <1>2, <2>2, <2>3, <2>4, <2>5, <2>6, <2>7 DEF Touches
    <2> QED
      BY <1>1, <2>1, <2>6, <2>8, <2>9, WritesOK
  <1> QED
    BY <1>5, <1>6, <1>7

(* AllocTensor: the data moves from the storage to the tensor.             *)
LEMMA AllocTensorOK ==
  ASSUME NEW K, Runs(K), AllocTensor
  PROVE  RInv(K)'
  <1> DEFINE a == Instr.storage
             b == Instr.dst
             z == Instr.offset
             m == Block1(mem)
             s == regs[a]
             x == Tensor("Owned", s.data, m, 1)
             h == [mem EXCEPT ![m] = "vm"]
             rs == [regs EXCEPT ![b] = x, ![a] = Nulled(s)]
             k == Kinds(K)
  <1>1. Instr.op = "AllocTensor" /\ FreeBlocks(mem) # {}
    BY DEF AllocTensor, Fetch
  <1>2. /\ a \in Regs(func) /\ k[a] = "Storage"
        /\ b \in Regs(func) /\ k[b] \in Overwritable
        /\ z \in Regs(func) /\ k[z] \in SureTensor
        /\ After(Instr, k) = [k EXCEPT ![b] = "Owned", ![a] = "Null"]
    BY <1>1, Before DEF Proper, After
  <1>3. a # b
    BY <1>2 DEF Overwritable
  <1>4. /\ k \in [Regs(func) -> Kind] /\ regs \in [Regs(func) -> Register]
        /\ mem \in [Mem -> MemState] /\ func \in Func
    BY Before
  <1>5. Goes(h, rs, 0)
    <2>1. IsTensor(regs[z]) /\ Readable(mem, regs[z])
      BY <1>2, RegisterReadable DEF Runs, Kinds
    <2>2. Goes(h, [regs EXCEPT ![b] = x, ![a] = Nulled(@)], 0)
      BY <2>1 DEF AllocTensor, Loads
    <2>3. [regs EXCEPT ![b] = x, ![a] = Nulled(@)] = rs
      BY <1>3
    <2> QED
      BY <2>2, <2>3
  <1>6. m \in Mem /\ mem[m] = "free"
    BY <1>1, BlockFree
  <1>7. s \in Register /\ s.data \in Mem /\ Blocks(s) = {s.data} /\ Blocks(regs[b]) = {}
    <2>1. HasKind(s, "Storage", func, inputs) /\ s \in Register /\ Blocks(regs[b]) = {}
      BY <1>2, Before
    <2> QED
      BY <2>1, KindBlocks
  <1>8. s.data # m
    <2>1. a \in DOMAIN regs /\ a \in Nat /\ OwnOK(mem, Own(regs, inputs, ret))
      BY <1>2, <1>4, RelayAssumption DEF Runs, RInv, Regs
    <2>2. mem[s.data] = "vm"
      BY <1>7, <2>1, OwnedIsLive
    <2> QED
      BY <1>6, <2>2
  <1>9. /\ x \in Register /\ Blocks(x) = {s.data, m}
        /\ HasKind(x, "Owned", func, inputs)
    BY <1>6, <1>7, <1>8, RelayAssumption DEF Tensor, Register, Blocks, HasKind, OwnedOK
  <1>a. /\ Nulled(s) \in Register /\ Blocks(Nulled(s)) = {}
        /\ HasKind(Nulled(s), "Null", func, inputs)
    BY <1>7, NulledIs
  <1> HIDE DEF k, x, m
  <1>b. /\ h \in [Mem -> MemState]
        /\ \A c \in Mem : h[c] = IF c \in {m} THEN "vm" ELSE mem[c]
    BY <1>4, <1>6 DEF MemState
  <1>c. /\ rs \in [Regs(func) -> Register] /\ rs[b] = x /\ rs[a] = Nulled(s)
        /\ \A r \in Regs(func) : r \notin {a, b} => rs[r] = regs[r]
    BY <1>2, <1>3, <1>4, <1>9, <1>a
  <1>d. /\ After(Instr, k)[b] = "Owned" /\ After(Instr, k)[a] = "Null"
        /\ \A r \in Regs(func) : r \notin {a, b} => After(Instr, k)[r] = k[r]
    BY <1>2, <1>3, <1>4
  <1> HIDE DEF rs, h
  <1>e. Writes(K, rs, a, b)
    BY <1>2, <1>9, <1>a, <1>c, <1>d DEF Writes, k
  <1>f. Touches(mem, regs, rs, func, a, b, {}, {m}, h)
    BY <1>2, <1>4, <1>6, <1>7, <1>9, <1>a, <1>b, <1>c DEF Touches
  <1> QED
    BY <1>1, <1>5, <1>b, <1>e, <1>f, WritesOK

(* ReshapeTensor: the old shape is freed, and the new one was read from    *)
(* something else.                                                         *)
LEMMA ReshapeTensorOK ==
  ASSUME NEW K, Runs(K), ReshapeTensor
  PROVE  RInv(K)'
  <1> DEFINE a == Instr.tensor
             b == Instr.dst
             z == Instr.shape
             s == regs[a]
             g == [c \in Mem |-> IF c = s.shape THEN "free" ELSE mem[c]]
             m == Block1(g)
             x == [s EXCEPT !.shape = m]
             h == [g EXCEPT ![m] = "vm"]
             moved == [regs EXCEPT ![b] = s, ![a].tp = "Null"]
             rs == [moved EXCEPT ![b].shape = m]
             k == Kinds(K)
  <1>1. Instr.op = "ReshapeTensor"
    BY DEF ReshapeTensor, Fetch
  <1>2. /\ a \in Regs(func) /\ k[a] = "Owned"
        /\ z \in Regs(func) /\ k[z] \in SureTensor /\ z # a
        /\ b \in Regs(func) /\ k[b] \in Overwritable /\ z # b
        /\ After(Instr, k) = [k EXCEPT ![b] = "Owned", ![a] = "Null"]
    BY <1>1, Before DEF Proper, After
  <1>3. a # b
    BY <1>2 DEF Overwritable
  <1>4. /\ k \in [Regs(func) -> Kind] /\ regs \in [Regs(func) -> Register]
        /\ mem \in [Mem -> MemState] /\ func \in Func /\ ok \in {-1, 0, 1}
        /\ \A r \in Regs(func) : r \in Nat /\ r \in DOMAIN regs
    BY Before, RelayAssumption DEF Regs
  <1>5. /\ s \in Register /\ OwnedOK(s) /\ Blocks(s) = {s.data, s.shape}
        /\ Blocks(regs[b]) = {}
    <2>1. HasKind(s, "Owned", func, inputs) /\ s \in Register
          /\ Blocks(regs[b]) = {}
      BY <1>2, Before, SMTT(60)
    <2> QED
      BY <2>1, KindBlocks
  <1>6. OwnOK(mem, Own(regs, inputs, ret)) /\ ForeignOK(mem)
    BY DEF Runs, RInv
  <1>7. /\ s.shape \in Mem /\ mem[s.shape] = "vm"
        /\ s.data \in Mem /\ mem[s.data] = "vm" /\ s.data # s.shape
    BY <1>2, <1>4, <1>5, <1>6, OwnedIsLive DEF OwnedOK
  <1>8. m \in Mem /\ g[m] = "free"
    <2>1. s.shape \in FreeBlocks(g)
      BY <1>7 DEF FreeBlocks
    <2> HIDE DEF g
    <2> QED
      BY <2>1, BlockFree
  <1>9. m # s.data /\ (m = s.shape \/ mem[m] = "free")
    BY <1>7, <1>8
  <1>a. Readable(g, regs[z])
    <2>1. HasKind(regs[z], k[z], func, inputs) /\ (k[z] = "Const" \/ k[z] = "Owned")
      BY <1>2, Before DEF SureTensor
    <2>2. {ExecData, ExecShape} \subseteq Mem /\ Null \notin Mem
      BY RelayAssumption
    <2>3. CASE FromExec(regs[z])
      BY <1>6, <1>7, <2>2, <2>3 DEF FromExec, Borrows, Readable, ForeignOK
    <2>4. CASE OwnedOK(regs[z])
      <3>1. Blocks(regs[z]) = {regs[z].data, regs[z].shape}
        BY <2>4, KindBlocks
      <3>2. \A c \in Blocks(regs[z]) : c \in Mem => mem[c] = "vm"
        BY <1>2, <1>4, <1>6, OwnedIsLive
      <3>3. s.shape \notin Blocks(regs[z])
        BY <1>2, <1>4, <1>5, <1>6, <1>7, OwnedOnce
      <3> QED
        BY <2>2, <2>4, <3>1, <3>2, <3>3 DEF OwnedOK, Readable
    <2> QED
      BY <2>1, <2>3, <2>4, KindBlocks
  <1>d. /\ Nulled(s) \in Register /\ Blocks(Nulled(s)) = {}
        /\ HasKind(Nulled(s), "Null", func, inputs)
    BY <1>5, NulledIs
  <1>j. /\ moved \in [Regs(func) -> Register]
        /\ moved[b] = s /\ moved[a] = Nulled(s)
        /\ \A r \in Regs(func) : r \notin {a, b} => moved[r] = regs[r]
    BY <1>2, <1>3, <1>4, <1>5, <1>d DEF Nulled
  <1>b. Goes(h, rs, ok)
    <2>1. moved[z] = regs[z]
      BY <1>2, <1>j
    <2> QED
      BY <2>1, <1>7, <1>a DEF ReshapeTensor
  <1>c. /\ x \in Register /\ Blocks(x) = {s.data, m}
        /\ HasKind(x, "Owned", func, inputs)
    <2>1. x \in Register /\ x.tp = "Owned" /\ x.data = s.data /\ x.shape = m
      BY <1>5, <1>8 DEF Register, OwnedOK
    <2> HIDE DEF x
    <2> QED
      BY <1>7, <1>8, <1>9, <2>1, RelayAssumption DEF Blocks, HasKind, OwnedOK
  <1>k. /\ rs \in [Regs(func) -> Register] /\ rs[b] = x /\ rs[a] = Nulled(s)
        /\ \A r \in Regs(func) : r \notin {a, b} => rs[r] = regs[r]
    <2>1. rs[b] = x
      BY <1>2, <1>j
    <2> HIDE DEF x, m
    <2>2. [moved EXCEPT ![b] = x] = rs
      BY <1>2, <1>j, <2>1
    <2> QED
      BY <1>2, <1>3, <1>c, <1>j, <2>2
  <1> HIDE DEF k, x, m, moved
  <1>e. /\ h \in [Mem -> MemState]
        /\ \A c \in Mem : h[c] = IF c \in {m} THEN "vm"
                                 ELSE IF c \in {s.shape} THEN "free" ELSE mem[c]
    BY <1>4, <1>8 DEF MemState
  <1>g. /\ After(Instr, k)[b] = "Owned" /\ After(Instr, k)[a] = "Null"
        /\ \A r \in Regs(func) : r \notin {a, b} => After(Instr, k)[r] = k[r]
    BY <1>2, <1>3, <1>4
  <1> HIDE DEF rs, h
  <1>h. Writes(K, rs, a, b)
    <2>1. HasKind(rs[a], After(Instr, k)[a], func, inputs)
      BY <1>d, <1>g, <1>k
    <2> QED
      BY <2>1, <1>2, <1>c, <1>g, <1>k DEF Writes, k
  <1>i. Touches(mem, regs, rs, func, a, b, {s.shape}, {m}, h)
    BY <1>2, <1>3, <1>4, <1>5, <1>7, <1>8, <1>9, <1>c, <1>d, <1>e, <1>k DEF Touches
  <1> QED
    BY <1>1, <1>4, <1>b, <1>e, <1>h, <1>i, WritesOK

(* Every instruction keeps the invariant. *)
LEMMA StepOK ==
  ASSUME NEW K, Typing(K), RInv(K), Step
  PROVE  RInv(K)'
  <1>1. Runs(K)
    BY DEF Step, Move, Ret, InvokePacked, AllocStorage, AllocTensor, LoadConst,
           ReshapeTensor, KillRegister, Unsupported, Fetch, Runs
  <1> QED
    BY <1>1, MoveOK, RetOK, InvokePackedOK, AllocStorageOK, AllocTensorOK,
       LoadConstOK, ReshapeTensorOK, KillOK, UnsupportedOK DEF Step

-----------------------------------------------------------------------------
(* The calls of the user.                                                  *)

(* One input register is set; the blocks of the old register in F are      *)
(* freed and those of N allocated.                                         *)
SetsOne(h, is, is2, f, i, F, N, h2) ==
  /\ f \in Func /\ i \in 0 .. NumParams[f] - 1
  /\ \A g \in Func : \A j \in 0 .. NumParams[g] - 1 :
       g # f \/ j # i => is2[g][j] = is[g][j]
  /\ F \subseteq Mem /\ N \subseteq Mem
  /\ F = Blocks(is[f][i]) /\ N = Blocks(is2[f][i])
  /\ \A m \in N : h[m] = "free"
  /\ \A m \in Mem : h2[m] = IF m \in N THEN "vm" ELSE IF m \in F THEN "free" ELSE h[m]

(* Then each block has one owner again.                                    *)
LEMMA InputSet ==
  ASSUME NEW h, NEW rs, NEW is, NEW is2, NEW v, NEW f, NEW i, NEW F, NEW N, NEW h2,
         OwnOK(h, Own(rs, is, v)), SetsOne(h, is, is2, f, i, F, N, h2)
  PROVE  /\ OwnOK(h2, Own(rs, is2, v))
         /\ \A m \in Mem : h[m] \in {"user", "exec"} => h2[m] = h[m]
  <1> USE DEF SetsOne
  <1> DEFINE O == Own(rs, is, v)
             O2 == Own(rs, is2, v)
             p == <<f, i>>
             A == {p}
  <1>1. O[p] = F /\ O2[p] = N /\ A \in SUBSET Loc
    BY OwnAt, Locations
  <1>2. ASSUME NEW l \in Loc, l # p
        PROVE  O2[l] = O[l]
    <2>1. CASE \E r \in Nat : l = <<"frame", r>>
      BY <2>1, OwnAt
    <2>2. CASE l = <<NoFunc, 0>>
      BY <2>2, OwnAt
    <2>3. CASE \E g \in Func : \E j \in 0 .. NumParams[g] - 1 : l = <<g, j>>
      <3>1. PICK g \in Func : \E j \in 0 .. NumParams[g] - 1 : l = <<g, j>>
        BY <2>3
      <3>2. PICK j \in 0 .. NumParams[g] - 1 : l = <<g, j>>
        BY <3>1
      <3>3. is2[g][j] = is[g][j]
        BY <1>2, <3>2
      <3>4. O2[l] = Blocks(is2[g][j]) /\ O[l] = Blocks(is[g][j])
        BY <3>2, OwnAt
      <3> QED
        BY <3>3, <3>4
    <2> QED
      BY <2>1, <2>2, <2>3, Locations
  <1>3. OwnOK(h, O)
    OBVIOUS
  <1> HIDE DEF O, O2, p
  <1>4. Rearranges(h, O, A, F, N, h2, O2)
    <2>1. \A m \in Mem : (\E l \in A : m \in O2[l]) <=>
                          m \in N \/ (m \notin F /\ \E l \in A : m \in O[l])
      BY <1>1
    <2> QED
      BY <1>1, <1>2, <2>1 DEF Rearranges
  <1> QED
    BY <1>3, <1>4, Rearranged DEF O2

IsSet(is, is2, f, i, r) == is2 = [is EXCEPT ![f][i] = r]

(* An input register that is set, and the ones that are not.               *)
LEMMA InputsTyped ==
  ASSUME NEW is, InputsOK(is), NEW f \in Func, NEW i \in 0 .. NumParams[f] - 1,
         NEW r \in Register, InputOK(f, r),
         NEW is2, IsSet(is, is2, f, i, r)
  PROVE  /\ InputsOK(is2)
         /\ is2[f][i] = r
         /\ \A g \in Func : \A j \in 0 .. NumParams[g] - 1 :
              g # f \/ j # i => is2[g][j] = is[g][j]
         /\ r = is[f][i] => is2 = is
  <1>1. is = [g \in Func |-> is[g]] /\ DOMAIN is = Func
    BY DEF InputsOK
  <1>2. \A g \in Func : is[g] \in [0 .. NumParams[g] - 1 -> Register]
    BY DEF InputsOK
  <1>3. /\ is2 = [g \in Func |-> is2[g]]
        /\ is2[f] = [is[f] EXCEPT ![i] = r]
        /\ \A g \in Func : g # f => is2[g] = is[g]
    BY <1>1 DEF IsSet
  <1>4. /\ is2[f] \in [0 .. NumParams[f] - 1 -> Register] /\ is2[f][i] = r
        /\ \A j \in 0 .. NumParams[f] - 1 : j # i => is2[f][j] = is[f][j]
    BY <1>2, <1>3, ZenonT(60)
  <1>5. r = is[f][i] => is2 = is
    <2>1. [is[f] EXCEPT ![i] = is[f][i]] = is[f]
      BY <1>2
    <2> QED
      BY <1>1, <1>3, <2>1
  <1>6. \A g \in Func : \A j \in 0 .. NumParams[g] - 1 : InputOK(g, is2[g][j])
    BY <1>3, <1>4 DEF InputsOK
  <1>7. InputsOK(is2)
    BY <1>2, <1>3, <1>4, <1>6 DEF InputsOK
  <1>8. \A g \in Func : \A j \in 0 .. NumParams[g] - 1 :
          g # f \/ j # i => is2[g][j] = is[g][j]
    BY <1>3, <1>4
  <1> QED
    BY <1>4, <1>5, <1>7, <1>8

(* What the machine may suppose of the input it replaces. *)
LEMMA OldInput ==
  ASSUME NEW K, RInv(K), NEW f \in Func, NEW i \in 0 .. NumParams[f] - 1
  PROVE  /\ InputsOK(inputs) /\ inputs[f][i] \in Register /\ InputOK(f, inputs[f][i])
         /\ Blocks(inputs[f][i]) \subseteq Mem
         /\ Frees(inputs[f][i]) = Blocks(inputs[f][i])
         /\ \A m \in Blocks(inputs[f][i]) : mem[m] = "vm"
         /\ OwnOK(mem, Own(regs, inputs, ret))
         /\ inputs[f][i].tp # "Owned" => Blocks(inputs[f][i]) = {}
         /\ inputs[f][i].tp = "Owned" => OwnedOK(inputs[f][i])
  <1>1. InputsOK(inputs) /\ OwnOK(mem, Own(regs, inputs, ret))
    BY DEF RInv
  <1>2. inputs[f][i] \in Register /\ InputOK(f, inputs[f][i])
    BY <1>1 DEF InputsOK
  <1>3. inputs[f][i].tp # "Storage"
    BY <1>2 DEF InputOK, FromUser, Borrows, OwnedOK
  <1>4. /\ Blocks(inputs[f][i]) \subseteq Mem
        /\ Frees(inputs[f][i]) = Blocks(inputs[f][i])
    BY <1>2, <1>3, FreesBlocks
  <1>5. \A m \in Blocks(inputs[f][i]) : mem[m] = "vm"
    BY <1>1, <1>4, OwnedIsLive
  <1>6. inputs[f][i].tp # "Owned" => Blocks(inputs[f][i]) = {}
    BY <1>3 DEF Blocks
  <1>7. inputs[f][i].tp = "Owned" => OwnedOK(inputs[f][i])
    BY <1>2 DEF InputOK, FromUser, Borrows
  <1> QED
    BY <1>1, <1>2, <1>4, <1>5, <1>6, <1>7

(* Setting an input keeps the invariant if what it owned was freed.        *)
LEMMA SetsInputOK ==
  ASSUME NEW K, RInv(K), state = "idle",
         NEW f \in Func, NEW i \in 0 .. NumParams[f] - 1,
         NEW h \in [Mem -> MemState], NEW r \in Register, InputOK(f, r),
         SetsInput(f, i, h, r),
         NEW F, NEW N, SetsOne(mem, inputs, [inputs EXCEPT ![f][i] = r], f, i, F, N, h)
  PROVE  RInv(K)'
  <1>1. /\ mem' = h /\ inputs' = [inputs EXCEPT ![f][i] = r]
        /\ UNCHANGED <<regs, frame_stack_size, ret, func, pc, state, status, ok>>
    BY DEF SetsInput
  <1>2. InputsOK(inputs)'
    <2>1. IsSet(inputs, inputs', f, i, r)
      BY <1>1 DEF IsSet
    <2>2. InputsOK(inputs)
      BY OldInput
    <2> QED
      BY <2>1, <2>2, InputsTyped
  <1> DEFINE is2 == [inputs EXCEPT ![f][i] = r]
  <1> HIDE DEF is2
  <1>3. /\ OwnOK(h, Own(regs, is2, ret))
        /\ \A m \in Mem : mem[m] \in {"user", "exec"} => h[m] = mem[m]
    BY OldInput, InputSet DEF is2
  <1>4. OwnOK(mem', Own(regs', inputs', ret'))
    BY <1>1, <1>3 DEF is2
  <1>5. ForeignOK(mem)'
    BY <1>1, <1>3, RelayAssumption DEF RInv, ForeignOK
  <1> QED
    BY <1>1, <1>2, <1>4, <1>5 DEF RInv

(* An input that is borrowed replaces one that owned nothing.              *)
LEMMA BorrowOK ==
  ASSUME NEW K, RInv(K), SuppliesOneKind,
         NEW f \in Func, NEW i \in 0 .. NumParams[f] - 1,
         "borrow" \in Supply[f], Borrow(f, i)
  PROVE  RInv(K)'
  <1> DEFINE r == Tensor("Borrowed", UserData, UserShape, 1)
             is2 == [inputs EXCEPT ![f][i] = r]
  <1>1. state = "idle" /\ SetsInput(f, i, mem, r)
    BY DEF Borrow, SetsInput
  <1>2. r \in Register /\ InputOK(f, r) /\ Blocks(r) = {}
    BY RelayAssumption DEF Tensor, Register, InputOK, FromUser, Borrows, Blocks
  <1>3. Blocks(inputs[f][i]) = {}
    <2>1. "copy" \notin Supply[f]
      BY DEF SuppliesOneKind
    <2> QED
      BY <2>1, OldInput DEF InputOK, OwnedOK, FromUser, Borrows
  <1>4. mem \in [Mem -> MemState]
    BY DEF RInv
  <1> HIDE DEF r
  <1>5. SetsOne(mem, inputs, is2, f, i, {}, {}, mem)
    <2>1. /\ is2[f][i] = r
          /\ \A g \in Func : \A j \in 0 .. NumParams[g] - 1 :
               g # f \/ j # i => is2[g][j] = inputs[g][j]
      <3>1. InputsOK(inputs)
        BY OldInput
      <3>2. IsSet(inputs, is2, f, i, r)
        BY DEF IsSet
      <3> HIDE DEF is2
      <3> QED
        BY <1>2, <3>1, <3>2, InputsTyped
    <2> HIDE DEF is2
    <2> QED
      BY <1>2, <1>3, <2>1 DEF SetsOne
  <1> QED
    BY <1>1, <1>2, <1>4, <1>5, SetsInputOK

(* Two blocks are free. *)
LEMMA TwoFree ==
  ASSUME NEW h, Cardinality(FreeBlocks(h)) >= 2
  PROVE  /\ Block1(h) \in Mem /\ h[Block1(h)] = "free"
         /\ Block2(h) \in Mem /\ h[Block2(h)] = "free" /\ Block1(h) # Block2(h)
  <1>1. IsFiniteSet(FreeBlocks(h))
    <2>1. FreeBlocks(h) \subseteq Mem /\ IsFiniteSet(Mem)
      BY RelayAssumption DEF FreeBlocks
    <2> QED
      BY <2>1, FS_Subset
  <1>2. FreeBlocks(h) # {}
    BY FS_EmptySet
  <1>3. FreeBlocks(h) \ {Block1(h)} # {}
    <2>1. Cardinality(FreeBlocks(h) \ {Block1(h)}) =
            IF Block1(h) \in FreeBlocks(h) THEN Cardinality(FreeBlocks(h)) - 1
                                          ELSE Cardinality(FreeBlocks(h))
      BY <1>1, FS_RemoveElement
    <2>2. Cardinality(FreeBlocks(h)) \in Nat
      BY <1>1, FS_CardinalityType
    <2>3. ASSUME FreeBlocks(h) \ {Block1(h)} = {}
          PROVE  FALSE
      <3>1. Cardinality(FreeBlocks(h) \ {Block1(h)}) = 0
        BY <2>3, FS_EmptySet
      <3> QED
        BY <2>1, <2>2, <3>1
    <2> QED
      BY <2>3
  <1>4. Block1(h) \in FreeBlocks(h)
    BY <1>2 DEF Block1
  <1>5. Block2(h) \in FreeBlocks(h) \ {Block1(h)}
    BY <1>3 DEF Block2
  <1> QED
    BY <1>4, <1>5 DEF FreeBlocks

(* CopyIn keeps the tensor if it fits, and frees and replaces it if not.   *)
LEMMA CopyInOK ==
  ASSUME NEW K, RInv(K), ~ InputMayFail,
         NEW f \in Func, NEW i \in 0 .. NumParams[f] - 1,
         "copy" \in Supply[f], NEW n \in Bytes, CopyIn(f, i, n)
  PROVE  RInv(K)'
  <1> DEFINE old == inputs[f][i]
             h == Freed(mem, inputs[f], {i})
             m == Block1(mem)
             s == Block2(mem)
             new == Tensor("Owned", m, s, n)
             full == Tensor("Owned", Null, old.shape, n)
             h2 == [h EXCEPT ![m] = "vm", ![s] = "vm"]
             is2 == [inputs EXCEPT ![f][i] = new]
  <1>1. state = "idle" /\ mem \in [Mem -> MemState]
    BY DEF CopyIn, RInv
  <1>2. /\ m \in Mem /\ mem[m] = "free" /\ s \in Mem /\ mem[s] = "free" /\ m # s
    BY TwoFree DEF CopyIn
  <1>3. CASE old.tp = "Owned" /\ old.shape # Null /\ mem[old.shape] = "free"
    <2>1. OwnedOK(old) /\ Blocks(old) = {old.data, old.shape}
      BY <1>3, OldInput, KindBlocks
    <2>2. mem[old.shape] = "vm"
      BY <2>1, OldInput
    <2> QED
      BY <1>3, <2>2
  <1>4. CASE /\ ~ (old.tp = "Owned" /\ old.shape # Null /\ mem[old.shape] = "free")
             /\ old.tp = "Owned" /\ old.bytes = n
    <2>1. SetsInput(f, i, mem, old)
      BY <1>4 DEF CopyIn
    <2>2. /\ IsSet(inputs, inputs', f, i, old) /\ mem' = mem
          /\ UNCHANGED <<regs, frame_stack_size, ret, func, pc, state, status, ok>>
      BY <2>1 DEF SetsInput, IsSet
    <2>3. inputs' = inputs
      BY <2>2, OldInput, InputsTyped
    <2> QED
      BY <1>1, <2>2, <2>3 DEF RInv
  <1>5. CASE /\ ~ (old.tp = "Owned" /\ old.shape # Null /\ mem[old.shape] = "free")
             /\ ~ (old.tp = "Owned" /\ old.bytes = n)
    <2>1. SetsInput(f, i, h2, new)
      BY <1>5 DEF CopyIn
    <2>2. n \in Nat /\ Null \notin Mem
      BY RelayAssumption
    <2>3. new \in Register /\ OwnedOK(new) /\ InputOK(f, new) /\ Blocks(new) = {m, s}
      BY <1>2, <2>2 DEF Tensor, Register, OwnedOK, InputOK, Blocks
    <2>4. /\ h \in [Mem -> MemState]
          /\ \A c \in Mem : h[c] = IF c \in Blocks(old) THEN "free" ELSE mem[c]
      BY <1>1, OldInput DEF Freed, MemState
    <2> HIDE DEF h, m, s, new
    <2>5. /\ h2 \in [Mem -> MemState]
          /\ \A c \in Mem : h2[c] = IF c \in {m, s} THEN "vm"
                                    ELSE IF c \in Blocks(old) THEN "free" ELSE mem[c]
      BY <1>2, <2>4 DEF MemState
    <2> HIDE DEF h2
    <2>6. SetsOne(mem, inputs, is2, f, i, Blocks(old), {m, s}, h2)
      <3>1. /\ is2[f][i] = new
            /\ \A g \in Func : \A j \in 0 .. NumParams[g] - 1 :
                 g # f \/ j # i => is2[g][j] = inputs[g][j]
        <4>1. InputsOK(inputs)
          BY OldInput
        <4>2. IsSet(inputs, is2, f, i, new)
          BY DEF IsSet
        <4> HIDE DEF is2
        <4> QED
          BY <2>3, <4>1, <4>2, InputsTyped
      <3>2. Blocks(old) \subseteq Mem
        BY OldInput
      <3> HIDE DEF is2
      <3> QED
        BY <1>2, <2>3, <2>5, <3>1, <3>2 DEF SetsOne
    <2> QED
      BY <1>1, <2>1, <2>3, <2>5, <2>6, SetsInputOK
  <1> QED
    BY <1>3, <1>4, <1>5

(* Registers that own nothing. *)
LEMMA OwnNothing ==
  ASSUME NEW h, NEW rs, NEW rs2, NEW is, NEW v, OwnOK(h, Own(rs, is, v)),
         DOMAIN rs = {}, \A r \in DOMAIN rs2 : Blocks(rs2[r]) = {}
  PROVE  OwnOK(h, Own(rs2, is, v))
  <1>1. ASSUME NEW l \in Loc
        PROVE  Own(rs2, is, v)[l] = Own(rs, is, v)[l]
    <2>1. CASE \E r \in Nat : l = <<"frame", r>>
      <3>1. PICK r \in Nat : l = <<"frame", r>>
        BY <2>1
      <3>2. Own(rs2, is, v)[l] = {} /\ Own(rs, is, v)[l] = {}
        BY <3>1, OwnAt
      <3> QED
        BY <3>2
    <2>2. CASE l = <<NoFunc, 0>>
      BY <2>2, OwnAt
    <2>3. CASE \E f \in Func : \E i \in 0 .. NumParams[f] - 1 : l = <<f, i>>
      BY <2>3, OwnAt
    <2> QED
      BY <2>1, <2>2, <2>3, Locations
  <1> QED
    BY <1>1 DEF OwnOK

(* The registers of a new frame own nothing: they borrow the inputs.       *)
LEMMA RunOK ==
  ASSUME NEW K, Typing(K), RInv(K), NEW f \in Callable, Run(f)
  PROVE  RInv(K)'
  <1> DEFINE rs == [r \in 0 .. NumRegs[f] - 1 |->
                IF r < NumParams[f] THEN Lent(inputs[f][r]) ELSE Empty]
  <1>1. /\ state = "idle" /\ state' = "running" /\ regs' = rs /\ func' = f
        /\ pc' = 0 /\ ok' = -1 /\ UNCHANGED <<mem, inputs, ret, status>>
    BY DEF Run
  <1>2. f \in Func /\ NumParams[f] \in Nat /\ NumRegs[f] \in Nat /\ NumParams[f] <= NumRegs[f]
    BY RelayAssumption
  <1>3. K[f][1] = [r \in Regs(f) |-> IF r < NumParams[f] THEN "Input" ELSE "Null"]
        /\ 1 \in DOMAIN Code[f]
    BY DEF Typing
  <1>4. InputsOK(inputs) /\ DOMAIN regs = {} /\ OwnOK(mem, Own(regs, inputs, ret))
    BY <1>1 DEF RInv
  <1>5. ASSUME NEW r \in Regs(f)
        PROVE  /\ rs[r] \in Register /\ HasKind(rs[r], K[f][1][r], f, inputs)
               /\ Blocks(rs[r]) = {}
    <2>1. CASE r < NumParams[f]
      <3> DEFINE x == inputs[f][r]
      <3>1. r \in 0 .. NumParams[f] - 1
        BY <1>2, <2>1 DEF Regs
      <3>2. x \in Register /\ InputOK(f, x)
        BY <1>2, <1>4, <3>1 DEF InputsOK
      <3>3. rs[r] = Lent(x) /\ K[f][1][r] = "Input"
        BY <1>3, <2>1 DEF Regs
      <3>4. Lent(x) \in Register /\ Blocks(Lent(x)) = {}
        BY <3>2 DEF Lent, Register, InputOK, FromUser, Borrows, OwnedOK, Blocks
      <3>5. \/ Lent(x).tp = "Null" \/ FromUser(Lent(x))
            \/ OwnedOK(x) /\ Borrows(Lent(x), x.data, x.shape)
        BY <3>2 DEF Lent, Register, InputOK, FromUser, Borrows, OwnedOK
      <3> QED
        BY <3>1, <3>3, <3>4, <3>5 DEF HasKind
    <2>2. CASE ~ (r < NumParams[f])
      <3>1. rs[r] = Empty /\ K[f][1][r] = "Null"
        BY <1>3, <2>2 DEF Regs
      <3>2. Empty \in Register /\ Blocks(Empty) = {} /\ Empty.tp = "Null"
        BY DEF Empty, Register, Blocks
      <3> QED
        BY <3>1, <3>2 DEF HasKind
    <2> QED
      BY <2>1, <2>2
  <1>6. rs \in [Regs(f) -> Register] /\ DOMAIN rs = Regs(f)
    <2>1. rs = [r \in Regs(f) |-> rs[r]]
      BY DEF Regs
    <2> HIDE DEF rs
    <2> QED
      BY <1>5, <2>1
  <1> HIDE DEF rs
  <1>7. OwnOK(mem, Own(rs, inputs, ret))
    BY <1>4, <1>5, <1>6, OwnNothing
  <1>8. FrameOK(K)'
    <2>1. 0 + 1 = 1
      OBVIOUS
    <2> QED
      BY <1>1, <1>3, <1>5, <1>6, <2>1 DEF FrameOK
  <1> QED
    BY <1>1, <1>2, <1>7, <1>8 DEF RInv, ForeignOK

(* What is kept between runs is readable. *)
LEMMA KeptReadable ==
  ASSUME NEW K, RInv(K)
  PROVE  /\ IsTensor(ret) => Readable(mem, ret)
         /\ \A f \in Func : \A i \in 0 .. NumParams[f] - 1 :
              IsTensor(inputs[f][i]) => Readable(mem, inputs[f][i])
  <1>1. /\ InputsOK(inputs) /\ ResultOK(ret) /\ OwnOK(mem, Own(regs, inputs, ret))
        /\ state # "freed" => ForeignOK(mem)
        /\ state = "freed" =>
             /\ ret.tp = "Null"
             /\ \A f \in Func : \A i \in 0 .. NumParams[f] - 1 : inputs[f][i].tp = "Null"
    BY DEF RInv
  <1>2. {UserData, UserShape, ExecData, ExecShape} \subseteq Mem /\ Null \notin Mem
    BY RelayAssumption
  <1>3. ASSUME NEW r, FromUser(r) \/ FromExec(r), state # "freed"
        PROVE  Readable(mem, r)
    BY <1>1, <1>2, <1>3 DEF FromUser, FromExec, Borrows, Readable, ForeignOK
  <1>4. ASSUME NEW r, OwnedOK(r), \A m \in Blocks(r) : m \in Mem => mem[m] = "vm"
        PROVE  Readable(mem, r)
    BY <1>2, <1>4, KindBlocks DEF OwnedOK, Readable
  <1>5. IsTensor(ret) => Readable(mem, ret)
    <2>1. \A m \in Blocks(ret) : m \in Mem => mem[m] = "vm"
      BY <1>1, OwnedIsLive
    <2> QED
      BY <1>1, <1>3, <1>4, <2>1 DEF ResultOK, IsTensor
  <1>6. ASSUME NEW f \in Func, NEW i \in 0 .. NumParams[f] - 1, IsTensor(inputs[f][i])
        PROVE  Readable(mem, inputs[f][i])
    <2>1. \A m \in Blocks(inputs[f][i]) : m \in Mem => mem[m] = "vm"
      BY <1>1, OwnedIsLive
    <2>2. InputOK(f, inputs[f][i])
      BY <1>1 DEF InputsOK
    <2> QED
      BY <1>1, <1>3, <1>4, <1>6, <2>1, <2>2 DEF InputOK, IsTensor
  <1> QED
    BY <1>5, <1>6

(* A location of what is kept, and the register there. *)
LEMMA KeptAt ==
  ASSUME NEW l \in KeptLocs
  PROVE  \/ l = <<NoFunc, 0>> /\ Kept[l] = ret
         \/ \E f \in Func : \E i \in 0 .. NumParams[f] - 1 :
              l = <<f, i>> /\ Kept[l] = inputs[f][i]
  BY RelayAssumption DEF KeptLocs, Kept

(* What it owns is what Free frees.                                        *)
LEMMA KeptOwn ==
  ASSUME NEW K, RInv(K), NEW l \in KeptLocs
  PROVE  /\ l \in Loc /\ Kept[l] \in Register /\ Kept[l].tp # "Storage"
         /\ Own(regs, inputs, ret)[l] = Blocks(Kept[l])
         /\ Frees(Kept[l]) = Blocks(Kept[l]) /\ Blocks(Kept[l]) \subseteq Mem
  <1>1. InputsOK(inputs) /\ ResultOK(ret)
    BY DEF RInv
  <1>2. l \in Loc
    BY DEF Loc
  <1>3. /\ Kept[l] \in Register /\ Kept[l].tp # "Storage"
        /\ Own(regs, inputs, ret)[l] = Blocks(Kept[l])
    <2>1. CASE l = <<NoFunc, 0>> /\ Kept[l] = ret
      BY <1>1, <2>1, OwnAt DEF ResultOK, FromUser, FromExec, Borrows, OwnedOK
    <2>2. CASE \E f \in Func : \E i \in 0 .. NumParams[f] - 1 :
                 l = <<f, i>> /\ Kept[l] = inputs[f][i]
      <3>1. PICK f \in Func : \E i \in 0 .. NumParams[f] - 1 :
                 l = <<f, i>> /\ Kept[l] = inputs[f][i]
        BY <2>2
      <3>2. PICK i \in 0 .. NumParams[f] - 1 : l = <<f, i>> /\ Kept[l] = inputs[f][i]
        BY <3>1
      <3>3. inputs[f][i] \in Register /\ InputOK(f, inputs[f][i])
        BY <1>1 DEF InputsOK
      <3>4. Own(regs, inputs, ret)[<<f, i>>] = Blocks(inputs[f][i])
        BY OwnAt
      <3> QED
        BY <3>2, <3>3, <3>4 DEF InputOK, FromUser, Borrows, OwnedOK
    <2> QED
      BY <2>1, <2>2, KeptAt
  <1> QED
    BY <1>2, <1>3, FreesBlocks

(* Free frees all blocks of the machine, once each.                        *)
LEMMA FreeOK ==
  ASSUME NEW K, RInv(K), Free
  PROVE  RInv(K)'
  <1> DEFINE O == Own(regs, inputs, ret)
             O2 == Own(regs', inputs', ret')
             g == Freed(mem, Kept, KeptLocs)
  <1>1. /\ state = "idle" /\ OwnOK(mem, O) /\ DOMAIN regs = {}
        /\ mem \in [Mem -> MemState]
    BY DEF Free, RInv
  <1>2. \A l \in KeptLocs : /\ l \in Loc /\ Kept[l] \in Register /\ O[l] = Blocks(Kept[l])
                            /\ Frees(Kept[l]) = O[l] /\ O[l] \subseteq Mem
    BY KeptOwn
  <1> HIDE DEF O
  <1>3. FreeIsSound(mem, Kept, KeptLocs)
    <2>1. \A l \in KeptLocs : \A m \in Frees(Kept[l]) : mem[m] = "vm"
      BY <1>1, <1>2 DEF OwnOK
    <2>2. ASSUME NEW l \in KeptLocs, NEW k \in KeptLocs, l # k
          PROVE  Frees(Kept[l]) \cap Frees(Kept[k]) = {}
      BY <1>1, <1>2, <2>2 DEF OwnOK
    <2> QED
      BY <2>1, <2>2 DEF FreeIsSound
  <1>4. /\ mem' = [m \in Mem |-> IF mem[m] = "exec" THEN "free" ELSE g[m]]
        /\ state' = "freed" /\ ret' = Empty
        /\ inputs' = [f \in Func |-> [i \in 0 .. NumParams[f] - 1 |-> Empty]]
        /\ UNCHANGED <<regs, frame_stack_size, func, pc, status, ok>>
    BY <1>3 DEF Free
  <1>5. Empty \in Register /\ Blocks(Empty) = {} /\ Empty.tp = "Null"
    BY DEF Empty, Register, Blocks
  <1>6. \A m \in Mem : g[m] = IF \E l \in KeptLocs : m \in O[l] THEN "free" ELSE mem[m]
    BY <1>2 DEF Freed
  <1> HIDE DEF g
  <1>7. \A m \in Mem : mem[m] = "vm" => \E l \in KeptLocs : m \in O[l]
    <2>1. ASSUME NEW m \in Mem, NEW l \in Loc, m \in O[l]
          PROVE  l \in KeptLocs
      <3>1. CASE l \in KeptLocs
        BY <3>1
      <3>2. CASE \E r \in Nat : l = <<"frame", r>>
        <4>1. O[l] = {}
          BY <1>1, <3>2, OwnAt DEF O
        <4> QED
          BY <2>1, <4>1
      <3> QED
        BY <3>1, <3>2 DEF Loc
    <2> QED
      BY <1>1, <2>1 DEF OwnOK
  <1>8. mem' \in [Mem -> MemState] /\ \A m \in Mem : mem'[m] # "vm"
    BY <1>1, <1>4, <1>6, <1>7 DEF MemState
  <1>9. /\ InputsOK(inputs)' /\ ResultOK(ret)'
        /\ \A f \in Func : \A i \in 0 .. NumParams[f] - 1 : inputs'[f][i] = Empty
    BY <1>4, <1>5 DEF InputsOK, InputOK, ResultOK
  <1>a. \A l \in Loc : O2[l] = {}
    <2>1. ASSUME NEW r \in Nat
          PROVE  O2[<<"frame", r>>] = {}
      BY <1>1, <1>4, OwnAt
    <2>2. O2[<<NoFunc, 0>>] = {}
      BY <1>4, <1>5, OwnAt
    <2>3. ASSUME NEW f \in Func, NEW i \in 0 .. NumParams[f] - 1
          PROVE  O2[<<f, i>>] = {}
      BY <1>5, <1>9, OwnAt
    <2> HIDE DEF O2
    <2> QED
      BY <2>1, <2>2, <2>3, Locations
  <1>b. OwnOK(mem', O2)
    <2> HIDE DEF O2
    <2> QED
      BY <1>8, <1>a DEF OwnOK
  <1> QED
    BY <1>1, <1>4, <1>5, <1>8, <1>9, <1>b DEF RInv

(* In the beginning nothing is owned.                                      *)
LEMMA InitOK ==
  ASSUME NEW K, Init
  PROVE  RInv(K)
  <1>1. Empty \in Register /\ Blocks(Empty) = {} /\ Empty.tp = "Null"
    BY DEF Empty, Register, Blocks
  <1>2. /\ inputs = [f \in Func |-> [i \in 0 .. NumParams[f] - 1 |-> Empty]]
        /\ regs = <<>> /\ ret = Empty /\ state = "idle" /\ func = NoFunc
        /\ status = 0 /\ ok = 0
    BY DEF Init
  <1>3. /\ mem \in [Mem -> MemState] /\ \A m \in Mem : mem[m] # "vm"
        /\ ForeignOK(mem)
    BY RelayAssumption DEF Init, MemState, ForeignOK
  <1>4. /\ InputsOK(inputs) /\ ResultOK(ret)
        /\ \A f \in Func : \A i \in 0 .. NumParams[f] - 1 : inputs[f][i] = Empty
    BY <1>1, <1>2 DEF InputsOK, InputOK, ResultOK
  <1>5. DOMAIN regs = {}
    BY <1>2
  <1>6. OwnOK(mem, Own(regs, inputs, ret))
    <2> DEFINE O == Own(regs, inputs, ret)
    <2>1. \A r \in Nat : O[<<"frame", r>>] = {}
      BY <1>5, OwnAt
    <2>2. O[<<NoFunc, 0>>] = {}
      BY <1>1, <1>2, OwnAt
    <2>3. ASSUME NEW f \in Func, NEW i \in 0 .. NumParams[f] - 1
          PROVE  O[<<f, i>>] = {}
      BY <1>1, <1>4, OwnAt
    <2> HIDE DEF O
    <2>4. \A l \in Loc : O[l] = {}
      BY <2>1, <2>2, <2>3, Locations
    <2> QED
      BY <1>3, <2>4 DEF OwnOK, O
  <1> QED
    BY <1>2, <1>3, <1>4, <1>5, <1>6 DEF RInv

(* Every step keeps the invariant.                                         *)
LEMMA NextOK ==
  ASSUME NEW K, Typing(K), SuppliesOneKind, ~ InputMayFail, RInv(K), [Next]_vars
  PROVE  RInv(K)'
  <1>1. CASE Step
    BY <1>1, StepOK
  <1>2. ASSUME NEW f \in Callable, UserStep(f)
        PROVE  RInv(K)'
    <2>0. f \in Func
      BY RelayAssumption
    <2>1. ASSUME NEW i \in 0 .. NumParams[f] - 1, "borrow" \in Supply[f], Borrow(f, i)
          PROVE  RInv(K)'
      BY <2>0, <2>1, BorrowOK
    <2>2. ASSUME NEW i \in 0 .. NumParams[f] - 1, "copy" \in Supply[f],
                 NEW n \in Bytes, CopyIn(f, i, n)
          PROVE  RInv(K)'
      BY <2>0, <2>2, CopyInOK
    <2>3. CASE Run(f)
      BY <2>3, RunOK
    <2>4. CASE GetOutput(f)
      <3>1. UNCHANGED vars
        BY <2>4, KeptReadable DEF GetOutput
      <3> QED
        BY <3>1 DEF vars, RInv, FrameOK
    <2> QED
      BY <1>2, <2>1, <2>2, <2>3, <2>4 DEF UserStep
  <1>3. CASE Free
    BY <1>3, FreeOK
  <1>4. CASE UNCHANGED vars
    BY <1>4 DEF vars, RInv, FrameOK
  <1> QED
    BY <1>1, <1>2, <1>3, <1>4 DEF Next

(* The machine keeps the invariant.                                        *)
THEOREM RelayInvariant ==
  ASSUME NEW CONSTANT K, Typing(K), SuppliesOneKind, ~ InputMayFail
  PROVE  Spec => []RInv(K)
  <1>1. Init => RInv(K)
    BY InitOK
  <1>2. RInv(K) /\ [Next]_vars => RInv(K)'
    BY NextOK
  <1> QED
    BY <1>1, <1>2, PTL DEF Spec

(* Every variable keeps its type, and a run never leaves the code of its   *)
(* function (relay_vm_interpreter.c:86-290).                               *)
THEOREM RelayTypesHold ==
  ASSUME NEW CONSTANT K, Typing(K), SuppliesOneKind, ~ InputMayFail
  PROVE  Spec => []RelayTypeOK
  <1>1. RInv(K) => RelayTypeOK
    <2> SUFFICES ASSUME RInv(K)
                 PROVE  RelayTypeOK
      OBVIOUS
    <2>1. \A r \in DOMAIN regs : regs[r] \in Register
      BY DEF RInv, FrameOK
    <2>2. \A f \in Func : inputs[f] \in [0 .. NumParams[f] - 1 -> Register]
      BY DEF RInv, InputsOK
    <2>3. ret \in Register /\ mem \in [Mem -> {"free", "vm", "user", "exec"}]
      BY DEF RInv, ResultOK, MemState
    <2>4. state = "running" => pc + 1 \in DOMAIN Code[func]
      BY DEF RInv, FrameOK
    <2> QED
      BY <2>1, <2>2, <2>3, <2>4 DEF RelayTypeOK, RInv
  <1> QED
    BY <1>1, RelayInvariant, PTL

(* The owners, and the locations the invariant speaks of. *)
LEMMA OwnerIs ==
  ASSUME NEW K, Typing(K), RInv(K), NEW l \in Owners
  PROVE  /\ l \in Loc
         /\ Owned(l) = Own(regs, inputs, ret)[l]
         /\ IsTensor(At(l)) => Readable(mem, At(l))
  <1>1. CASE l \in KeptLocs
    <2>1. l \in Loc /\ Own(regs, inputs, ret)[l] = Blocks(Kept[l]) /\ At(l) = Kept[l]
      BY <1>1, KeptOwn DEF At
    <2>2. IsTensor(Kept[l]) => Readable(mem, Kept[l])
      BY <1>1, KeptAt, KeptReadable
    <2> QED
      BY <2>1, <2>2 DEF Owned, Blocks
  <1>2. CASE l \in {<<"frame", r>> : r \in DOMAIN regs}
    <2>1. PICK r \in DOMAIN regs : l = <<"frame", r>>
      BY <1>2
    <2>2. state = "running"
      BY <2>1 DEF RInv
    <2>3. r \in Regs(func) /\ r \in Nat
      BY <2>2, Current
    <2>4. l \notin KeptLocs
      BY <2>1, RelayAssumption DEF KeptLocs
    <2>5. At(l) = regs[r]
      BY <2>1, <2>4 DEF At
    <2>6. l \in Loc /\ Own(regs, inputs, ret)[l] = Blocks(regs[r])
      BY <2>1, <2>3, Locations, OwnAt
    <2>7. IsTensor(regs[r]) => Readable(mem, regs[r])
      BY <2>2, <2>3, RegisterReadable
    <2> QED
      BY <2>5, <2>6, <2>7 DEF Owned, Blocks
  <1> QED
    BY <1>1, <1>2 DEF Owners

(* Single ownership: no block is lost, freed twice or freed for somebody   *)
(* else, and no tensor outlives its memory, in all runs, the ones that     *)
(* fail included (relay_vm_register.h, relay_vm_interpreter.c).            *)
THEOREM BlocksHaveOneOwner ==
  ASSUME NEW CONSTANT K, Typing(K), SuppliesOneKind, ~ InputMayFail
  PROVE  Spec => []EveryBlockHasOneOwner
  <1>1. RInv(K) => EveryBlockHasOneOwner
    <2> SUFFICES ASSUME RInv(K)
                 PROVE  EveryBlockHasOneOwner
      OBVIOUS
    <2> DEFINE O == Own(regs, inputs, ret)
    <2>1. \A l \in Owners : /\ l \in Loc /\ Owned(l) = O[l]
                            /\ IsTensor(At(l)) => Readable(mem, At(l))
      BY OwnerIs
    <2>2. ASSUME NEW l \in Loc, l \notin Owners
          PROVE  O[l] = {}
      <3>1. PICK r \in Nat : l = <<"frame", r>>
        BY <2>2 DEF Loc, Owners
      <3>2. r \notin DOMAIN regs
        BY <2>2, <3>1 DEF Owners
      <3> QED
        BY <3>1, <3>2, OwnAt
    <2>3. OwnOK(mem, O) /\ state # "undefined"
      BY DEF RInv
    <2> HIDE DEF O
    <2> QED
      BY <2>1, <2>2, <2>3 DEF EveryBlockHasOneOwner, OwnOK
  <1> QED
    BY <1>1, RelayInvariant, PTL

(* An instruction leaves the inputs, and all but a return the result. *)
LEMMA StepKeeps ==
  ASSUME Step
  PROVE  inputs' = inputs /\ (ret' = ret \/ (state' = "idle" /\ status' = 0))
  <1>1. ASSUME NEW h, NEW rs, NEW k, Goes(h, rs, k)
        PROVE  inputs' = inputs /\ ret' = ret
    BY <1>1 DEF Goes
  <1>2. ASSUME NEW k, Fails(k)
        PROVE  inputs' = inputs /\ ret' = ret
    BY <1>2 DEF Fails, Undefined
  <1>3. Undefined => inputs' = inputs /\ ret' = ret
    BY DEF Undefined
  <1>4. Ret => inputs' = inputs /\ (ret' = ret \/ (state' = "idle" /\ status' = 0))
    BY DEF Ret, Undefined
  <1>5. InvokePacked => inputs' = inputs /\ ret' = ret
    BY <1>1, <1>2, <1>3 DEF InvokePacked
  <1>6. AllocStorage => inputs' = inputs /\ ret' = ret
    BY <1>1, <1>2, <1>3 DEF AllocStorage, Loads
  <1>7. AllocTensor => inputs' = inputs /\ ret' = ret
    BY <1>1, <1>2, <1>3 DEF AllocTensor, Loads
  <1>8. Move \/ LoadConst \/ ReshapeTensor \/ KillRegister \/ Unsupported =>
          inputs' = inputs /\ ret' = ret
    BY <1>1, <1>2, <1>3 DEF Move, LoadConst, ReshapeTensor, KillRegister, Unsupported
  <1> QED
    BY <1>4, <1>5, <1>6, <1>7, <1>8 DEF Step

(* After any run the inputs are as they were and live, and after one that  *)
(* failed the result of the run before it as well (relay_vm.c:145-150).    *)
THEOREM InputsOutliveRuns ==
  ASSUME NEW CONSTANT K, Typing(K), SuppliesOneKind, ~ InputMayFail
  PROVE  Spec => RunsKeepInputs
  <1> DEFINE Keeps ==
        state = "running" =>
          /\ inputs' = inputs
          /\ state' = "idle" /\ status' # 0 => ret' = ret
          /\ \A l \in KeptLocs :
               l[1] # NoFunc \/ ret' = ret => \A m \in Owned(l) : mem'[m] = "vm"
  <1>1. RInv(K) /\ [Next]_vars => [Keeps]_vars
    <2> SUFFICES ASSUME RInv(K), Next, state = "running"
                 PROVE  /\ inputs' = inputs
                        /\ state' = "idle" /\ status' # 0 => ret' = ret
                        /\ \A l \in KeptLocs :
                             l[1] # NoFunc \/ ret' = ret =>
                               \A m \in Owned(l) : mem'[m] = "vm"
      OBVIOUS
    <2>1. Step
      BY DEF Next, UserStep, Borrow, CopyIn, Run, GetOutput, Free
    <2>2. inputs' = inputs /\ (ret' = ret \/ (state' = "idle" /\ status' = 0))
      BY <2>1, StepKeeps
    <2>3. OwnOK(mem', Own(regs', inputs', ret'))
      <3>1. RInv(K)'
        BY <2>1, StepOK
      <3> QED
        BY <3>1 DEF RInv
    <2>4. ASSUME NEW l \in KeptLocs, l[1] # NoFunc \/ ret' = ret, NEW m \in Owned(l)
          PROVE  mem'[m] = "vm"
      <3>1. m \in Blocks(Kept[l]) /\ m \in Mem
        BY <2>4, KeptOwn DEF Owned, At, Blocks
      <3>2. CASE l = <<NoFunc, 0>> /\ Kept[l] = ret
        <4>1. ret' = ret
          BY <2>4, <3>2
        <4>2. \A b \in Blocks(ret') : b \in Mem => mem'[b] = "vm"
          BY <2>3, OwnedIsLive
        <4> QED
          BY <3>1, <3>2, <4>1, <4>2
      <3>3. ASSUME NEW f \in Func, NEW i \in 0 .. NumParams[f] - 1,
                   l = <<f, i>>, Kept[l] = inputs[f][i]
            PROVE  mem'[m] = "vm"
        <4>1. \A b \in Blocks(inputs'[f][i]) : b \in Mem => mem'[b] = "vm"
          BY <2>3, OwnedIsLive
        <4> QED
          BY <2>2, <3>1, <3>3, <4>1
      <3> QED
        BY <3>2, <3>3, KeptAt
    <2> QED
      BY <2>2, <2>4
  <1> QED
    BY <1>1, RelayInvariant, PTL DEF Spec, RunsKeepInputs
=============================================================================
