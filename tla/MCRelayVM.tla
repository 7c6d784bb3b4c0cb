----------------------------- MODULE MCRelayVM -----------------------------
(***************************************************************************)
(* An executable for TLC: main allocates two tensors, calls a kernel on    *)
(* them, reshapes one, kills it and returns the other; ident returns its   *)
(* parameter, stop runs into an instruction the interpreter does not       *)
(* implement.  view returns a reshape of its parameter: of an input that   *)
(* is borrowed it frees the user's shape, and a run that may call it ends  *)
(* in undefined behaviour.                                                 *)
(***************************************************************************)
EXTENDS RelayVM, Sequences

CONSTANTS m1, m2, m3, m4, m5, m6, m7, m8, ud, us, kd, ks

MCMem == {m1, m2, m3, m4, m5, m6, m7, m8, ud, us, kd, ks}

MCFunc == {"main", "ident", "view", "stop"}
MCNumParams == [f \in MCFunc |-> 1]
MCNumRegs == [main |-> 6, ident |-> 1, view |-> 3, stop |-> 1]

Storage(size, dst) == [op |-> "AllocStorage", size |-> size, dst |-> dst]
NewTensor(storage, offset, dst) ==
  [op |-> "AllocTensor", storage |-> storage, offset |-> offset, dst |-> dst]
Constant(dst) == [op |-> "LoadConst", dst |-> dst]
Invoke(f, args) == [op |-> "InvokePacked", func |-> f, args |-> args]
Reshape(t, z, dst) ==
  [op |-> "ReshapeTensor", tensor |-> t, shape |-> z, dst |-> dst]
Kill(r) == [op |-> "KillRegister", dst |-> r]
MoveTo(a, b) == [op |-> "Move", from |-> a, dst |-> b]
Return(r) == [op |-> "Ret", result |-> r]
Fatal == [op |-> "Fatal"]

MCCode ==
  [main |-> <<Constant(1), Storage(1, 2), NewTensor(2, 1, 3),
              Invoke("add", {0, 3}), Reshape(3, 1, 4),
              Storage(1, 2), NewTensor(2, 1, 3), Invoke("add", {3, 4}),
              Kill(4), MoveTo(3, 5), Return(5)>>,
   ident |-> <<Return(0)>>,
   view |-> <<Constant(1), Reshape(0, 1, 2), Return(2)>>,
   stop |-> <<Fatal>>]

(* What the registers hold before each instruction.                        *)
MCKinds[f \in MCFunc] ==
  LET k[n \in 1 .. Len(MCCode[f])] ==
        IF n = 1
        THEN [r \in 0 .. MCNumRegs[f] - 1 |->
                IF r < MCNumParams[f] THEN "Input" ELSE "Null"]
        ELSE After(MCCode[f][n - 1], k[n - 1])
  IN k

MCOneKind == [main |-> {"copy"}, ident |-> {"borrow"}, view |-> {"borrow"},
              stop |-> {"borrow"}]

ASSUME Typing(MCKinds) /\ SuppliesOneKind /\ ~ InputMayFail
=============================================================================
