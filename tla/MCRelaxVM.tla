----------------------------- MODULE MCRelaxVM -----------------------------
(***************************************************************************)
(* An executable for TLC, in the shape the Relax compiler emits: storages  *)
(* are killed by null_value once a tensor has been made over them,         *)
(* destination-passing kernels return nothing, and calls nest three deep.  *)
(***************************************************************************)
EXTENDS RelaxVM

CONSTANTS b1, b2, b3, b4, b5,    \* register buffers
          o1, o2, o3, o4, o5, o6, o7,    \* heap cells
          z1,                    \* the cell of a shape tuple constant
          t1                     \* a tensor of the user

MCBuffer == {b1, b2, b3, b4, b5}
MCObj == {o1, o2, o3, o4, o5, o6, o7, z1}
MCRegisterCount == 1 .. 4
MCPC == 0 .. 24
MCSpecial == 5
MCRegisterName == 0 .. 6
MCTensor == {t1}

MCConst == <<ShapeTuple(z1), Int64(7)>>
MCConstCell == [o \in {z1} |-> ObjectCell("shape")]

Reg(r) == [type |-> "Register", value |-> r]
Imm(n) == [type |-> "Immediate", value |-> n]
Cst(c) == [type |-> "ConstIdx", value |-> c]

Call(f, args, dst) == [op |-> "Call", func |-> f, args |-> args, dst |-> dst]
Ret(r)     == [op |-> "Ret", result |-> r]
Jump(n)    == [op |-> "Goto", offset |-> n]
IfElse(r, n) == [op |-> "If", cond |-> r, offset |-> n]

MCPacked == {"alloc_storage", "alloc_tensor", "reshape", "null_value", "add",
             "is_zero", "print"}
MCPackedKind ==
  [p \in MCPacked |-> CASE p = "add" -> "kernel"
                        [] p = "is_zero" -> "predicate"
                        [] p = "print" -> "stub"
                        [] OTHER -> p]

MCFunc == {"main", "double", "choose", "self", "loop"}
MCFuncInfo ==
  [f \in MCFunc |->
     CASE f = "main"   -> [start |-> 0, end |-> 6, num_params |-> 1,
                           register_file_size |-> 4]
       [] f = "double" -> [start |-> 6, end |-> 10, num_params |-> 1,
                           register_file_size |-> 3]
       [] f = "choose" -> [start |-> 10, end |-> 17, num_params |-> 2,
                           register_file_size |-> 3]
       [] f = "self"   -> [start |-> 17, end |-> 18, num_params |-> 1,
                           register_file_size |-> 1]
       [] f = "loop"   -> [start |-> 18, end |-> 24, num_params |-> 1,
                           register_file_size |-> 4]]

MCCode ==
  [i \in MCPC |->
     CASE (* main(x): a new tensor *)
          i = 0  -> Call("alloc_storage", <<Reg(VM), Cst(1), Imm(0)>>, 1)
       [] i = 1  -> Call("alloc_tensor", <<Reg(1), Imm(0), Cst(1)>>, 2)
       [] i = 2  -> Call("null_value", <<>>, 1)
       [] i = 3  -> Call("add", <<Reg(0), Reg(2)>>, Void)
       [] i = 4  -> Call("null_value", <<>>, 3)
       [] i = 5  -> Ret(2)
          (* double(x): main(x), reshaped *)
       [] i = 6  -> Call("main", <<Reg(0)>>, 1)
       [] i = 7  -> Call("reshape", <<Reg(1), Cst(1)>>, 2)
       [] i = 8  -> Call("add", <<Reg(1), Reg(2)>>, Void)
       [] i = 9  -> Ret(2)
          (* choose(x, y): double(y) or x itself *)
       [] i = 10 -> Call("print", <<Reg(0)>>, Void)
       [] i = 11 -> Call("is_zero", <<Reg(0)>>, 2)
       [] i = 12 -> IfElse(2, 3)
       [] i = 13 -> Call("double", <<Reg(1)>>, 2)
       [] i = 14 -> Jump(2)
       [] i = 15 -> Call("self", <<Reg(0)>>, 2)
       [] i = 16 -> Ret(2)
          (* self(x) *)
       [] i = 17 -> Ret(0)
          (* loop(x): reshape x until a predicate says so *)
       [] i = 18 -> Call("reshape", <<Reg(0), Cst(1)>>, 0)
       [] i = 19 -> Call("self", <<Reg(0)>>, Void)
       [] i = 20 -> Call("is_zero", <<Reg(0)>>, 1)
       [] i = 21 -> IfElse(1, 2)
       [] i = 22 -> Jump(-4)
       [] i = 23 -> Ret(0)
       [] OTHER  -> Ret(Void)]
=============================================================================
