--------------------------- MODULE MCWebGPUQueue ---------------------------
(* Two buffers, contents 0 and 1 and a kernel that changes them: a copy    *)
(* that is read too early, or a command out of order, shows in the value.  *)
EXTENDS WebGPUQueue

CONSTANTS a, b

MCBuffer == {a, b}
MCVal == 0 .. 1
MCKernel == [v \in MCVal |-> (v + 1) % 2]
=============================================================================
