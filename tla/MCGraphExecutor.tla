-------------------------- MODULE MCGraphExecutor --------------------------
(***************************************************************************)
(* Documents and parameter blobs for TLC.  The good document is a graph    *)
(* with a parameter, an operator with two outputs, a "__nop" in place, a   *)
(* storage that is used again once its value is not needed, and a device   *)
(* for some of the entries.  The others fail at one place each.            *)
(***************************************************************************)
EXTENDS GraphExecutor

CONSTANTS v1, p1

Node(op, func, inputs, outputs) ==
  [op |-> op, func |-> func, inputs |-> inputs, outputs |-> outputs]
Input == Node("null", "", <<>>, 1)
Op(func, inputs, outputs) == Node("tvm_op", func, inputs, outputs)

AllKeys == <<"nodes", "arg_nodes", "heads", "attrs", "node_row_ptr", "metadata">>
AllAttrs == <<"dltype", "storage_id", "device_index", "shape">>

(* split(x, w) gives a and b; c is b as it is, in its storage; s is a + c; *)
(* the result is s + w, in the storage of a.                               *)
Good(device) == [
  keys    |-> AllKeys,
  nodes   |-> <<Input, Input, Op("split", <<<<1, 1>>, <<2, 1>>>>, 2),
                Op("__nop", <<<<3, 2>>>>, 1),
                Op("add", <<<<3, 1>>, <<4, 1>>>>, 1),
                Op("add", <<<<5, 1>>, <<2, 1>>>>, 1)>>,
  names   |-> <<"x", "w", "split", "nop", "add", "out">>,
  args    |-> <<1, 2>>,
  heads   |-> <<<<6, 1>>, <<5, 1>>>>,
  row_ptr |-> <<0, 1, 2, 4, 5, 6, 7>>,
  attrs   |-> AllAttrs,
  storage |-> <<1, 2, 3, 4, 4, 5, 3>>,
  device  |-> [e \in 1 .. 7 |-> IF e = 1 THEN "cpu" ELSE device],
  size    |-> <<4, 4, 4, 4, 4, 4, 4>>,
  linked  |-> {}]

(* A small graph, to fail with. *)
Small == [
  keys    |-> AllKeys,
  nodes   |-> <<Input, Op("add", <<<<1, 1>>, <<1, 1>>>>, 1),
                Op("add", <<<<2, 1>>, <<1, 1>>>>, 1)>>,
  names   |-> <<"x", "a", "b">>,
  args    |-> <<1>>,
  heads   |-> <<<<3, 1>>>>,
  row_ptr |-> <<0, 1, 2, 3>>,
  attrs   |-> AllAttrs,
  storage |-> <<1, 2, 2>>,
  device  |-> <<"cpu", "cpu", "cpu">>,
  size    |-> <<4, 4, 4>>,
  linked  |-> {}]

MCDoc == {
  Good("cpu"), Good("cuda"), [Good("cpu") EXCEPT !.linked = {2}],
  [Small EXCEPT !.keys = <<"node_row_ptr", "nodes", "heads", "arg_nodes", "attrs">>],
  [Small EXCEPT !.keys = <<"nodes", "attrs", "arg_nodes", "heads", "metadata">>],
  [Small EXCEPT !.keys = <<"attrs", "other">>],
  [Small EXCEPT !.row_ptr = <<0, 1, 2>>],
  [Small EXCEPT !.size = <<4, 4>>],
  [Small EXCEPT !.size = <<4, 0, 4>>],
  [Small EXCEPT !.device = <<"cpu", "cuda", "cpu">>],
  [Small EXCEPT !.nodes[3].func = "missing"],
  [Small EXCEPT !.nodes[3].op = "other"]}

MCDeviceList == {<<"cpu", "cuda">>, <<"cuda", "cpu">>}
MCVal == {v1}
MCKnown == {"split", "add"}

Params(names, tensors, reads, more) ==
  [magic |-> TRUE, names |-> names, tensors |-> tensors,
   reads |-> reads, more |-> more]
T(v) == [fits |-> TRUE, val |-> v]

MCBlob == {
  Params(<<"w">>, <<T(p1)>>, 13, FALSE),                 \* complete
  Params(<<"x", "w">>, <<T(p1), T(p1)>>, 22, TRUE),      \* with bytes behind
  Params(<<"x", "w">>, <<T(p1), T(p1)>>, 21, TRUE),      \* ends in the last tensor
  Params(<<"x", "w">>, <<T(p1), [fits |-> FALSE, val |-> p1]>>, 22, TRUE),
  Params(<<"w", "other">>, <<T(p1), T(p1)>>, 22, TRUE),
  Params(<<"w">>, <<T(p1)>>, 4, TRUE)}                   \* ends in the name

(* The documents that load are as the compiler plans them, and a blob      *)
(* names a parameter once: what the theorems assume.                       *)
ASSUME \A d \in MCDoc : Complete(d) /\ OpsKnown(d) => WellPlanned(d)
ASSUME \A b \in MCBlob : NamesOnce(b)
=============================================================================
