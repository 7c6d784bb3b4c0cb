----------------------------- MODULE GraphJson -----------------------------
(***************************************************************************)
(* What a graph executor is built from: the graph document, and the attempt *)
(* to load it (src/backends/graph/graph_executor_loader.c), as the set of   *)
(* the ways it can end.                                                     *)
(*                                                                         *)
(* A document gives the keys in the order they come in and what is under   *)
(* them.  Text, shapes and types of elements are abstracted to the sizes   *)
(* of the data and to the places where reading can fail.  Nodes, entries   *)
(* and storages are numbered from 1 where the code numbers them from 0.    *)
(***************************************************************************)
EXTENDS Integers, Sequences, FiniteSets

CONSTANTS
  Known      \* names of the functions the module has

Keys == {"nodes", "arg_nodes", "heads", "attrs", "node_row_ptr"}

(* What the executor allocates while it is built; "nodes" stands for the   *)
(* array with its strings, "shapes" for the shapes of the entries.         *)
Part == {"nodes", "inputs_nodes", "outputs_nodes", "data_entry", "shapes",
         "devices", "inputs_map", "outputs_map", "storages", "node_ops"}

-----------------------------------------------------------------------------
(* A document d has                                                        *)
(*   keys     the keys of the outermost object                             *)
(*   nodes    of each node [op, func, inputs, outputs]: inputs are pairs   *)
(*            of a node and an index, outputs their number                 *)
(*   names    the names of the nodes                                       *)
(*   args     the input nodes                                              *)
(*   heads    the outputs, pairs of a node and an index                    *)
(*   row_ptr  of each node, the entries before it; and their number        *)
(*   attrs    the lists under attrs, in their order                        *)
(*   storage  \                                                            *)
(*   device    > the lists of that name, one element of each entry         *)
(*   size     /  (of a shape: the bytes), as set to zero if absent         *)
(*   linked   the storages that the module has the parameters of           *)

ListOf(d, attr) ==
  CASE attr = "storage_id"   -> d.storage
    [] attr = "device_index" -> d.device
    [] OTHER                 -> d.size      \* shape, dltype

EntryId(d, n, index) == d.row_ptr[n] + index

Sids(d) == {d.storage[e] : e \in DOMAIN d.storage}

(* The lists under attrs: each must have as many elements as the first.    *)
(* Without device_index the devices are asked for the default, which are   *)
(* set only after the document was read.                                   *)
AttrsEnd(d) ==
  CASE \E i, j \in DOMAIN d.attrs :
         Len(ListOf(d, d.attrs[i])) # Len(ListOf(d, d.attrs[j])) -> "fails"
    [] /\ \A i \in DOMAIN d.attrs : d.attrs[i] # "device_index"
       /\ d.attrs # <<>> /\ ListOf(d, d.attrs[1]) # <<>> -> "undefined"
    [] OTHER -> "ok"

(* What reading the value of a key allocates. *)
PartsOf(d, key) ==
  CASE key \in {"nodes", "node_row_ptr"} -> {"nodes"}
    [] key = "arg_nodes" -> {"inputs_nodes"}
    [] key = "heads"     -> {"outputs_nodes"}
    [] key = "attrs"     ->
         {p \in {"data_entry", "shapes"} :
            \E i \in DOMAIN d.attrs : p = "shapes" => d.attrs[i] = "shape"}
    [] OTHER -> {}

(* How reading the value of the i-th key ends, if its text is well formed. *)
(* The array of nodes is that of the key that comes first: node_row_ptr    *)
(* compares its length, nodes compares what it has just assigned.          *)
KeyEnd(d, i) ==
  LET key == d.keys[i]
      before == {d.keys[j] : j \in 1 .. i - 1}
  IN CASE key = "nodes" ->
            IF d.nodes = <<>> THEN "fails"
            ELSE IF "node_row_ptr" \in before /\ Len(d.nodes) > Len(d.row_ptr) - 1
            THEN "undefined" ELSE "ok"
       [] key = "node_row_ptr" ->
            IF \/ d.row_ptr = <<>>
               \/ "nodes" \in before /\ Len(d.nodes) # Len(d.row_ptr) - 1
            THEN "fails" ELSE "ok"
       [] key = "arg_nodes" -> IF d.args = <<>> THEN "fails" ELSE "ok"
       [] key = "heads"     -> IF d.heads = <<>> THEN "fails" ELSE "ok"
       [] key = "attrs"     -> AttrsEnd(d)
       [] key = "metadata"  -> "stops"
       [] OTHER             -> "fails"

(* The key at which reading ends, or the one after the last. *)
LastKey(d) ==
  CHOOSE i \in 1 .. Len(d.keys) + 1 :
    /\ \A j \in 1 .. i - 1 : KeyEnd(d, j) = "ok"
    /\ i <= Len(d.keys) => KeyEnd(d, i) # "ok"

PartsBefore(d, i) == UNION {PartsOf(d, d.keys[j]) : j \in 1 .. i - 1}

-----------------------------------------------------------------------------
(* Setting the storages up.                                                *)

EntriesOf(d, s) == {e \in DOMAIN d.storage : d.storage[e] = s}

FirstEntry(d, s) ==
  CHOOSE e \in EntriesOf(d, s) : \A x \in EntriesOf(d, s) : e <= x

(* All entries of a storage are on one type of device. *)
DevicesAgree(d) ==
  \A s \in Sids(d) : \A e, x \in EntriesOf(d, s) : d.device[e] = d.device[x]

(* The type of device a storage is allocated on: the first device if there *)
(* is none of its own type.                                                *)
StorageDevice(d, devices, s) ==
  LET type == d.device[FirstEntry(d, s)]
  IN IF \E x \in DOMAIN devices : devices[x] = type THEN type ELSE devices[1]

(* Faulty variant: linked parameters get memory of their own as well. *)
StoragesAll(d, devices, k) ==
  [s \in Sids(d) |->
     [linked |-> s \in d.linked,
      on     |-> IF s <= k THEN StorageDevice(d, devices, s) ELSE "none"]]

(* Storages of which the first k are set up. *)
Storages(d, devices, k) ==
  [s \in Sids(d) |->
     [linked |-> s \in d.linked,
      on     |-> IF s \notin d.linked /\ s <= k
                 THEN StorageDevice(d, devices, s) ELSE "none"]]

NoStorages == [s \in {} |-> "none"]

(* The outputs of other nodes a node takes, and how many it has itself.    *)
Inputs(d, n) == d.nodes[n].inputs
Outputs(d, n) == d.nodes[n].outputs

(* The storage of an output. *)
Sid(d, n, index) == d.storage[EntryId(d, n, index)]

IsOp(node) == node.op = "tvm_op" /\ node.func # "__nop"
IsInput(node) == node.op # "tvm_op"

-----------------------------------------------------------------------------
(* Every operator is one the module has a function for, or "__nop". *)
OpsKnown(d) ==
  \A n \in DOMAIN d.nodes :
    \/ d.nodes[n].op = "null"
    \/ d.nodes[n].op = "tvm_op" /\ d.nodes[n].func \in Known \cup {"__nop"}

Attempt(end, parts, storages) ==
  [end |-> end, parts |-> parts, storages |-> storages]

(* The ways loading d can end: the text of a key is broken before or after *)
(* the key's memory was allocated; a name does not fit in the maps; memory *)
(* of a device runs out; or the document decides.                          *)
ReadEnds(d) ==
  LET last == LastKey(d)
      tried == IF last <= Len(d.keys) THEN last ELSE last - 1
  IN {Attempt("fails", PartsBefore(d, i), NoStorages) : i \in 1 .. tried + 1}
     \cup IF last <= Len(d.keys) /\ KeyEnd(d, last) = "undefined"
          THEN {Attempt("undefined", {}, NoStorages)} ELSE {}

(* All keys were read, without a failure. *)
Complete(d) ==
  LET last == LastKey(d)
  IN /\ last <= Len(d.keys) => KeyEnd(d, last) = "stops"
     /\ Keys \subseteq {d.keys[j] : j \in 1 .. last - 1}

MapParts == {"devices", "inputs_map"}

SetupEnds(d, devices) ==
  LET read == PartsBefore(d, LastKey(d))
      maps == read \cup MapParts \cup {"outputs_map"}
      stored == maps \cup {"storages"}
      all == Storages(d, devices, Len(d.storage))
  IN IF "data_entry" \notin read \/ d.storage = <<>>
     THEN {Attempt("ok", read \cup {"devices"}, NoStorages)}
     ELSE {Attempt("fails", read \cup MapParts, NoStorages),
           Attempt("fails", maps, NoStorages)} \cup
          IF (\E e \in DOMAIN d.size : d.size[e] = 0) \/ ~ DevicesAgree(d)
          THEN {Attempt("fails", stored, Storages(d, devices, 0))}
          ELSE {Attempt("fails", stored, Storages(d, devices, s - 1)) :
                  s \in {x \in Sids(d) \ d.linked :
                           StorageDevice(d, devices, x) # "cpu"}} \cup
               {Attempt(IF OpsKnown(d) THEN "ok" ELSE "fails",
                        stored \cup {"node_ops"}, all)}

GraphExecutorLoad(d, devices) ==
  ReadEnds(d) \cup IF Complete(d) THEN SetupEnds(d, devices) ELSE {}

-----------------------------------------------------------------------------
(* What the compiler plans and the loader does not check.                  *)

NodeRecord ==
  [op : STRING, func : STRING, inputs : Seq(Nat \X Nat), outputs : Nat]

(* Nodes read outputs of nodes before them.  An input has one output, and  *)
(* the "__nop"s of reshapes have that of their input.                      *)
InOrder(d) ==
  /\ d.nodes \in Seq(NodeRecord) /\ d.heads \in Seq(Nat \X Nat)
  /\ \A n \in DOMAIN d.nodes :
       LET node == d.nodes[n]
       IN /\ \A k \in 1 .. Outputs(d, n) : EntryId(d, n, k) \in DOMAIN d.storage
          /\ \A i \in DOMAIN Inputs(d, n) :
               /\ Inputs(d, n)[i][1] \in 1 .. n - 1
               /\ Inputs(d, n)[i][2] \in 1 .. Outputs(d, Inputs(d, n)[i][1])
          /\ IsInput(node) => Outputs(d, n) = 1
          /\ ~ IsInput(node) /\ ~ IsOp(node) =>
               \A k \in 1 .. Outputs(d, n) :
                 /\ k \in DOMAIN Inputs(d, n)
                 /\ Sid(d, n, k) = Sid(d, Inputs(d, n)[k][1], Inputs(d, n)[k][2])
  /\ \A h \in DOMAIN d.heads :
       /\ d.heads[h][1] \in DOMAIN d.nodes
       /\ d.heads[h][2] \in 1 .. Outputs(d, d.heads[h][1])

(* The outputs that the node r reads; the user, after the last, reads the  *)
(* heads.                                                                  *)
ReadBy(d, r) ==
  IF r \in DOMAIN d.nodes
  THEN {Inputs(d, r)[i] : i \in DOMAIN Inputs(d, r)}
  ELSE {d.heads[h] : h \in DOMAIN d.heads}

(* A storage is used again only when what was in it has been read: between *)
(* a node and a reader of it no other operator writes there, nor before an *)
(* input's.                                                                *)
SharesWell(d) ==
  /\ \A n \in DOMAIN d.nodes : IsOp(d.nodes[n]) =>
       \A k, l \in 1 .. Outputs(d, n) : Sid(d, n, k) = Sid(d, n, l) => k = l
  /\ \A r \in 1 .. Len(d.nodes) + 1 : \A x \in ReadBy(d, r) :
       \A w \in {n \in 1 .. r - 1 : n \in DOMAIN d.nodes /\ IsOp(d.nodes[n])} :
         (\E k \in 1 .. Outputs(d, w) : Sid(d, w, k) = Sid(d, x[1], x[2]))
           => w <= x[1] /\ ~ IsInput(d.nodes[x[1]])

(* Each input has a storage of its own. *)
InputsApart(d) ==
  /\ d.args \in Seq(Nat)
  /\ \A i \in DOMAIN d.args : EntryId(d, d.args[i], 1) \in DOMAIN d.storage
  /\ \A i, j \in DOMAIN d.args :
       Sid(d, d.args[i], 1) = Sid(d, d.args[j], 1) => i = j

WellPlanned(d) == InOrder(d) /\ SharesWell(d) /\ InputsApart(d)
=============================================================================
