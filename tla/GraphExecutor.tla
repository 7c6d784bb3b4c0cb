--------------------------- MODULE GraphExecutor ---------------------------
(***************************************************************************)
(* The graph executor (src/backends/graph/graph_executor.c), the loading   *)
(* of its parameters (tensor_loader.c, src/core/utils/tensor_helper.c) from *)
(* bytes or a file (stream_reader.c), and its CUDA extension               *)
(* (src/accelerators/cuda/graph/cuda_extension.c).                         *)
(*                                                                         *)
(* There is one executor at a time and one module for it, which the        *)
(* executor takes over when it is created.  The functions of the module    *)
(* are uninterpreted: what a node writes is the term of its function and   *)
(* what it read.                                                           *)
(***************************************************************************)
EXTENDS GraphJson

CONSTANTS
  Doc,        \* documents that executors are created from
  DeviceList, \* lists of device types that executors are created with
  Val,        \* values of inputs and parameters
  Fresh,      \* what memory holds at first
  Torn,       \* what a write that failed in the middle leaves
  Blob,       \* parameter blobs
  None

(* Documents and device lists that end in no undefined behaviour of the    *)
(* loader, whatever else is wrong with a document: no key is read before   *)
(* what it depends on was set, a complete document has entries, and the    *)
(* user gives a device of every type the document names.  Storages are     *)
(* numbered without a gap: one that no entry is in would be no storage of  *)
(* this model.                                                             *)
ASSUME GraphAssumption ==
  /\ None \notin Doc
  /\ \A d \in Doc :
       /\ LastKey(d) <= Len(d.keys) => KeyEnd(d, LastKey(d)) # "undefined"
       /\ Complete(d) =>
            /\ d.storage # <<>> /\ d.nodes \in Seq(NodeRecord)
            /\ \E k \in 1 .. Len(d.storage) : Sids(d) = 1 .. k
            /\ "data_entry" \in PartsBefore(d, LastKey(d))
            /\ \A devices \in DeviceList : \A s \in Sids(d) :
                 \E x \in DOMAIN devices :
                   devices[x] = d.device[FirstEntry(d, s)]
  /\ \A devices \in DeviceList :
       \A x \in DOMAIN devices : devices[x] \in {"cpu", "cuda"}

VARIABLES
  doc,        \* the document of the executor, or None
  parts,      \* what the executor has allocated
  storages,   \* its storages: whether linked, and the device type
  data,       \* what the storages hold
  owner,      \* who has the module: "user", "executor", or "nobody"
  extension,  \* whether the CUDA extension is linked in
  lost,       \* what was allocated and can not be released any more
  status,     \* of the last call
  state       \* "up", or "undefined" behaviour

graphVars == <<doc, parts, storages, data>>
vars == <<graphVars, owner, extension, lost, status, state>>

Init ==
  /\ doc = None
  /\ parts = {}
  /\ storages = NoStorages
  /\ data = NoStorages
  /\ owner = "user"
  /\ extension \in BOOLEAN
  /\ lost = {}
  /\ status = 0
  /\ state = "up"

-----------------------------------------------------------------------------
(* Releasing an executor with the given document, allocations, storages.   *)

(* Faulty variant: a storage is not marked when it was freed. *)
FreedByNoMark(d, st, s) ==
  IF st[s].linked \/ st[s].on = "none" THEN {} ELSE EntriesOf(d, s)

(* The entries that free the storage s: the first of its entries, unless   *)
(* it is linked or not there.                                              *)
FreedBy(d, st, s) ==
  IF st[s].linked \/ st[s].on = "none" THEN {} ELSE {FirstEntry(d, s)}

(* A storage is freed on the device of the entry that frees it. *)
FreesWell(d, p, st) ==
  "storages" \in p =>
    \A s \in DOMAIN st :
      /\ Cardinality(FreedBy(d, st, s)) <= 1
      /\ \A e \in FreedBy(d, st, s) : d.device[e] = st[s].on

(* What a release forgets: the shapes go with the storages. *)
Loses(d, p, st) ==
  {part \in p : part = "shapes" /\ "storages" \notin p} \cup
  {<<"storage", s>> : s \in {x \in DOMAIN st :
                               /\ st[x].on # "none" /\ ~ st[x].linked
                               /\ FreedBy(d, st, x) = {}}}

Released ==
  /\ doc' = None
  /\ parts' = {}
  /\ storages' = NoStorages
  /\ data' = NoStorages

(* A failed creation: the executor is released, the module stays with the  *)
(* user.                                                                   *)
CreationFails(d, p, st, others) ==
  /\ Released
  /\ lost' = lost \cup Loses(d, p, st) \cup others
  /\ state' = IF FreesWell(d, p, st) THEN "up" ELSE "undefined"
  /\ status' = -1
  /\ UNCHANGED owner

-----------------------------------------------------------------------------
(* Running the nodes in order.                                             *)

(* The values of a node's inputs, and what it writes from them. *)
Read(d, n, at) ==
  [i \in DOMAIN Inputs(d, n) |->
     at[Sid(d, Inputs(d, n)[i][1], Inputs(d, n)[i][2])]]

(* Faulty variant: the entry of an output is its node's first one. *)
WritesFirst(d, n, at, values) ==
  [s \in DOMAIN at |->
     IF s = Sid(d, n, 1) THEN values[Outputs(d, n)] ELSE at[s]]

Writes(d, n, at, values) ==
  [s \in DOMAIN at |->
     IF \E k \in 1 .. Outputs(d, n) : Sid(d, n, k) = s
     THEN values[CHOOSE k \in 1 .. Outputs(d, n) : Sid(d, n, k) = s]
     ELSE at[s]]

Results(d, n, args) ==
  [k \in 1 .. Outputs(d, n) |-> <<d.nodes[n].func, k, args>>]

Executed(d, n, at) ==
  IF IsOp(d.nodes[n]) THEN Writes(d, n, at, Results(d, n, Read(d, n, at)))
  ELSE at

(* The storages after the first n nodes ran. *)
After(d, start, n) ==
  LET after[i \in 0 .. n] ==
        IF i = 0 THEN start ELSE Executed(d, i, after[i - 1])
  IN after[n]

Run ==
  /\ state = "up" /\ doc # None
  /\ IF "node_ops" \notin parts
     THEN state' = "undefined" /\ UNCHANGED <<data, status>>
     ELSE /\ \/ /\ data' = After(doc, data, Len(doc.nodes))
                /\ status' = 0
             \/ \E n \in {x \in DOMAIN doc.nodes : IsOp(doc.nodes[x])} :
                  /\ data' = Writes(doc, n, After(doc, data, n - 1),
                               [k \in 1 .. Outputs(doc, n) |-> Torn])
                  /\ status' = -1
          /\ UNCHANGED state
  /\ UNCHANGED <<doc, parts, storages, owner, extension, lost>>

-----------------------------------------------------------------------------
(* Creating and releasing.                                                 *)

(* Faulty variant: the executor takes the module before it is complete. *)
CreateTakes(d, devices) ==
  /\ state = "up" /\ doc = None /\ owner = "user"
  /\ \E a \in GraphExecutorLoad(d, devices) :
       IF a.end = "ok"
       THEN /\ doc' = d /\ parts' = a.parts /\ storages' = a.storages
            /\ data' = [s \in DOMAIN a.storages |-> Fresh]
            /\ status' = 0
            /\ UNCHANGED <<lost, state>>
       ELSE /\ Released /\ status' = -1
            /\ lost' = lost \cup Loses(d, a.parts, a.storages)
            /\ state' = IF a.end = "fails" THEN "up" ELSE "undefined"
  /\ owner' = IF status' = 0 THEN "executor" ELSE "nobody"
  /\ UNCHANGED extension

(* What is left of a capture: nothing if it has no stream yet, the stream  *)
(* if it fails before its end, the graph if it succeeds, and both if the   *)
(* graph cannot be instantiated.                                           *)
CaptureLeaves == {"stream", "graph"}

(* With the CUDA extension and CUDA as first device the run is captured;   *)
(* the answer for success is not the one that says there is no extension,  *)
(* so that the executor is released as after a failure, the extension with *)
(* it.  The graph of cuStreamEndCapture is never destroyed; a capture that *)
(* fails also leaves its stream.                                           *)
Create(d, devices) ==
  /\ state = "up" /\ doc = None /\ owner = "user"
  /\ \E a \in GraphExecutorLoad(d, devices) :
       CASE a.end = "undefined" ->
              state' = "undefined" /\ UNCHANGED <<graphVars, owner, lost, status>>
         [] a.end = "fails" -> CreationFails(d, a.parts, a.storages, {})
         [] a.end = "ok" /\ extension /\ devices[1] = "cuda" ->
              \E others \in SUBSET CaptureLeaves :
                CreationFails(d, a.parts, a.storages, others)
         [] OTHER ->
              /\ doc' = d
              /\ parts' = a.parts
              /\ storages' = a.storages
              /\ data' = [s \in DOMAIN a.storages |->
                            IF a.storages[s].linked
                            THEN <<"linked", s>> ELSE Fresh]
              /\ owner' = "executor"
              /\ status' = 0
              /\ UNCHANGED <<lost, state>>
  /\ UNCHANGED extension

Free ==
  /\ state = "up" /\ doc # None
  /\ Released
  /\ lost' = lost \cup Loses(doc, parts, storages)
  /\ state' = IF FreesWell(doc, parts, storages) THEN "up" ELSE "undefined"
  /\ owner' = "nobody"
  /\ status' = 0
  /\ UNCHANGED extension

(* The user opens another module. *)
OpenModule ==
  /\ state = "up" /\ owner = "nobody"
  /\ owner' = "user"
  /\ UNCHANGED <<graphVars, extension, lost, status, state>>

-----------------------------------------------------------------------------
(* Inputs and outputs.                                                     *)

InputEntry(d, index) == EntryId(d, d.args[index], 1)

(* The copy from or to a device may fail, one on the CPU does not. *)
CopyMayFail(e) == doc.device[e] # "cpu"

(* SetInput; an index out of range changes nothing. *)
SetInput(index, v) ==
  /\ state = "up" /\ doc # None
  /\ IF index \notin DOMAIN doc.args THEN status' = -2 /\ UNCHANGED data
     ELSE LET e == InputEntry(doc, index)
          IN \/ data' = [data EXCEPT ![doc.storage[e]] = v] /\ status' = 0
             \/ CopyMayFail(e) /\ status' = -1 /\ UNCHANGED data
  /\ UNCHANGED <<doc, parts, storages, owner, extension, lost, state>>

(* The index of the input of that name: the last one inserted. *)
InputIndex(d, name) ==
  LET hits == {i \in DOMAIN d.args : d.names[d.args[i]] = name}
  IN IF hits = {} THEN -1 ELSE CHOOSE i \in hits : \A j \in hits : j <= i

SetInputByName(name, v) ==
  IF state = "up" /\ doc # None /\ InputIndex(doc, name) = -1
  THEN status' = -1 /\ UNCHANGED <<graphVars, owner, extension, lost, state>>
  ELSE SetInput(InputIndex(doc, name), v)

Output(d, at, h) == at[Sid(d, d.heads[h][1], d.heads[h][2])]

(* GetOutput only reads. *)
GetOutput(h) ==
  /\ state = "up" /\ doc # None
  /\ \/ status' = IF h \in DOMAIN doc.heads THEN 0 ELSE -2
     \/ /\ h \in DOMAIN doc.heads
        /\ CopyMayFail(EntryId(doc, doc.heads[h][1], doc.heads[h][2]))
        /\ status' = -1
  /\ UNCHANGED <<graphVars, owner, extension, lost, state>>

-----------------------------------------------------------------------------
(* Parameters.  A blob b has                                               *)
(*   magic    whether it begins with the magic number                      *)
(*   names    the names of the parameters                                  *)
(*   tensors  of each [fits, val]: whether it has the input's dimensions   *)
(*   reads    how many of the reads of a complete blob its bytes are for   *)
(*   more     whether there are bytes after these, too few for another     *)
(*            read or behind the end                                       *)
(* The reads are: the magic number, a reserved word, the number of names,  *)
(* two for each name, the number of tensors, and TensorReads for each.     *)
TensorReads == 7

(* What the writer of a blob, a dictionary, has no other way to write. *)
NamesOnce(b) ==
  /\ b.names \in Seq(STRING) /\ b.reads \in Nat
  /\ \A i, j \in DOMAIN b.names : b.names[i] = b.names[j] => i = j

(* The first read that fails.  A reader of bytes fails when the read would *)
(* end where the bytes end; one of a file only behind the end.             *)
FirstFailing(b, reader) ==
  IF reader = "bytes" /\ ~ b.more THEN b.reads ELSE b.reads + 1

(* Where the names end: "fails", "quits" (with status 0), or "ok".  A name *)
(* that cannot be read to the buffer leaves the status of the read before. *)
NamesEnd(b, first) ==
  LET n == Len(b.names)
      unknown == {i \in 1 .. n : InputIndex(doc, b.names[i]) = -1}
  IN CASE first <= 3 \/ ~ b.magic -> "fails"
       [] \E i \in unknown : first > 3 + 2 * i -> "fails"
       [] first <= 3 + 2 * n -> IF first % 2 = 0 THEN "fails" ELSE "quits"
       [] first = 4 + 2 * n \/ Len(b.tensors) # n -> "fails"
       [] OTHER -> "ok"

ParamEntry(b, j) == InputEntry(doc, InputIndex(doc, b.names[j]))

TensorEnd(b, j) == 4 + 2 * Len(b.names) + TensorReads * j

(* The storages after the first m tensors were loaded. *)
Loaded(b, m) ==
  [s \in DOMAIN data |->
     LET hits == {j \in 1 .. m : doc.storage[ParamEntry(b, j)] = s}
     IN IF hits = {} THEN data[s]
        ELSE b.tensors[CHOOSE j \in hits : \A x \in hits : x <= j].val]

(* The tensor j is complete and of the right dimensions. *)
Loads(b, j, first) == b.tensors[j].fits /\ first > TensorEnd(b, j)

(* A tensor on the CPU is read in place: a file that ends in it leaves     *)
(* part of it there.                                                       *)
Tears(b, j, first, reader) ==
  /\ b.tensors[j].fits /\ first = TensorEnd(b, j) /\ b.more
  /\ reader = "file" /\ ~ CopyMayFail(ParamEntry(b, j))

(* Faulty variant: waiting for the device overwrites a tensor's status.    *)
LoadParamsOn(b, reader) ==
  /\ state = "up" /\ doc # None
  /\ LET first == FirstFailing(b, reader)
     IN IF NamesEnd(b, first) # "ok"
        THEN /\ status' = IF NamesEnd(b, first) = "quits" THEN 0 ELSE -1
             /\ UNCHANGED data
        ELSE \E m \in 0 .. Len(b.names) :
               /\ \A j \in 1 .. m : Loads(b, j, first)
               /\ m < Len(b.names) => ~ Loads(b, m + 1, first)
               /\ data' = Loaded(b, m)
               /\ status' = 0
  /\ UNCHANGED <<doc, parts, storages, owner, extension, lost, state>>

(* LoadParamsFromReader: all names are looked up before the first tensor   *)
(* is loaded.  A copy to a device may fail, and so may waiting for the     *)
(* first device at the end.                                                *)
LoadParams(b, reader) ==
  /\ state = "up" /\ doc # None
  /\ LET first == FirstFailing(b, reader)
         n == Len(b.names)
     IN CASE NamesEnd(b, first) = "fails" -> status' = -1 /\ UNCHANGED data
          [] NamesEnd(b, first) = "quits" -> status' = 0 /\ UNCHANGED data
          [] OTHER ->
               \E m \in 0 .. n :
                 /\ \A j \in 1 .. m : Loads(b, j, first)
                 /\ \/ /\ m = n
                       /\ data' = Loaded(b, n)
                       /\ status' \in IF \E e \in DOMAIN doc.device : CopyMayFail(e)
                                      THEN {0, -1} ELSE {0}
                    \/ /\ m < n
                       /\ ~ Loads(b, m + 1, first) \/ CopyMayFail(ParamEntry(b, m + 1))
                       /\ data' = IF Tears(b, m + 1, first, reader)
                                  THEN [Loaded(b, m) EXCEPT
                                          ![doc.storage[ParamEntry(b, m + 1)]] = Torn]
                                  ELSE Loaded(b, m)
                       /\ status' = -1
  /\ UNCHANGED <<doc, parts, storages, owner, extension, lost, state>>

Reader == {"bytes", "file"}

MaxIndex == 2

Next ==
  \/ \E d \in Doc, devices \in DeviceList : Create(d, devices)
  \/ Run
  \/ \E v \in Val : \/ \E index \in 1 .. MaxIndex : SetInput(index, v)
                    \/ \E b \in Blob : \E i \in DOMAIN b.names :
                         SetInputByName(b.names[i], v)
  \/ \E h \in 1 .. MaxIndex : GetOutput(h)
  \/ \E b \in Blob, reader \in Reader : LoadParams(b, reader)
  \/ Free
  \/ OpenModule

Spec == Init /\ [][Next]_vars
-----------------------------------------------------------------------------
(* Properties.                                                             *)

GraphTypeOK ==
  /\ doc \in Doc \cup {None}
  /\ parts \subseteq Part
  /\ doc = None => parts = {} /\ storages = NoStorages
  /\ DOMAIN data = DOMAIN storages
  /\ \A s \in DOMAIN storages :
       /\ storages[s].on \in {"cpu", "cuda", "none"}
       /\ storages[s].linked <=> storages[s].on = "none"
  /\ owner \in {"user", "executor", "nobody"}
  /\ state \in {"up", "undefined"}

(* "The function will get ownership of this module_handle if create        *)
(* successfully" (include/graph_executor.h:23): a creation that fails at   *)
(* any point leaves the module with the user, and an executor has it until *)
(* it is released with it.                                                 *)
OwnershipFollowsCreation ==
  [][/\ owner' = "executor" <=> doc' # None
     /\ owner = "user" => owner' \in {"executor", "user"}]_vars

(* A storage that several entries share is freed once, on the type of      *)
(* device it was allocated on, and never if it is linked: whether after a  *)
(* creation that failed half way or at the end (graph_executor.c:115-131). *)
(* All that is lost after any failure are the shapes, when the storages    *)
(* were not reached, and, of an executor that captures its run, the graph  *)
(* it captured and the stream of a capture that failed                     *)
(* (cuda_extension.c:102-106, :116): no storage, also of an executor that  *)
(* is released by a creation in which everything succeeded.                *)
ReleasesAreSound ==
  /\ state # "undefined"
  /\ lost \subseteq {"shapes"} \cup (IF extension THEN CaptureLeaves ELSE {})

(* The values of a node's entries by the graph alone, of those of the      *)
(* nodes it reads, or of the storages at the start.                        *)
NodeValues(d, start, val, n) ==
  LET args == [i \in DOMAIN Inputs(d, n) |->
                 val[Inputs(d, n)[i][1]][Inputs(d, n)[i][2]]]
  IN IF IsOp(d.nodes[n]) THEN Results(d, n, args)
     ELSE IF IsInput(d.nodes[n]) THEN <<start[Sid(d, n, 1)]>>
     ELSE args

Eval(d, start) ==
  LET val[n \in DOMAIN d.nodes] == NodeValues(d, start, val, n)
  IN val

(* A run that returns 0 leaves in every output what the graph computes of  *)
(* the inputs and parameters that were set before it, although entries     *)
(* share storages and whatever runs before it failed.                      *)
RunComputesTheGraph ==
  [][Run /\ status' = 0 /\ state' = "up" =>
       \A h \in DOMAIN doc.heads :
         Output(doc, data', h) =
           Eval(doc, data)[doc.heads[h][1]][doc.heads[h][2]]]_vars

(* The tensors of b are where the inputs of their names are. *)
InPlace(b, at) ==
  \A j \in DOMAIN b.names :
    /\ InputIndex(doc, b.names[j]) # -1
    /\ at[doc.storage[ParamEntry(b, j)]] = b.tensors[j].val

(* A load that returns 0 has loaded all of the parameters or none.         *)
ZeroMeansAllOrNothing ==
  [][\A b \in Blob, reader \in Reader :
       LoadParams(b, reader) /\ status' = 0 => InPlace(b, data') \/ data' = data]_vars
=============================================================================
