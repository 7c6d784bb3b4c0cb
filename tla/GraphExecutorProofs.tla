------------------------ MODULE GraphExecutorProofs ------------------------
(***************************************************************************)
(* Proofs about the graph executor, for any documents and devices without  *)
(* undefined behaviour of the loader: wherever creation ends, what was     *)
(* allocated until then is released once and on its device, and the module *)
(* has one owner.                                                          *)
(***************************************************************************)
EXTENDS GraphExecutor, FiniteSetTheorems, WellFoundedInduction, TLAPS

(* Every storage of memory of its own is on the device of the entry that   *)
(* will free it.                                                           *)
StoragesMatch(d, st) ==
  \A s \in DOMAIN st :
    st[s].linked \/ st[s].on = "none" \/ st[s].on = d.device[FirstEntry(d, s)]

OwnerOK ==
  /\ owner \in {"user", "executor", "nobody"}
  /\ owner = "executor" <=> doc # None

ExecutorOK ==
  doc # None => /\ {"storages", "node_ops"} \subseteq parts
                /\ StoragesMatch(doc, storages)

IInv == OwnerOK /\ ExecutorOK /\ ReleasesAreSound

-----------------------------------------------------------------------------
(* Loading.                                                                *)

LEMMA StoragesOK ==
  ASSUME NEW d \in Doc, Complete(d), NEW devices \in DeviceList, NEW k
  PROVE  StoragesMatch(d, Storages(d, devices, k))
<1> DEFINE st == Storages(d, devices, k)
<1> SUFFICES ASSUME NEW s \in Sids(d)
             PROVE  \/ st[s].linked \/ st[s].on = "none"
                    \/ st[s].on = d.device[FirstEntry(d, s)]
  BY DEF StoragesMatch, Storages
<1>1. StorageDevice(d, devices, s) = d.device[FirstEntry(d, s)]
  BY GraphAssumption DEF StorageDevice
<1> QED BY <1>1 DEF Storages

(* Each way in which loading can end.                                      *)
LEMMA AttemptOK ==
  ASSUME NEW d \in Doc, NEW devices \in DeviceList,
         NEW a \in GraphExecutorLoad(d, devices)
  PROVE  /\ a.end \in {"ok", "fails"}
         /\ StoragesMatch(d, a.storages)
         /\ a.end = "ok" => {"storages", "node_ops"} \subseteq a.parts
<1>1. StoragesMatch(d, NoStorages)
  BY DEF StoragesMatch, NoStorages
<1>2. CASE a \in ReadEnds(d)
  <2>1. PICK p : a = Attempt("fails", p, NoStorages)
    BY <1>2, GraphAssumption DEF ReadEnds
  <2> QED BY <1>1, <2>1 DEF Attempt
<1>3. CASE Complete(d) /\ a \in SetupEnds(d, devices)
  <2>1. "data_entry" \in PartsBefore(d, LastKey(d)) /\ d.storage # <<>>
    BY <1>3, GraphAssumption
  <2> DEFINE read == PartsBefore(d, LastKey(d))
             stored == (read \cup MapParts \cup {"outputs_map"}) \cup {"storages"}
  <2>2. \/ \E p : a = Attempt("fails", p, NoStorages)
        \/ \E p, k : a = Attempt("fails", p, Storages(d, devices, k))
        \/ \E k : a = Attempt(IF OpsKnown(d) THEN "ok" ELSE "fails",
                              stored \cup {"node_ops"}, Storages(d, devices, k))
    BY <1>3, <2>1 DEF SetupEnds
  <2>3. CASE \E p : a = Attempt("fails", p, NoStorages)
    BY <1>1, <2>3 DEF Attempt
  <2>4. CASE \E p, k : a = Attempt("fails", p, Storages(d, devices, k))
    BY <1>3, <2>4, StoragesOK DEF Attempt
  <2>5. CASE \E k : a = Attempt(IF OpsKnown(d) THEN "ok" ELSE "fails",
                                stored \cup {"node_ops"}, Storages(d, devices, k))
    BY <1>3, <2>5, StoragesOK DEF Attempt
  <2> QED BY <2>2, <2>3, <2>4, <2>5
<1> QED BY <1>2, <1>3 DEF GraphExecutorLoad

(* A release of storages that match frees each of them once, where it is,  *)
(* and forgets none.                                                       *)
LEMMA ReleaseOK ==
  ASSUME NEW d, NEW p, NEW st, StoragesMatch(d, st)
  PROVE  FreesWell(d, p, st) /\ Loses(d, p, st) \subseteq {"shapes"}
<1>1. ASSUME NEW s \in DOMAIN st
      PROVE  /\ Cardinality(FreedBy(d, st, s)) <= 1
             /\ \A e \in FreedBy(d, st, s) : d.device[e] = st[s].on
             /\ ~ st[s].linked /\ st[s].on # "none" => FreedBy(d, st, s) # {}
  <2>1. CASE st[s].linked \/ st[s].on = "none"
    BY <2>1, FS_EmptySet DEF FreedBy
  <2>2. CASE ~ (st[s].linked \/ st[s].on = "none")
    <3>1. FreedBy(d, st, s) = {FirstEntry(d, s)}
      BY <2>2 DEF FreedBy
    <3>2. st[s].on = d.device[FirstEntry(d, s)]
      BY <2>2 DEF StoragesMatch
    <3>3. Cardinality({FirstEntry(d, s)}) = 1
      BY FS_Singleton
    <3> QED BY <3>1, <3>2, <3>3
  <2> QED BY <2>1, <2>2
<1>2. FreesWell(d, p, st)
  BY <1>1 DEF FreesWell
<1>3. {x \in DOMAIN st : /\ st[x].on # "none" /\ ~ st[x].linked
                         /\ FreedBy(d, st, x) = {}} = {}
  BY <1>1
<1>4. Loses(d, p, st) \subseteq {"shapes"}
  BY <1>3 DEF Loses
<1> QED BY <1>2, <1>4

-----------------------------------------------------------------------------
(* The actions.                                                            *)

LEMMA InitOK == Init => IInv
BY DEF Init, IInv, OwnerOK, ExecutorOK, ReleasesAreSound

LEMMA CreationFailsOK ==
  ASSUME IInv, NEW d, NEW p, NEW st, StoragesMatch(d, st), doc = None,
         NEW others, others \subseteq IF extension THEN CaptureLeaves ELSE {},
         CreationFails(d, p, st, others), extension' = extension
  PROVE  IInv'
<1>1. FreesWell(d, p, st) /\ Loses(d, p, st) \subseteq {"shapes"}
  BY ReleaseOK
<1>2. /\ doc' = None /\ state' = "up" /\ owner' = owner
      /\ lost' = lost \cup Loses(d, p, st) \cup others
  BY <1>1 DEF CreationFails, Released
<1> QED BY <1>1, <1>2 DEF IInv, OwnerOK, ExecutorOK, ReleasesAreSound

LEMMA CreateOK ==
  ASSUME IInv, NEW d \in Doc, NEW devices \in DeviceList, Create(d, devices)
  PROVE  IInv'
<1>1. state = "up" /\ doc = None /\ owner = "user"
  BY DEF Create
<1>2. PICK a \in GraphExecutorLoad(d, devices) : Create(d, devices)!2!(a)
  BY DEF Create
<1>3. /\ a.end \in {"ok", "fails"}
      /\ StoragesMatch(d, a.storages)
      /\ a.end = "ok" => {"storages", "node_ops"} \subseteq a.parts
  BY AttemptOK
<1>7. extension' = extension
  BY DEF Create
<1>4. CASE a.end = "fails"
  <2>1. CreationFails(d, a.parts, a.storages, {})
    BY <1>2, <1>4
  <2> QED BY <1>1, <1>3, <1>7, <2>1, CreationFailsOK
<1>5. CASE a.end = "ok" /\ extension /\ devices[1] = "cuda"
  <2>1. PICK others \in SUBSET CaptureLeaves :
          CreationFails(d, a.parts, a.storages, others)
    BY <1>2, <1>5
  <2>2. others \subseteq IF extension THEN CaptureLeaves ELSE {}
    BY <1>5
  <2> QED BY <1>1, <1>3, <1>7, <2>1, <2>2, CreationFailsOK
<1>6. CASE a.end = "ok" /\ ~ (extension /\ devices[1] = "cuda")
  <2>1. /\ doc' = d /\ parts' = a.parts /\ storages' = a.storages
        /\ owner' = "executor" /\ UNCHANGED <<lost, state>>
    BY <1>2, <1>6
  <2>2. d # None
    BY GraphAssumption
  <2> QED BY <1>3, <1>6, <1>7, <2>1, <2>2
          DEF IInv, OwnerOK, ExecutorOK, ReleasesAreSound
<1> QED BY <1>3, <1>4, <1>5, <1>6

LEMMA FreeOK == ASSUME IInv, Free PROVE IInv'
<1>1. StoragesMatch(doc, storages)
  BY DEF Free, IInv, ExecutorOK
<1>2. /\ FreesWell(doc, parts, storages)
      /\ Loses(doc, parts, storages) \subseteq {"shapes"}
  BY <1>1, ReleaseOK
<1>3. /\ doc' = None /\ owner' = "nobody" /\ state' = "up"
      /\ lost' = lost \cup Loses(doc, parts, storages)
      /\ extension' = extension
  BY <1>2 DEF Free, Released
<1> QED BY <1>2, <1>3 DEF IInv, OwnerOK, ExecutorOK, ReleasesAreSound

(* What the other steps leave alone.                                       *)
LEMMA KeptOK ==
  ASSUME IInv, UNCHANGED <<doc, parts, storages, extension, lost>>,
         state' = "up",
         owner' = owner \/ (owner = "nobody" /\ owner' = "user")
  PROVE  IInv'
BY DEF IInv, OwnerOK, ExecutorOK, ReleasesAreSound

LEMMA RunOK == ASSUME IInv, Run PROVE IInv'
<1>1. "node_ops" \in parts
  BY DEF Run, IInv, ExecutorOK
<1>2. UNCHANGED <<doc, parts, storages, extension, lost, owner>> /\ state' = "up"
  BY <1>1 DEF Run
<1> QED BY <1>2, KeptOK

LEMMA SetInputOK ==
  ASSUME IInv, NEW index, NEW v, SetInput(index, v)
  PROVE  IInv'
<1>1. UNCHANGED <<doc, parts, storages, extension, lost, owner>> /\ state' = "up"
  BY DEF SetInput
<1> QED BY <1>1, KeptOK

LEMMA SetInputByNameOK ==
  ASSUME IInv, NEW name, NEW v, SetInputByName(name, v)
  PROVE  IInv'
<1>1. CASE state = "up" /\ doc # None /\ InputIndex(doc, name) = -1
  <2>1. UNCHANGED <<doc, parts, storages, extension, lost, owner>> /\ state' = "up"
    BY <1>1 DEF SetInputByName, graphVars
  <2> QED BY <2>1, KeptOK
<1>2. CASE ~ (state = "up" /\ doc # None /\ InputIndex(doc, name) = -1)
  BY <1>2, SetInputOK DEF SetInputByName
<1> QED BY <1>1, <1>2

LEMMA InvStep == IInv /\ [Next]_vars => IInv'
<1> SUFFICES ASSUME IInv, [Next]_vars PROVE IInv'
  OBVIOUS
<1>1. CASE UNCHANGED vars
  BY <1>1 DEF vars, graphVars, IInv, OwnerOK, ExecutorOK, ReleasesAreSound
<1>2. ASSUME NEW h, GetOutput(h) PROVE IInv'
  BY <1>2, KeptOK DEF GetOutput, graphVars
<1>3. ASSUME NEW b, NEW reader, LoadParams(b, reader) PROVE IInv'
  BY <1>3, KeptOK DEF LoadParams
<1>4. CASE OpenModule
  BY <1>4, KeptOK DEF OpenModule, graphVars
<1>5. CASE Next
  BY <1>2, <1>3, <1>4, <1>5, CreateOK, RunOK, SetInputOK, SetInputByNameOK,
     FreeOK DEF Next
<1> QED BY <1>1, <1>5

LEMMA Invariant == Spec => []IInv
BY InitOK, InvStep, PTL DEF Spec

-----------------------------------------------------------------------------
(* The storages after n nodes, and the values of the graph, are defined by *)
(* recursion over the nodes.  That such functions exist, and that they are *)
(* as their definitions say, is by the least number for which it would not *)
(* be so.                                                                  *)

LEMMA LeastExists ==
  ASSUME NEW S \in SUBSET Nat, S # {}
  PROVE  \E k \in S : \A l \in S : k <= l
<1>1. PICK k \in S : ~ \E l \in S : <<l, k>> \in OpToRel(<, Nat)
  BY WFMin, NatLessThanWellFounded, Zenon
<1>2. \A l \in S : ~ (l < k)
  BY <1>1, Zenon DEF OpToRel
<1> QED BY <1>2

LEMMA LargestExists ==
  ASSUME NEW n \in Nat, NEW S \in SUBSET (1 .. n), S # {}
  PROVE  \E i \in S : \A j \in S : j <= i
<1> DEFINE T == {k \in Nat : n - k \in S}
<1>1. PICK x \in S : TRUE
  OBVIOUS
<1>2. n - x \in T
  <2>1. x \in 1 .. n /\ n - x \in Nat /\ n - (n - x) = x
    OBVIOUS
  <2> QED BY <2>1
<1>3. T \subseteq Nat /\ T # {}
  BY <1>2
<1>4. PICK k \in T : \A l \in T : k <= l
  BY <1>3, LeastExists
<1>5. n - k \in S
  BY <1>4
<1>6. \A j \in S : j <= n - k
  <2> SUFFICES ASSUME NEW j \in S PROVE j <= n - k
    OBVIOUS
  <2>1. j \in 1 .. n /\ n - j \in Nat /\ n - (n - j) = j
    OBVIOUS
  <2>2. n - j \in T
    BY <2>1
  <2>3. k <= n - j /\ k \in Nat
    BY <1>4, <2>2
  <2> QED BY <2>1, <2>3
<1> QED BY <1>5, <1>6

(* A function that has run the first n nodes.                              *)
Ran(d, start, n, f) ==
  f = [i \in 0 .. n |-> IF i = 0 THEN start ELSE Executed(d, i, f[i - 1])]

LEMMA RanExists ==
  ASSUME NEW d, NEW start, NEW n \in Nat
  PROVE  \E f : Ran(d, start, n, f)
<1> DEFINE S == {k \in Nat : ~ \E f : Ran(d, start, k, f)}
<1> SUFFICES ASSUME S # {} PROVE FALSE
  OBVIOUS
<1>1. PICK k \in S : \A l \in S : k <= l
  BY LeastExists
<1>2. CASE k = 0
  <2> DEFINE f == [i \in 0 .. 0 |-> start]
  <2>1. f = [i \in 0 .. 0 |-> IF i = 0 THEN start ELSE Executed(d, i, f[i - 1])]
    OBVIOUS
  <2>2. Ran(d, start, 0, f)
    BY <2>1 DEF Ran
  <2> QED BY <2>2, <1>2
<1>3. CASE k # 0
  <2>1. k \in Nat /\ k - 1 \in Nat /\ k - 1 \notin S
    BY <1>1, <1>3
  <2>2. PICK g : Ran(d, start, k - 1, g)
    BY <2>1
  <2> DEFINE f == [i \in 0 .. k |-> IF i < k THEN g[i] ELSE Executed(d, k, g[k - 1])]
  <2>3. ASSUME NEW i \in 0 .. k
        PROVE  f[i] = IF i = 0 THEN start ELSE Executed(d, i, f[i - 1])
    <3>1. CASE i = 0
      <4>1. f[0] = g[0] /\ g[0] = start
        BY <2>1, <2>2, <1>3 DEF Ran
      <4> QED BY <3>1, <4>1
    <3>2. CASE i # 0
      <4>1. i - 1 \in 0 .. k - 1 /\ i - 1 \in 0 .. k /\ i - 1 < k
        BY <3>2, <2>1
      <4>2. f[i - 1] = g[i - 1]
        BY <4>1
      <4>3. CASE i = k
        <5>1. f[i] = Executed(d, k, g[k - 1])
          BY <4>3
        <5> QED BY <5>1, <4>2, <4>3, <3>2
      <4>4. CASE i # k
        <5>1. i \in 0 .. k - 1 /\ f[i] = g[i]
          BY <4>4, <2>1
        <5>2. g[i] = Executed(d, i, g[i - 1])
          BY <5>1, <2>2, <3>2 DEF Ran
        <5> QED BY <5>1, <5>2, <4>2, <3>2
      <4> QED BY <4>3, <4>4
    <3> QED BY <3>1, <3>2
  <2>4. f = [i \in 0 .. k |-> f[i]]
    OBVIOUS
  <2> HIDE DEF f
  <2>5. f = [i \in 0 .. k |-> IF i = 0 THEN start ELSE Executed(d, i, f[i - 1])]
    BY <2>3, <2>4
  <2>6. Ran(d, start, k, f)
    BY <2>5 DEF Ran
  <2> QED BY <2>6, <1>1
<1> QED BY <1>2, <1>3

LEMMA RanAgrees ==
  ASSUME NEW d, NEW start, NEW n \in Nat, NEW m \in 0 .. n, NEW f, NEW g,
         Ran(d, start, n, f), Ran(d, start, m, g)
  PROVE  \A i \in 0 .. m : f[i] = g[i]
<1> DEFINE S == {i \in 0 .. m : f[i] # g[i]}
<1> SUFFICES ASSUME S # {} PROVE FALSE
  OBVIOUS
<1>1. S \subseteq Nat
  OBVIOUS
<1>2. PICK i \in S : \A j \in S : i <= j
  BY <1>1, LeastExists
<1>3. i \in 0 .. m /\ i \in 0 .. n /\ f[i] # g[i]
  BY <1>2
<1>4. f[i] = IF i = 0 THEN start ELSE Executed(d, i, f[i - 1])
  BY <1>3 DEF Ran
<1>5. g[i] = IF i = 0 THEN start ELSE Executed(d, i, g[i - 1])
  BY <1>3 DEF Ran
<1>6. i # 0
  BY <1>3, <1>4, <1>5
<1>7. i - 1 \in 0 .. m /\ ~ (i <= i - 1)
  BY <1>3, <1>6
<1>8. f[i - 1] = g[i - 1]
  BY <1>2, <1>7
<1> QED BY <1>3, <1>4, <1>5, <1>6, <1>8

LEMMA AfterUnfolds ==
  ASSUME NEW d, NEW start
  PROVE  /\ After(d, start, 0) = start
         /\ \A n \in Nat \ {0} :
              After(d, start, n) = Executed(d, n, After(d, start, n - 1))
<1>1. ASSUME NEW n \in Nat
      PROVE  \E f : Ran(d, start, n, f) /\ After(d, start, n) = f[n]
  <2> DEFINE f == CHOOSE f : f = [i \in 0 .. n |->
                    IF i = 0 THEN start ELSE Executed(d, i, f[i - 1])]
  <2>1. \E g : g = [i \in 0 .. n |->
                   IF i = 0 THEN start ELSE Executed(d, i, g[i - 1])]
    <3>1. PICK g : Ran(d, start, n, g)
      BY RanExists
    <3> QED BY <3>1 DEF Ran
  <2>2. f = [i \in 0 .. n |-> IF i = 0 THEN start ELSE Executed(d, i, f[i - 1])]
    BY <2>1
  <2>3. After(d, start, n) = f[n]
    BY DEF After
  <2> HIDE DEF f
  <2> QED BY <2>2, <2>3 DEF Ran
<1>2. After(d, start, 0) = start
  <2>1. PICK f : Ran(d, start, 0, f) /\ After(d, start, 0) = f[0]
    BY <1>1
  <2> QED BY <2>1 DEF Ran
<1>3. ASSUME NEW n \in Nat \ {0}
      PROVE  After(d, start, n) = Executed(d, n, After(d, start, n - 1))
  <2>1. n \in Nat /\ n - 1 \in Nat /\ n - 1 \in 0 .. n /\ n \in 0 .. n
        /\ n - 1 \in 0 .. n - 1
    OBVIOUS
  <2>2. PICK f : Ran(d, start, n, f) /\ After(d, start, n) = f[n]
    BY <1>1
  <2>3. PICK g : Ran(d, start, n - 1, g) /\ After(d, start, n - 1) = g[n - 1]
    BY <1>1, <2>1
  <2>4. f[n - 1] = g[n - 1]
    BY <2>1, <2>2, <2>3, RanAgrees
  <2>5. f[n] = Executed(d, n, f[n - 1])
    BY <2>1, <2>2 DEF Ran
  <2> QED BY <2>2, <2>3, <2>4, <2>5
<1> QED BY <1>2, <1>3

(* No node changes which storages there are.                               *)
LEMMA AfterDomain ==
  ASSUME NEW d, NEW start, NEW n \in Nat
  PROVE  DOMAIN After(d, start, n) = DOMAIN start
<1> DEFINE S == {k \in Nat : DOMAIN After(d, start, k) # DOMAIN start}
<1> SUFFICES ASSUME S # {} PROVE FALSE
  OBVIOUS
<1>1. PICK k \in S : \A l \in S : k <= l
  BY LeastExists
<1>2. k # 0
  BY <1>1, AfterUnfolds
<1>3. k \in Nat \ {0} /\ k - 1 \in Nat /\ k - 1 \notin S
  BY <1>1, <1>2
<1>4. DOMAIN After(d, start, k - 1) = DOMAIN start
  BY <1>3
<1>5. \A at : DOMAIN Executed(d, k, at) = DOMAIN at
  BY DEF Executed, Writes
<1> QED BY <1>1, <1>3, <1>4, <1>5, AfterUnfolds

(* The values of the first n nodes.                                        *)
Valued(d, start, n, f) == f = [x \in 1 .. n |-> NodeValues(d, start, f, x)]

LEMMA ValuesAreLocal ==
  ASSUME NEW d, InOrder(d), NEW start, NEW f, NEW g, NEW n \in DOMAIN d.nodes,
         \A x \in 1 .. n - 1 : f[x] = g[x]
  PROVE  NodeValues(d, start, f, n) = NodeValues(d, start, g, n)
<1> DEFINE in == Inputs(d, n)
<1>1. \A i \in DOMAIN in : in[i][1] \in 1 .. n - 1
  BY DEF InOrder
<1>2. [i \in DOMAIN in |-> f[in[i][1]][in[i][2]]]
        = [i \in DOMAIN in |-> g[in[i][1]][in[i][2]]]
  BY <1>1
<1> QED BY <1>2 DEF NodeValues

LEMMA ValuedExists ==
  ASSUME NEW d, InOrder(d), NEW start
  PROVE  \E f : Valued(d, start, Len(d.nodes), f)
<1> DEFINE N == Len(d.nodes)
<1>1. N \in Nat /\ DOMAIN d.nodes = 1 .. N
  BY DEF InOrder
<1> HIDE DEF N
<1> DEFINE S == {k \in 0 .. N : ~ \E f : Valued(d, start, k, f)}
<1> SUFFICES ASSUME S # {} PROVE FALSE
  BY <1>1 DEF N
<1>2. S \subseteq Nat
  BY <1>1
<1>3. PICK k \in S : \A l \in S : k <= l
  BY <1>2, LeastExists
<1>4. CASE k = 0
  <2> DEFINE f == [x \in 1 .. 0 |-> start]
  <2>1. f = [x \in 1 .. 0 |-> NodeValues(d, start, f, x)]
    OBVIOUS
  <2>2. Valued(d, start, 0, f)
    BY <2>1 DEF Valued
  <2> QED BY <2>2, <1>3, <1>4
<1>5. CASE k # 0
  <2>1. k \in 1 .. N /\ k \in Nat /\ k - 1 \in 0 .. N /\ ~ (k <= k - 1)
    BY <1>1, <1>3, <1>5
  <2>2. k - 1 \notin S
    BY <1>3, <2>1
  <2>3. PICK g : Valued(d, start, k - 1, g)
    BY <2>1, <2>2
  <2> DEFINE f == [x \in 1 .. k |-> IF x < k THEN g[x] ELSE NodeValues(d, start, g, k)]
  <2>4. \A x \in 1 .. k - 1 : x \in 1 .. k /\ x < k
    BY <2>1
  <2>5. \A x \in 1 .. k - 1 : f[x] = g[x]
    BY <2>4
  <2>6. f[k] = NodeValues(d, start, g, k)
    BY <2>1
  <2>7. f = [x \in 1 .. k |-> f[x]]
    OBVIOUS
  <2> HIDE DEF f
  <2>8. ASSUME NEW x \in 1 .. k PROVE f[x] = NodeValues(d, start, f, x)
    <3>1. x \in DOMAIN d.nodes
      BY <1>1, <2>1
    <3>2. \A y \in 1 .. x - 1 : y \in 1 .. k - 1
      BY <2>1
    <3>3. NodeValues(d, start, f, x) = NodeValues(d, start, g, x)
      BY <3>1, <3>2, <2>5, ValuesAreLocal
    <3>4. CASE x = k
      BY <3>3, <3>4, <2>6
    <3>5. CASE x # k
      <4>1. x \in 1 .. k - 1
        BY <3>5, <2>1
      <4>2. g[x] = NodeValues(d, start, g, x)
        BY <4>1, <2>3 DEF Valued
      <4> QED BY <4>1, <4>2, <3>3, <2>5
    <3> QED BY <3>4, <3>5
  <2>9. f = [x \in 1 .. k |-> NodeValues(d, start, f, x)]
    BY <2>7, <2>8
  <2>10. Valued(d, start, k, f)
    BY <2>9 DEF Valued
  <2> QED BY <2>10, <1>3
<1> QED BY <1>4, <1>5

LEMMA EvalUnfolds ==
  ASSUME NEW d, InOrder(d), NEW start, NEW n \in DOMAIN d.nodes
  PROVE  Eval(d, start)[n] = NodeValues(d, start, Eval(d, start), n)
<1> DEFINE f == CHOOSE f : f = [x \in DOMAIN d.nodes |-> NodeValues(d, start, f, x)]
<1>1. DOMAIN d.nodes = 1 .. Len(d.nodes)
  BY DEF InOrder
<1>2. PICK g : g = [x \in DOMAIN d.nodes |-> NodeValues(d, start, g, x)]
  BY <1>1, ValuedExists, SMTT(60) DEF Valued
<1>3. f = [x \in DOMAIN d.nodes |-> NodeValues(d, start, f, x)]
  BY <1>2
<1>4. Eval(d, start) = f
  BY DEF Eval
<1> HIDE DEF f
<1> QED BY <1>3, <1>4

-----------------------------------------------------------------------------
(* A run and the graph.                                                    *)

(* After n nodes every output that is still to be read, of a node that ran *)
(* or an input, is where it will be read.                                  *)
Agrees(d, start, n) ==
  \A r \in n + 1 .. Len(d.nodes) + 1 : \A x \in ReadBy(d, r) :
    x[1] <= n \/ IsInput(d.nodes[x[1]]) =>
      After(d, start, n)[Sid(d, x[1], x[2])] = Eval(d, start)[x[1]][x[2]]

LEMMA ReadsAreBefore ==
  ASSUME NEW d, InOrder(d), NEW r \in 1 .. Len(d.nodes) + 1, NEW x \in ReadBy(d, r)
  PROVE  /\ x[1] \in DOMAIN d.nodes /\ x[1] \in 1 .. r - 1
         /\ x[2] \in 1 .. Outputs(d, x[1])
         /\ Len(d.nodes) \in Nat /\ DOMAIN d.nodes = 1 .. Len(d.nodes)
<1>1. Len(d.nodes) \in Nat /\ DOMAIN d.nodes = 1 .. Len(d.nodes)
  BY DEF InOrder
<1>2. CASE r \in DOMAIN d.nodes
  <2>1. PICK i \in DOMAIN Inputs(d, r) : x = Inputs(d, r)[i]
    BY <1>2 DEF ReadBy
  <2>2. /\ x[1] \in 1 .. r - 1
        /\ x[2] \in 1 .. Outputs(d, x[1])
    BY <1>2, <2>1 DEF InOrder
  <2>3. x[1] \in 1 .. Len(d.nodes)
    BY <1>1, <2>2
  <2> QED BY <1>1, <2>2, <2>3
<1>3. CASE r \notin DOMAIN d.nodes
  <2>1. r = Len(d.nodes) + 1
    BY <1>1, <1>3
  <2>2. PICK h \in DOMAIN d.heads : x = d.heads[h]
    BY <1>3 DEF ReadBy
  <2>3. x[1] \in DOMAIN d.nodes /\ x[2] \in 1 .. Outputs(d, x[1])
    BY <2>2 DEF InOrder
  <2>4. x[1] \in 1 .. r - 1
    BY <1>1, <2>1, <2>3
  <2> QED BY <1>1, <2>3, <2>4
<1> QED BY <1>2, <1>3

LEMMA AgreesAtStart ==
  ASSUME NEW d, InOrder(d), NEW start
  PROVE  Agrees(d, start, 0)
<1> SUFFICES ASSUME NEW r \in 1 .. Len(d.nodes) + 1, NEW x \in ReadBy(d, r),
                    x[1] <= 0 \/ IsInput(d.nodes[x[1]])
             PROVE  After(d, start, 0)[Sid(d, x[1], x[2])] = Eval(d, start)[x[1]][x[2]]
  BY DEF Agrees
<1>1. /\ x[1] \in DOMAIN d.nodes /\ x[1] \in 1 .. r - 1
      /\ x[2] \in 1 .. Outputs(d, x[1])
  BY ReadsAreBefore
<1>2. IsInput(d.nodes[x[1]])
  BY <1>1
<1>3. Outputs(d, x[1]) = 1
  BY <1>1, <1>2 DEF InOrder
<1>4. x[2] = 1
  BY <1>1, <1>3
<1>5. ~ IsOp(d.nodes[x[1]])
  BY <1>2 DEF IsInput, IsOp
<1>6. Eval(d, start)[x[1]] = <<start[Sid(d, x[1], 1)]>>
  BY <1>1, <1>2, <1>5, EvalUnfolds DEF NodeValues
<1> QED BY <1>4, <1>6, AfterUnfolds

(* What a node reads is what the graph says it is.                         *)
LEMMA ArgumentsAgree ==
  ASSUME NEW d, InOrder(d), NEW start, NEW n \in DOMAIN d.nodes,
         Agrees(d, start, n - 1), NEW i \in DOMAIN Inputs(d, n)
  PROVE  After(d, start, n - 1)[Sid(d, Inputs(d, n)[i][1],
                                       Inputs(d, n)[i][2])]
           = Eval(d, start)[Inputs(d, n)[i][1]][Inputs(d, n)[i][2]]
<1> DEFINE x == Inputs(d, n)[i]
<1>1. Len(d.nodes) \in Nat /\ n \in 1 .. Len(d.nodes)
  BY DEF InOrder
<1>2. n \in n - 1 + 1 .. Len(d.nodes) + 1
  BY <1>1
<1>3. x \in ReadBy(d, n)
  BY DEF ReadBy
<1>4. x[1] \in 1 .. n - 1
  BY DEF InOrder
<1> HIDE DEF x
<1>5. x[1] <= n - 1
  BY <1>1, <1>4
<1>6. After(d, start, n - 1)[Sid(d, x[1], x[2])] = Eval(d, start)[x[1]][x[2]]
  BY <1>2, <1>3, <1>5 DEF Agrees
<1> QED BY <1>6 DEF x

(* An operator writes its outputs, and no storage of what is to be read.   *)
LEMMA OperatorWrites ==
  ASSUME NEW d, InOrder(d), SharesWell(d), NEW n \in DOMAIN d.nodes,
         IsOp(d.nodes[n]), NEW at, DOMAIN at = Sids(d), NEW values,
         NEW r \in n + 1 .. Len(d.nodes) + 1, NEW x \in ReadBy(d, r)
  PROVE  /\ x[1] = n => Writes(d, n, at, values)[Sid(d, x[1], x[2])] = values[x[2]]
         /\ x[1] < n \/ IsInput(d.nodes[x[1]]) =>
              Writes(d, n, at, values)[Sid(d, x[1], x[2])] = at[Sid(d, x[1], x[2])]
<1> DEFINE s == Sid(d, x[1], x[2])
<1>1. n \in 1 .. Len(d.nodes) /\ Len(d.nodes) \in Nat
  BY DEF InOrder
<1>2. r \in 1 .. Len(d.nodes) + 1 /\ n \in 1 .. r - 1
  BY <1>1
<1>3. /\ x[1] \in DOMAIN d.nodes /\ x[1] \in 1 .. r - 1
      /\ x[2] \in 1 .. Outputs(d, x[1])
  BY <1>2, ReadsAreBefore
<1>4. s \in Sids(d)
  BY <1>3 DEF InOrder, Sid, Sids
<1>5. CASE x[1] = n
  <2>1. \A k \in 1 .. Outputs(d, n) : Sid(d, n, k) = Sid(d, n, x[2]) => k = x[2]
    BY <1>3, <1>5 DEF SharesWell
  <2>2. \E k \in 1 .. Outputs(d, n) : Sid(d, n, k) = s
    BY <1>3, <1>5
  <2>3. (CHOOSE k \in 1 .. Outputs(d, n) : Sid(d, n, k) = s) = x[2]
    BY <1>3, <1>5, <2>1
  <2>4. Writes(d, n, at, values)[s] = values[x[2]]
    BY <1>4, <2>2, <2>3 DEF Writes
  <2>5. ~ IsInput(d.nodes[x[1]]) /\ ~ (x[1] < n)
    BY <1>1, <1>5 DEF IsInput, IsOp
  <2> QED BY <2>4, <2>5
<1>6. CASE x[1] < n \/ IsInput(d.nodes[x[1]])
  <2>1. n \in {w \in 1 .. r - 1 : w \in DOMAIN d.nodes /\ IsOp(d.nodes[w])}
    BY <1>2
  <2>2. (\E k \in 1 .. Outputs(d, n) : Sid(d, n, k) = s)
           => n <= x[1] /\ ~ IsInput(d.nodes[x[1]])
    BY <1>2, <2>1 DEF SharesWell
  <2>3. ~ \E k \in 1 .. Outputs(d, n) : Sid(d, n, k) = s
    BY <1>1, <1>3, <1>6, <2>2
  <2>4. Writes(d, n, at, values)[s] = at[s]
    BY <1>4, <2>3 DEF Writes
  <2>5. x[1] # n
    BY <1>1, <1>6 DEF IsInput, IsOp
  <2> QED BY <2>4, <2>5
<1> QED BY <1>5, <1>6

(* A node that is no operator passes its inputs on.                        *)
LEMMA NoOperatorPasses ==
  ASSUME NEW d, InOrder(d), NEW n \in DOMAIN d.nodes,
         ~ IsOp(d.nodes[n]), ~ IsInput(d.nodes[n]), NEW k \in 1 .. Outputs(d, n)
  PROVE  /\ k \in DOMAIN Inputs(d, n)
         /\ Sid(d, n, k) = Sid(d, Inputs(d, n)[k][1], Inputs(d, n)[k][2])
  BY DEF InOrder

LEMMA AgreesStep ==
  ASSUME NEW d, InOrder(d), SharesWell(d), NEW start, DOMAIN start = Sids(d),
         NEW n \in DOMAIN d.nodes, Agrees(d, start, n - 1)
  PROVE  Agrees(d, start, n)
<1> DEFINE at == After(d, start, n - 1)
<1> DEFINE val == Eval(d, start)
<1>1. Len(d.nodes) \in Nat /\ n \in 1 .. Len(d.nodes) /\ n \in Nat \ {0} /\ n - 1 \in Nat
  BY DEF InOrder
<1>2. DOMAIN at = Sids(d)
  BY <1>1, AfterDomain
<1>3. After(d, start, n) = Executed(d, n, at)
  BY <1>1, AfterUnfolds, ZenonT(60)
<1>4. Read(d, n, at) = [i \in DOMAIN Inputs(d, n) |->
                          val[Inputs(d, n)[i][1]][Inputs(d, n)[i][2]]]
  BY ArgumentsAgree DEF Read
<1>5. val[n] = NodeValues(d, start, val, n)
  BY EvalUnfolds
<1> SUFFICES ASSUME NEW r \in n + 1 .. Len(d.nodes) + 1, NEW x \in ReadBy(d, r),
                    x[1] <= n \/ IsInput(d.nodes[x[1]])
             PROVE  After(d, start, n)[Sid(d, x[1], x[2])] = val[x[1]][x[2]]
  BY DEF Agrees
<1>6. r \in n - 1 + 1 .. Len(d.nodes) + 1 /\ r \in 1 .. Len(d.nodes) + 1
  BY <1>1
<1>7. /\ x[1] \in DOMAIN d.nodes /\ x[1] \in 1 .. r - 1
      /\ x[2] \in 1 .. Outputs(d, x[1])
  BY <1>6, ReadsAreBefore
<1>8. (x[1] <= n - 1 \/ IsInput(d.nodes[x[1]])) =>
        at[Sid(d, x[1], x[2])] = val[x[1]][x[2]]
  BY <1>6 DEF Agrees
<1>n. x[1] \in Int /\ n \in Int
  BY <1>1, <1>7
<1>9. x[1] = n \/ x[1] <= n - 1 \/ IsInput(d.nodes[x[1]])
  BY <1>n
<1>10. x[1] <= n - 1 => x[1] < n
  BY <1>n
<1> HIDE DEF at, val
<1>11. CASE IsOp(d.nodes[n])
  <2> DEFINE values == Results(d, n, Read(d, n, at))
  <2>1. After(d, start, n) = Writes(d, n, at, values)
    BY <1>3, <1>11 DEF Executed
  <2>2. val[n] = values
    BY <1>4, <1>5, <1>11 DEF NodeValues
  <2> HIDE DEF values
  <2>3. CASE x[1] = n
    <3>1. Writes(d, n, at, values)[Sid(d, x[1], x[2])] = values[x[2]]
      BY <2>3, <1>2, <1>11, OperatorWrites
    <3> QED BY <3>1, <2>1, <2>2, <2>3
  <2>4. CASE x[1] <= n - 1 \/ IsInput(d.nodes[x[1]])
    <3>1. Writes(d, n, at, values)[Sid(d, x[1], x[2])] = at[Sid(d, x[1], x[2])]
      BY <2>4, <1>2, <1>10, <1>11, OperatorWrites
    <3> QED BY <3>1, <2>1, <2>4, <1>8
  <2> QED BY <2>3, <2>4, <1>9
<1>12. CASE ~ IsOp(d.nodes[n])
  <2>1. After(d, start, n) = at
    BY <1>3, <1>12 DEF Executed
  <2>2. CASE x[1] <= n - 1 \/ IsInput(d.nodes[x[1]])
    BY <2>1, <2>2, <1>8
  <2>3. CASE x[1] = n /\ ~ IsInput(d.nodes[n])
    <3> DEFINE k == x[2]
    <3> DEFINE y == Inputs(d, n)[k]
    <3>1. k \in 1 .. Outputs(d, n)
      BY <1>7, <2>3
    <3>2. k \in DOMAIN Inputs(d, n) /\ Sid(d, n, k) = Sid(d, y[1], y[2])
      BY <1>12, <2>3, <3>1, NoOperatorPasses
    <3>3. val[n][k] = val[y[1]][y[2]]
      <4> HIDE DEF k
      <4>1. val[n] = [i \in DOMAIN Inputs(d, n) |->
                        val[Inputs(d, n)[i][1]][Inputs(d, n)[i][2]]]
        BY <1>5, <1>12, <2>3 DEF NodeValues
      <4> QED BY <3>2, <4>1
    <3>4. at[Sid(d, y[1], y[2])] = val[y[1]][y[2]]
      <4> HIDE DEF k
      <4> QED BY <3>2, ArgumentsAgree DEF at, val
    <3> QED BY <2>1, <2>3, <3>2, <3>3, <3>4
  <2> QED BY <1>9, <2>2, <2>3
<1> QED BY <1>11, <1>12

(* So that a run leaves the values of the graph in the outputs.            *)
LEMMA RunGivesGraph ==
  ASSUME NEW d, InOrder(d), SharesWell(d), NEW start, DOMAIN start = Sids(d),
         NEW h \in DOMAIN d.heads
  PROVE  Output(d, After(d, start, Len(d.nodes)), h)
           = Eval(d, start)[d.heads[h][1]][d.heads[h][2]]
<1> DEFINE N == Len(d.nodes)
<1>1. N \in Nat /\ DOMAIN d.nodes = 1 .. N
  BY DEF InOrder
<1>2. Agrees(d, start, N)
  <2> DEFINE S == {k \in 0 .. N : ~ Agrees(d, start, k)}
  <2> SUFFICES ASSUME S # {} PROVE FALSE
    BY <1>1
  <2> HIDE DEF N
  <2>1. S \subseteq Nat
    BY <1>1
  <2>2. PICK k \in S : \A l \in S : k <= l
    BY <2>1, LeastExists
  <2>3. k # 0
    BY <2>2, AgreesAtStart
  <2>4. k \in DOMAIN d.nodes /\ k - 1 \in 0 .. N /\ ~ (k <= k - 1)
    BY <1>1, <2>2, <2>3
  <2>5. Agrees(d, start, k - 1)
    BY <2>2, <2>4
  <2> QED BY <2>2, <2>4, <2>5, AgreesStep
<1>3. d.heads[h] \in ReadBy(d, N + 1)
  BY <1>1 DEF ReadBy
<1>4. d.heads[h][1] <= N
  BY <1>1 DEF InOrder
<1>5. N + 1 \in N + 1 .. N + 1
  BY <1>1
<1> QED BY <1>2, <1>3, <1>4, <1>5 DEF Agrees, Output

-----------------------------------------------------------------------------
(* Types, and what the document of an executor went through.               *)

DocumentOK ==
  doc # None => /\ Complete(doc) /\ OpsKnown(doc)
                /\ DOMAIN storages = Sids(doc)

TypeInv == GraphTypeOK /\ DocumentOK

LEMMA PartsAreParts ==
  ASSUME NEW d, NEW i
  PROVE  PartsBefore(d, i) \subseteq Part
<1>1. \A key : PartsOf(d, key) \subseteq Part
  BY DEF PartsOf, Part
<1> QED BY <1>1 DEF PartsBefore

LEMMA AttemptTypes ==
  ASSUME NEW d \in Doc, NEW devices \in DeviceList,
         NEW a \in GraphExecutorLoad(d, devices), a.end = "ok"
  PROVE  /\ Complete(d) /\ OpsKnown(d)
         /\ a.parts \subseteq Part
         /\ DOMAIN a.storages = Sids(d)
         /\ \A s \in Sids(d) :
              /\ a.storages[s].on \in {"cpu", "cuda", "none"}
              /\ a.storages[s].linked <=> a.storages[s].on = "none"
<1>1. a \notin ReadEnds(d)
  <2>1. a \in ReadEnds(d) => a.end # "ok"
    BY DEF ReadEnds, Attempt
  <2> QED BY <2>1
<1>2. Complete(d) /\ a \in SetupEnds(d, devices)
  BY <1>1 DEF GraphExecutorLoad
<1>3. /\ "data_entry" \in PartsBefore(d, LastKey(d)) /\ d.storage # <<>>
      /\ \E k \in 1 .. Len(d.storage) : Sids(d) = 1 .. k
  BY <1>2, GraphAssumption
<1> DEFINE read == PartsBefore(d, LastKey(d))
           stored == (read \cup MapParts \cup {"outputs_map"}) \cup {"storages"}
           all == Storages(d, devices, Len(d.storage))
<1>4. \/ a.end = "fails"
      \/ a = Attempt(IF OpsKnown(d) THEN "ok" ELSE "fails",
                     stored \cup {"node_ops"}, all)
  BY <1>2, <1>3 DEF SetupEnds, Attempt
<1>5. OpsKnown(d) /\ a.parts = stored \cup {"node_ops"} /\ a.storages = all
  BY <1>4 DEF Attempt
<1>6. a.parts \subseteq Part
  BY <1>5, PartsAreParts DEF MapParts, Part
<1>7. ASSUME NEW s \in Sids(d)
      PROVE  /\ all[s].on \in {"cpu", "cuda", "none"}
             /\ all[s].linked <=> all[s].on = "none"
  <2>1. PICK k \in 1 .. Len(d.storage) : Sids(d) = 1 .. k
    BY <1>3
  <2>2. s <= Len(d.storage)
    BY <2>1
  <2>3. PICK x \in DOMAIN devices : devices[x] = d.device[FirstEntry(d, s)]
    BY <1>2, GraphAssumption
  <2>4. StorageDevice(d, devices, s) \in {"cpu", "cuda"}
    BY <2>3, GraphAssumption DEF StorageDevice
  <2> QED BY <2>2, <2>4 DEF Storages
<1>8. DOMAIN all = Sids(d)
  BY DEF Storages
<1> QED BY <1>2, <1>5, <1>6, <1>7, <1>8

LEMMA InitTypes == Init => TypeInv
BY DEF Init, TypeInv, GraphTypeOK, DocumentOK, NoStorages

LEMMA KeptTypes ==
  ASSUME TypeInv, IInv', UNCHANGED <<doc, parts, storages>>,
         state' \in {"up", "undefined"}, DOMAIN data' = DOMAIN data
  PROVE  TypeInv'
<1>1. GraphTypeOK'
  BY DEF TypeInv, GraphTypeOK, IInv, OwnerOK
<1>2. DocumentOK'
  BY DEF TypeInv, DocumentOK, Complete, OpsKnown
<1> QED BY <1>1, <1>2 DEF TypeInv

LEMMA ReleasedTypes ==
  ASSUME IInv', Released, state' \in {"up", "undefined"}
  PROVE  TypeInv'
BY DEF Released, TypeInv, GraphTypeOK, DocumentOK, IInv, OwnerOK, NoStorages

LEMMA CreateTypes ==
  ASSUME IInv, IInv', TypeInv, NEW d \in Doc, NEW devices \in DeviceList,
         Create(d, devices)
  PROVE  TypeInv'
<1>1. PICK a \in GraphExecutorLoad(d, devices) : Create(d, devices)!2!(a)
  BY DEF Create
<1>2. a.end \in {"ok", "fails"}
  BY AttemptOK
<1>3. CASE \E others : CreationFails(d, a.parts, a.storages, others)
  BY <1>3, ReleasedTypes DEF CreationFails
<1>4. CASE a.end = "ok" /\ ~ (extension /\ devices[1] = "cuda")
  <2>1. /\ doc' = d /\ parts' = a.parts /\ storages' = a.storages
        /\ DOMAIN data' = DOMAIN a.storages /\ UNCHANGED state
    BY <1>1, <1>4
  <2>2. /\ Complete(d) /\ OpsKnown(d) /\ a.parts \subseteq Part
        /\ DOMAIN a.storages = Sids(d)
        /\ \A s \in Sids(d) :
             /\ a.storages[s].on \in {"cpu", "cuda", "none"}
             /\ a.storages[s].linked <=> a.storages[s].on = "none"
    BY <1>4, AttemptTypes
  <2>3. d # None
    BY GraphAssumption
  <2>4. GraphTypeOK'
    BY <2>1, <2>2, <2>3 DEF TypeInv, GraphTypeOK, IInv, OwnerOK
  <2>5. DocumentOK'
    BY <2>1, <2>2 DEF DocumentOK, Complete, OpsKnown
  <2> QED BY <2>4, <2>5 DEF TypeInv
<1>5. \/ \E others : CreationFails(d, a.parts, a.storages, others)
      \/ a.end = "ok" /\ ~ (extension /\ devices[1] = "cuda")
  <2>1. CASE a.end = "fails"
    BY <1>1, <2>1
  <2>2. CASE a.end = "ok" /\ extension /\ devices[1] = "cuda"
    BY <1>1, <2>2
  <2> QED BY <1>2, <2>1, <2>2
<1> QED BY <1>3, <1>4, <1>5

LEMMA RunTypes == ASSUME IInv, IInv', TypeInv, Run PROVE TypeInv'
<1>1. UNCHANGED <<doc, parts, storages, state>> /\ doc # None
  BY DEF Run, IInv, ExecutorOK
<1>2. doc \in Doc /\ state \in {"up", "undefined"}
  BY <1>1 DEF TypeInv, GraphTypeOK
<1>3. "node_ops" \in parts
  BY <1>1 DEF IInv, ExecutorOK
<1>4. Len(doc.nodes) \in Nat /\ \A n \in DOMAIN doc.nodes : n - 1 \in Nat
  BY <1>1, <1>2, GraphAssumption DEF TypeInv, DocumentOK
<1>5. CASE data' = After(doc, data, Len(doc.nodes))
  BY <1>1, <1>2, <1>4, <1>5, AfterDomain, KeptTypes
<1>6. CASE \E n \in DOMAIN doc.nodes :
             data' = Writes(doc, n, After(doc, data, n - 1),
                            [k \in 1 .. Outputs(doc, n) |-> Torn])
  <2>1. PICK n \in DOMAIN doc.nodes :
          data' = Writes(doc, n, After(doc, data, n - 1),
                         [k \in 1 .. Outputs(doc, n) |-> Torn])
    BY <1>6
  <2>2. DOMAIN data' = DOMAIN After(doc, data, n - 1)
    BY <2>1 DEF Writes
  <2>3. DOMAIN data' = DOMAIN data
    BY <2>2, <1>4, AfterDomain
  <2> QED BY <2>3, <1>1, <1>2, KeptTypes
<1> QED BY <1>3, <1>5, <1>6 DEF Run

LEMMA SetInputTypes ==
  ASSUME IInv', TypeInv, NEW index, NEW v, SetInput(index, v)
  PROVE  TypeInv'
<1>1. UNCHANGED <<doc, parts, storages>> /\ state' = "up" /\ DOMAIN data' = DOMAIN data
  BY DEF SetInput
<1> QED BY <1>1, KeptTypes

LEMMA SetInputByNameTypes ==
  ASSUME IInv', TypeInv, NEW name, NEW v, SetInputByName(name, v)
  PROVE  TypeInv'
<1>1. CASE state = "up" /\ doc # None /\ InputIndex(doc, name) = -1
  <2>1. UNCHANGED <<doc, parts, storages, data>> /\ state' = "up"
    BY <1>1 DEF SetInputByName, graphVars
  <2> QED BY <2>1, KeptTypes
<1>2. CASE ~ (state = "up" /\ doc # None /\ InputIndex(doc, name) = -1)
  BY <1>2, SetInputTypes DEF SetInputByName
<1> QED BY <1>1, <1>2

LEMMA LoadParamsTypes ==
  ASSUME IInv', TypeInv, NEW b, NEW reader, LoadParams(b, reader)
  PROVE  TypeInv'
<1>1. UNCHANGED <<doc, parts, storages>> /\ state' = "up"
  BY DEF LoadParams
<1>2. \A m : DOMAIN Loaded(b, m) = DOMAIN data
  BY DEF Loaded
<1>3. DOMAIN data' = DOMAIN data
  BY <1>2 DEF LoadParams
<1> QED BY <1>1, <1>3, KeptTypes

LEMMA TypeStep == IInv /\ TypeInv /\ [Next]_vars => TypeInv'
<1> SUFFICES ASSUME IInv, TypeInv, [Next]_vars PROVE TypeInv'
  OBVIOUS
<1>1. IInv'
  BY InvStep
<1>2. state \in {"up", "undefined"}
  BY DEF TypeInv, GraphTypeOK
<1>3. CASE UNCHANGED vars
  BY <1>1, <1>2, <1>3, KeptTypes DEF vars, graphVars
<1>4. ASSUME NEW h, GetOutput(h) PROVE TypeInv'
  BY <1>1, <1>2, <1>4, KeptTypes DEF GetOutput, graphVars
<1>5. CASE OpenModule
  BY <1>1, <1>2, <1>5, KeptTypes DEF OpenModule, graphVars
<1>6. CASE Free
  BY <1>1, <1>6, ReleasedTypes DEF Free
<1>7. CASE Next
  BY <1>1, <1>4, <1>5, <1>6, <1>7, CreateTypes, RunTypes, SetInputTypes,
     SetInputByNameTypes, LoadParamsTypes DEF Next
<1> QED BY <1>3, <1>7

LEMMA TypesHold == Spec => []TypeInv
<1>1. IInv /\ [Next]_vars => IInv'
  BY InvStep
<1> QED BY <1>1, InitOK, InitTypes, TypeStep, PTL DEF Spec

-----------------------------------------------------------------------------
(* Parameters.                                                             *)

(* The index found for a name is of an input of that name.                 *)
LEMMA IndexHasName ==
  ASSUME NEW d, d.args \in Seq(Nat), NEW name, InputIndex(d, name) # -1
  PROVE  /\ InputIndex(d, name) \in DOMAIN d.args
         /\ d.names[d.args[InputIndex(d, name)]] = name
<1> DEFINE hits == {i \in DOMAIN d.args : d.names[d.args[i]] = name}
<1>1. hits # {}
  BY DEF InputIndex
<1>2. hits \subseteq 1 .. Len(d.args) /\ Len(d.args) \in Nat
  OBVIOUS
<1>3. \E i \in hits : \A j \in hits : j <= i
  BY <1>1, <1>2, LargestExists
<1>4. InputIndex(d, name) = CHOOSE i \in hits : \A j \in hits : j <= i
  BY <1>1, Zenon DEF InputIndex
<1> HIDE DEF hits
<1>5. InputIndex(d, name) \in hits
  BY <1>3, <1>4
<1> QED BY <1>5 DEF hits

(* When all names were read, each is one of an input.                      *)
LEMMA NamesAreKnown ==
  ASSUME NEW b, NamesOnce(b), NEW first \in Nat,
         NamesEnd(b, first) # "fails", NamesEnd(b, first) # "quits"
  PROVE  /\ \A j \in DOMAIN b.names : InputIndex(doc, b.names[j]) # -1
         /\ Len(b.names) \in Nat /\ DOMAIN b.names = 1 .. Len(b.names)
<1> DEFINE n == Len(b.names)
<1> DEFINE unknown == {i \in 1 .. n : InputIndex(doc, b.names[i]) = -1}
<1>1. n \in Nat /\ DOMAIN b.names = 1 .. n
  BY DEF NamesOnce
<1>2. /\ ~ (first <= 3 \/ ~ b.magic)
      /\ ~ \E i \in unknown : first > 3 + 2 * i
      /\ ~ first <= 3 + 2 * n
  BY DEF NamesEnd
<1> HIDE DEF n
<1>3. unknown = {}
  BY <1>1, <1>2
<1> QED BY <1>1, <1>3 DEF n

(* Parameters of different names go to different storages.                 *)
LEMMA LoadedInPlace ==
  ASSUME NEW b, NamesOnce(b), InputsApart(doc), DOMAIN data = Sids(doc),
         \A j \in DOMAIN b.names : InputIndex(doc, b.names[j]) # -1
  PROVE  InPlace(b, Loaded(b, Len(b.names)))
<1> DEFINE n == Len(b.names)
<1> DEFINE place(j) == doc.storage[ParamEntry(b, j)]
<1>1. n \in Nat /\ DOMAIN b.names = 1 .. n
  BY DEF NamesOnce
<1>2. ASSUME NEW j \in 1 .. n
      PROVE  /\ InputIndex(doc, b.names[j]) \in DOMAIN doc.args
             /\ doc.names[doc.args[InputIndex(doc, b.names[j])]] = b.names[j]
  BY <1>1, IndexHasName DEF InputsApart
<1>3. \A j \in 1 .. n :
        place(j) = Sid(doc, doc.args[InputIndex(doc, b.names[j])], 1)
  BY DEF ParamEntry, InputEntry, Sid
<1>4. \A j \in 1 .. n : place(j) \in DOMAIN data
  BY <1>2 DEF InputsApart, ParamEntry, InputEntry, Sids
<1>5. ASSUME NEW i \in 1 .. n, NEW j \in 1 .. n, place(i) = place(j)
      PROVE  i = j
  <2>1. InputIndex(doc, b.names[i]) = InputIndex(doc, b.names[j])
    BY <1>2, <1>3, <1>5 DEF InputsApart
  <2>2. b.names[i] = b.names[j]
    BY <1>2, <2>1
  <2> QED BY <1>1, <2>2 DEF NamesOnce
<1>6. ASSUME NEW j \in 1 .. n
      PROVE  Loaded(b, n)[place(j)] = b.tensors[j].val
  <2> DEFINE hits == {k \in 1 .. n : place(k) = place(j)}
  <2>1. hits = {j}
    BY <1>5
  <2>2. (CHOOSE k \in hits : \A x \in hits : x <= k) = j
    BY <1>1, <2>1, SMTT(60)
  <2> HIDE DEF place
  <2>3. Loaded(b, n)[place(j)]
          = IF hits = {} THEN data[place(j)]
            ELSE b.tensors[CHOOSE k \in hits : \A x \in hits : x <= k].val
    BY <1>4, Zenon DEF Loaded, place
  <2> QED BY <2>1, <2>2, <2>3
<1> QED BY <1>1, <1>6 DEF InPlace

LEMMA LoadGivesAllOrNothing ==
  ASSUME NEW b, NamesOnce(b), NEW reader, InputsApart(doc), DOMAIN data = Sids(doc),
         LoadParams(b, reader), status' = 0
  PROVE  InPlace(b, data') \/ data' = data
<1> DEFINE first == FirstFailing(b, reader)
<1> DEFINE n == Len(b.names)
<1>1. first \in Nat
  BY DEF FirstFailing, NamesOnce
<1>2. CASE NamesEnd(b, first) = "fails"
  BY <1>2 DEF LoadParams
<1>3. CASE NamesEnd(b, first) = "quits"
  BY <1>3 DEF LoadParams
<1>4. CASE NamesEnd(b, first) # "fails" /\ NamesEnd(b, first) # "quits"
  <2>1. PICK m \in 0 .. n : \/ m = n /\ data' = Loaded(b, n)
                            \/ m < n /\ status' = -1
    BY <1>4 DEF LoadParams
  <2>2. data' = Loaded(b, n)
    BY <2>1
  <2>3. \A j \in DOMAIN b.names : InputIndex(doc, b.names[j]) # -1
    BY <1>1, <1>4, NamesAreKnown
  <2>4. InPlace(b, Loaded(b, n))
    BY <2>3, LoadedInPlace
  <2> QED BY <2>2, <2>4
<1> QED BY <1>2, <1>3, <1>4

-----------------------------------------------------------------------------
(* A creation that fails leaves the module with the user, an executor has  *)
(* it until it is released (include/graph_executor.h:23).                  *)
THEOREM ModuleFollowsExecutor == Spec => OwnershipFollowsCreation
<1>1. ASSUME IInv, IInv', [Next]_vars
      PROVE  [/\ owner' = "executor" <=> doc' # None
              /\ owner = "user" => owner' \in {"executor", "user"}]_vars
  <2>1. owner' = "executor" <=> doc' # None
    BY <1>1 DEF IInv, OwnerOK
  <2>2. ASSUME Next, owner = "user" PROVE owner' # "nobody"
    <3>1. doc = None
      BY <1>1, <2>2 DEF IInv, OwnerOK
    <3>2. PICK d \in Doc, devices \in DeviceList : Create(d, devices)
      BY <2>2, <3>1 DEF Next, Run, SetInput, SetInputByName, GetOutput,
                        LoadParams, Free, OpenModule
    <3>3. PICK a \in GraphExecutorLoad(d, devices) : Create(d, devices)!2!(a)
      BY <3>2 DEF Create
    <3>4. a.end \in {"ok", "fails"}
      BY AttemptOK
    <3> QED BY <2>2, <3>3, <3>4 DEF CreationFails
  <2>3. owner' \in {"user", "executor", "nobody"}
    BY <1>1 DEF IInv, OwnerOK
  <2> QED BY <1>1, <2>1, <2>2, <2>3
<1> QED BY <1>1, Invariant, PTL DEF Spec, OwnershipFollowsCreation

(* Whatever creation failed at, storages that entries share are freed once *)
(* and on their device, and nothing is lost but the shapes and, with the   *)
(* CUDA extension, what a capture leaves: its graph, and its stream if it  *)
(* failed (graph_executor.c:115-131, cuda_extension.c:102-118).            *)
THEOREM ReleasesStaySound == Spec => []ReleasesAreSound
<1>1. IInv => ReleasesAreSound
  BY DEF IInv
<1> QED BY <1>1, Invariant, PTL

(* An executor has the storages of its document, before and after any run  *)
(* or load, and nothing of one that was not created                        *)
(* (graph_executor.c:26-74).                                               *)
THEOREM GraphTypes == Spec => []GraphTypeOK
<1>1. TypeInv => GraphTypeOK
  BY DEF TypeInv
<1> QED BY <1>1, TypesHold, PTL

(* When the compiler has planned the storages so that none is used again   *)
(* before it was read, which the loader does not check, a run that returns *)
(* 0 leaves in each output what the graph computes, whatever failed runs   *)
(* have left in the storages before (graph_executor.c:162-183).            *)
THEOREM RunsComputeTheGraph ==
  ASSUME \A d \in Doc : Complete(d) /\ OpsKnown(d) => WellPlanned(d)
  PROVE  Spec => RunComputesTheGraph
<1>1. ASSUME IInv, TypeInv, Run, status' = 0, NEW h \in DOMAIN doc.heads
      PROVE  Output(doc, data', h) = Eval(doc, data)[doc.heads[h][1]][doc.heads[h][2]]
  <2>1. doc # None /\ "node_ops" \in parts
    BY <1>1 DEF Run, IInv, ExecutorOK
  <2>2. data' = After(doc, data, Len(doc.nodes))
    BY <1>1, <2>1 DEF Run
  <2>3. doc \in Doc /\ Complete(doc) /\ OpsKnown(doc) /\ DOMAIN data = Sids(doc)
    BY <1>1, <2>1 DEF TypeInv, GraphTypeOK, DocumentOK
  <2>4. InOrder(doc) /\ SharesWell(doc)
    BY <2>3 DEF WellPlanned
  <2> QED BY <1>1, <2>2, <2>3, <2>4, RunGivesGraph
<1>2. ASSUME IInv, TypeInv
      PROVE  [Run /\ status' = 0 /\ state' = "up" =>
                \A h \in DOMAIN doc.heads :
                  Output(doc, data', h) =
                    Eval(doc, data)[doc.heads[h][1]][doc.heads[h][2]]]_vars
  BY <1>1, <1>2
<1> QED BY <1>2, Invariant, TypesHold, PTL DEF RunComputesTheGraph

(* When no two inputs share a storage and a blob names each parameter      *)
(* once, a load that returns 0 has put every tensor of the blob where the  *)
(* input of its name is, or has changed nothing (tensor_loader.c:66-156).  *)
THEOREM LoadsGiveAllOrNothing ==
  ASSUME \A d \in Doc : Complete(d) /\ OpsKnown(d) => WellPlanned(d),
         \A b \in Blob : NamesOnce(b)
  PROVE  Spec => ZeroMeansAllOrNothing
<1>1. ASSUME TypeInv, NEW b \in Blob, NEW reader \in Reader,
             LoadParams(b, reader), status' = 0
      PROVE  InPlace(b, data') \/ data' = data
  <2>1. doc # None
    BY <1>1 DEF LoadParams
  <2>2. doc \in Doc /\ Complete(doc) /\ OpsKnown(doc) /\ DOMAIN data = Sids(doc)
    BY <1>1, <2>1 DEF TypeInv, GraphTypeOK, DocumentOK
  <2>3. InputsApart(doc)
    BY <2>2 DEF WellPlanned
  <2> QED BY <1>1, <2>2, <2>3, LoadGivesAllOrNothing
<1>2. ASSUME TypeInv
      PROVE  [\A b \in Blob, reader \in Reader :
                LoadParams(b, reader) /\ status' = 0 =>
                  InPlace(b, data') \/ data' = data]_vars
  BY <1>1, <1>2
<1> QED BY <1>2, TypesHold, PTL DEF ZeroMeansAllOrNothing
=============================================================================
