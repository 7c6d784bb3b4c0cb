------------------------- MODULE AotExecutorProofs -------------------------
(***************************************************************************)
(* Proofs about the AOT executor, for any number of executors, libraries   *)
(* and models with any number of tensors: who owns the libraries and the   *)
(* memory, whatever creation fails in.                                     *)
(***************************************************************************)
EXTENDS AotExecutor, FiniteSetTheorems, SequenceTheorems, TLAPS

IsIO(m, k) == k <= NumInputs(m) + NumOutputs(m)

(* Each tensor has a block of its own, and that of a pool is marked as one. *)
TensorsAreDistinct ==
  \A e \in Live : \A j, k \in DOMAIN execs[e].tensors :
    execs[e].tensors[j] = execs[e].tensors[k] => j = k

PoolsArePools ==
  \A e \in Live : \A k \in DOMAIN execs[e].tensors :
    ~ IsIO(execs[e].model, k) => mem[execs[e].tensors[k]] = "pool"

HeapInv == OnlyPoolsAreLost /\ TensorsAreDistinct /\ PoolsArePools

IInv == AotTypeOK /\ LibrariesHaveOneOwner /\ HeapInv

-----------------------------------------------------------------------------
(* Allocation.                                                             *)

LEMMA Counts ==
  ASSUME NEW m \in Model
  PROVE  /\ NumInputs(m) \in Nat /\ NumOutputs(m) \in Nat
         /\ NumTensors(m) \in Nat /\ Args(m) \in 0 .. NumTensors(m)
         /\ ~ StorageFails(m) => Args(m) = NumTensors(m)
<1>1. NumInputs(m) \in Nat /\ NumOutputs(m) \in Nat /\ Meta[m].pools \in Nat
  BY AotAssumption, LenProperties DEF NumInputs, NumOutputs
<1> QED BY <1>1 DEF NumTensors, Args, StorageFails

(* As many blocks as are free can be allocated, all of them different.     *)
LEMMA NextBlocksAreUnused ==
  ASSUME NEW n \in Nat, n <= Cardinality(Unused)
  PROVE  /\ NextBlocks(n) \in [1 .. n -> Unused]
         /\ \A j, k \in 1 .. n : NextBlocks(n)[j] = NextBlocks(n)[k] => j = k
<1>1. IsFiniteSet(Block)
  BY AotAssumption, FS_Interval DEF Block
<1>2. IsFiniteSet(Unused)
  BY <1>1, FS_Subset DEF Unused
<1>3. Cardinality(Unused) \in Nat /\ ExistsBijection(1 .. Cardinality(Unused), Unused)
  BY <1>2, FS_CardinalityType
<1>4. PICK f \in [1 .. Cardinality(Unused) -> Unused] :
        \A j, k \in 1 .. Cardinality(Unused) : f[j] = f[k] => j = k
  BY <1>3 DEF ExistsBijection, Bijection, Injection, IsInjective
<1> DEFINE g == [k \in 1 .. n |-> f[k]]
<1>5. /\ g \in [1 .. n -> Unused]
      /\ \A j, k \in 1 .. n : g[j] = g[k] => j = k
  BY <1>3, <1>4
<1> HIDE DEF g
<1> QED BY <1>5, SMTT(60) DEF NextBlocks

(* What the heap is after n tensors of a model were allocated in free      *)
(* blocks, and after those of them that Free gives back were freed.        *)
LEMMA AllocatedHeap ==
  ASSUME AotTypeOK, NEW m \in Model, NEW n \in Nat,
         NEW t \in [1 .. n -> Unused],
         \A j, k \in 1 .. n : t[j] = t[k] => j = k
  PROVE  /\ t \in Seq(Block) /\ Len(t) = n /\ DOMAIN t = 1 .. n
         /\ Allocated(m, t) \in [Block -> {"free", "io", "pool"}]
         /\ \A k \in 1 .. n : Allocated(m, t)[t[k]] = IF IsIO(m, k) THEN "io" ELSE "pool"
         /\ \A b \in Block : (\A k \in 1 .. n : t[k] # b) => Allocated(m, t)[b] = mem[b]
<1>1. Unused \subseteq Block
  BY DEF Unused
<1>2. t \in Seq(Block) /\ DOMAIN t = 1 .. n
  BY <1>1, SeqDef
<1>3. Len(t) = n
  BY <1>2, LenProperties
<1>4. ASSUME NEW b \in Block, \A k \in 1 .. n : t[k] # b
      PROVE  Allocated(m, t)[b] = mem[b]
  <2>1. {k \in DOMAIN t : t[k] = b} = {}
    BY <1>2, <1>4
  <2> QED BY <2>1 DEF Allocated
<1>5. ASSUME NEW k \in 1 .. n
      PROVE  Allocated(m, t)[t[k]] = IF IsIO(m, k) THEN "io" ELSE "pool"
  <2>1. {j \in DOMAIN t : t[j] = t[k]} = {k}
    BY <1>2
  <2>2. t[k] \in Block
    BY <1>1
  <2> QED BY <2>1, <2>2 DEF Allocated, IsIO
<1>6. Allocated(m, t) \in [Block -> {"free", "io", "pool"}]
  <2>1. SUFFICES ASSUME NEW b \in Block
                 PROVE  Allocated(m, t)[b] \in {"free", "io", "pool"}
    BY DEF Allocated
  <2>2. CASE \A k \in 1 .. n : t[k] # b
    BY <2>2, <1>4 DEF AotTypeOK
  <2>3. CASE \E k \in 1 .. n : t[k] = b
    BY <2>3, <1>5
  <2> QED BY <2>2, <2>3
<1> QED BY <1>2, <1>3, <1>4, <1>5, <1>6

-----------------------------------------------------------------------------
(* The steps.                                                              *)

LEMMA InitIInv == Init => IInv
<1> SUFFICES ASSUME Init PROVE IInv
  OBVIOUS
<1>1. Live = {}
  BY DEF Init, Live
<1>2. AotTypeOK
  BY <1>1 DEF Init, AotTypeOK
<1>3. LibrariesHaveOneOwner
  BY <1>1, AotAssumption DEF Init, LibrariesHaveOneOwner
<1>4. HeapInv
  BY <1>1 DEF Init, HeapInv, OnlyPoolsAreLost, TensorsAreDistinct, PoolsArePools
<1> QED BY <1>2, <1>3, <1>4 DEF IInv

LEMMA HeapInvKept ==
  ASSUME HeapInv, UNCHANGED <<execs, mem>>
  PROVE  HeapInv'
<1>1. UNCHANGED Live
  BY DEF Live
<1>2. \A e : UNCHANGED Tensors(e)
  BY DEF Tensors
<1>3. OnlyPoolsAreLost'
  BY <1>1, <1>2 DEF HeapInv, OnlyPoolsAreLost
<1>4. TensorsAreDistinct'
  BY <1>1 DEF HeapInv, TensorsAreDistinct
<1>5. PoolsArePools'
  BY <1>1 DEF HeapInv, PoolsArePools, IsIO, NumInputs, NumOutputs
<1> QED BY <1>3, <1>4, <1>5 DEF HeapInv

(* Inputs, runs and outputs change only what blocks hold. *)
Keeps ==
  /\ UNCHANGED <<execs, mem, open, owner, linked, state>>
  /\ DOMAIN val' = DOMAIN val

LEMMA KeepsIInv == IInv /\ Keeps => IInv'
<1> SUFFICES ASSUME IInv, Keeps PROVE IInv'
  OBVIOUS
<1>1. UNCHANGED Live
  BY DEF Keeps, Live
<1>2. AotTypeOK'
  BY <1>1 DEF Keeps, IInv, AotTypeOK
<1>3. LibrariesHaveOneOwner'
  BY <1>1 DEF Keeps, IInv, LibrariesHaveOneOwner
<1>4. HeapInv'
  BY HeapInvKept DEF Keeps, IInv
<1> QED BY <1>2, <1>3, <1>4 DEF IInv

(* The library of an executor is open. *)
LEMMA ModuleIsOpen ==
  ASSUME IInv, NEW e \in Live
  PROVE  execs[e].module \in open \cup {System}
<1>1. execs[e] \in Executor
  BY DEF IInv, AotTypeOK, Live
<1>2. CASE execs[e].module = System
  BY <1>2
<1>3. CASE execs[e].module \in Handle
  <2>1. owner[execs[e].module] = e
    BY <1>3 DEF IInv, LibrariesHaveOneOwner, Live
  <2> QED BY <2>1, <1>3, AotAssumption DEF IInv, LibrariesHaveOneOwner, Live
<1> QED BY <1>1, <1>2, <1>3 DEF Executor, Library

LEMMA SetInputKeeps ==
  ASSUME IInv, NEW e \in Exec, NEW i, NEW v, NEW n, SetInput(e, i, v, n)
  PROVE  Keeps
BY DEF SetInput, Keeps, moduleVars

LEMMA RunKeeps ==
  ASSUME IInv, NEW e \in Exec, Run(e)
  PROVE  Keeps
<1>1. execs[e].module \in open \cup {System}
  BY ModuleIsOpen DEF Run, Live
<1>2. UNCHANGED <<execs, mem, open, owner, linked>>
  BY DEF Run, moduleVars
<1>3. UNCHANGED state /\ DOMAIN val' = Block
  BY <1>1 DEF Run
<1> QED BY <1>2, <1>3 DEF Keeps, IInv, AotTypeOK

(* A creation that fails gives all back but pools, and no library moves. *)
LEMMA CreateFailsIInv ==
  ASSUME IInv, NEW e \in Exec, NEW lib \in Library, CreateFails(e, lib)
  PROVE  IInv'
<1>1. PICK m \in {MetadataOf(lib)} \ {None} : \E n \in 0 .. Args(m) :
        /\ n <= Cardinality(Unused)
        /\ mem' = Without(Freed(m, NextBlocks(n)), Allocated(m, NextBlocks(n)))
        /\ val' = Contents(NextBlocks(n))
  BY DEF CreateFails
<1>2. PICK n \in 0 .. Args(m) :
        /\ n <= Cardinality(Unused)
        /\ mem' = Without(Freed(m, NextBlocks(n)), Allocated(m, NextBlocks(n)))
        /\ val' = Contents(NextBlocks(n))
  BY <1>1
<1>3. m \in Model
  BY <1>1, AotAssumption DEF MetadataOf, IInv, AotTypeOK
<1>4. n \in Nat
  BY <1>2, <1>3, Counts
<1> DEFINE t == NextBlocks(n)
<1>5. /\ t \in [1 .. n -> Unused]
      /\ \A j, k \in 1 .. n : t[j] = t[k] => j = k
  BY <1>2, <1>4, NextBlocksAreUnused
<1>6. /\ DOMAIN t = 1 .. n
      /\ Allocated(m, t) \in [Block -> {"free", "io", "pool"}]
      /\ \A k \in 1 .. n : Allocated(m, t)[t[k]] = IF IsIO(m, k) THEN "io" ELSE "pool"
      /\ \A b \in Block : (\A k \in 1 .. n : t[k] # b) => Allocated(m, t)[b] = mem[b]
  BY <1>3, <1>4, <1>5, AllocatedHeap DEF IInv
<1>7. mem' = Without(Freed(m, t), Allocated(m, t))
  BY <1>2
<1>8. DOMAIN val' = Block
  BY <1>2 DEF Contents
<1>9. UNCHANGED <<execs, open, owner, linked, state>> /\ UNCHANGED Live
  BY DEF CreateFails, moduleVars, Live
<1> HIDE DEF t
<1>10. mem' \in [Block -> {"free", "io", "pool"}]
  BY <1>6, <1>7 DEF Without
<1>11. AotTypeOK'
  BY <1>8, <1>9, <1>10 DEF IInv, AotTypeOK
<1>12. LibrariesHaveOneOwner'
  BY <1>9 DEF IInv, LibrariesHaveOneOwner
<1>13. \A b \in Block : mem[b] # "free" => mem'[b] = mem[b]
  <2> SUFFICES ASSUME NEW b \in Block, mem[b] # "free" PROVE mem'[b] = mem[b]
    OBVIOUS
  <2>1. \A k \in 1 .. n : t[k] # b
    BY <1>5 DEF Unused
  <2>2. b \notin Freed(m, t)
    BY <2>1, <1>6 DEF Freed
  <2> QED BY <2>1, <2>2, <1>6, <1>7 DEF Without
<1>14. \A b \in Block : mem'[b] = "io" => mem[b] = "io"
  <2> SUFFICES ASSUME NEW b \in Block, mem'[b] = "io" PROVE mem[b] = "io"
    OBVIOUS
  <2>1. CASE \A k \in 1 .. n : t[k] # b
    BY <2>1, <1>6, <1>7 DEF Without
  <2>2. CASE \E k \in 1 .. n : t[k] = b
    <3>1. PICK k \in 1 .. n : t[k] = b
      BY <2>2
    <3>2. b \notin Freed(m, t) /\ Allocated(m, t)[b] = "io"
      BY <1>7 DEF Without
    <3>3. IsIO(m, k)
      BY <3>1, <3>2, <1>6
    <3>4. k \in DOMAIN t \cap (1 .. NumInputs(m) + NumOutputs(m))
      BY <3>3, <1>3, <1>6, Counts DEF IsIO
    <3> QED BY <3>1, <3>2, <3>4 DEF Freed
  <2> QED BY <2>1, <2>2
<1>15. \A f \in Live : Tensors(f) \subseteq Block /\ UNCHANGED Tensors(f)
  <2> SUFFICES ASSUME NEW f \in Live
               PROVE  Tensors(f) \subseteq Block /\ UNCHANGED Tensors(f)
    OBVIOUS
  <2>1. execs[f].tensors \in Seq(Block)
    BY DEF IInv, AotTypeOK, Live, Executor
  <2> QED BY <2>1, <1>9, LenProperties DEF Tensors
<1>16. OnlyPoolsAreLost'
  BY <1>9, <1>13, <1>14, <1>15 DEF IInv, HeapInv, OnlyPoolsAreLost
<1>17. TensorsAreDistinct'
  BY <1>9 DEF IInv, HeapInv, TensorsAreDistinct
<1>18. PoolsArePools'
  <2> SUFFICES ASSUME NEW f \in Live, NEW k \in DOMAIN execs[f].tensors,
                      ~ IsIO(execs[f].model, k)
               PROVE  mem'[execs[f].tensors[k]] = "pool"
    BY <1>9 DEF PoolsArePools, IsIO, NumInputs, NumOutputs
  <2>1. mem[execs[f].tensors[k]] = "pool"
    BY DEF IInv, HeapInv, PoolsArePools
  <2>2. execs[f].tensors[k] \in Block
    BY <1>15 DEF Tensors
  <2> QED BY <2>1, <2>2, <1>13
<1> QED BY <1>11, <1>12, <1>16, <1>17, <1>18 DEF IInv, HeapInv

(* A creation that succeeds takes blocks nobody has. *)
LEMMA CreateIInv ==
  ASSUME IInv, NEW e \in Exec, NEW lib \in Library, Create(e, lib)
  PROVE  IInv'
<1>1. PICK m \in {MetadataOf(lib)} \ {None} : \E main \in MainsFor(lib, m) :
        /\ ~ StorageFails(m) /\ Args(m) <= Cardinality(Unused)
        /\ execs' = [execs EXCEPT ![e] =
                       [module |-> lib, model |-> m, main |-> main,
                        tensors |-> NextBlocks(Args(m))]]
        /\ mem' = Allocated(m, NextBlocks(Args(m)))
        /\ val' = Contents(NextBlocks(Args(m)))
  BY DEF Create
<1>2. m \in Model
  BY <1>1, AotAssumption DEF MetadataOf, IInv, AotTypeOK
<1>3. PICK main \in MainsFor(lib, m) :
        execs' = [execs EXCEPT ![e] =
                    [module |-> lib, model |-> m, main |-> main,
                     tensors |-> NextBlocks(Args(m))]]
  BY <1>1
<1> DEFINE n == NumTensors(m)
<1> DEFINE t == NextBlocks(Args(m))
<1> DEFINE x == [module |-> lib, model |-> m, main |-> main, tensors |-> t]
<1>4. n \in Nat /\ Args(m) = n /\ n <= Cardinality(Unused)
  BY <1>1, <1>2, Counts
<1>5. /\ t \in [1 .. n -> Unused]
      /\ \A j, k \in 1 .. n : t[j] = t[k] => j = k
  BY <1>4, NextBlocksAreUnused
<1>6. /\ t \in Seq(Block) /\ Len(t) = n /\ DOMAIN t = 1 .. n
      /\ Allocated(m, t) \in [Block -> {"free", "io", "pool"}]
      /\ \A k \in 1 .. n : Allocated(m, t)[t[k]] = IF IsIO(m, k) THEN "io" ELSE "pool"
      /\ \A b \in Block : (\A k \in 1 .. n : t[k] # b) => Allocated(m, t)[b] = mem[b]
  BY <1>2, <1>4, <1>5, AllocatedHeap DEF IInv
<1>7. mem' = Allocated(m, t) /\ execs' = [execs EXCEPT ![e] = x]
  BY <1>1, <1>3
<1>8. DOMAIN val' = Block
  BY <1>1 DEF Contents
<1>9. main \in Model
  BY <1>3, AotAssumption DEF MainsFor
<1> HIDE DEF t, n
<1>10. x \in Executor
  BY <1>2, <1>6, <1>9 DEF Executor
<1>11. x # None
  BY <1>10, AotAssumption
<1> HIDE DEF x
<1>12. execs \in [Exec -> Executor \cup {None}] /\ execs[e] = None
  BY DEF IInv, AotTypeOK, Create
<1>13. execs'[e] = x /\ \A f \in Exec \ {e} : execs'[f] = execs[f]
  BY <1>7, <1>12
<1>14. Live' = Live \cup {e} /\ e \notin Live
  BY <1>11, <1>12, <1>13 DEF Live
<1>15. UNCHANGED <<open, linked, state>>
  BY DEF Create
<1>16. owner' = IF lib = System THEN owner ELSE [owner EXCEPT ![lib] = e]
  BY DEF Create
<1>17. UserMayGive(lib)
  BY DEF Create
<1>18. x.tensors = t /\ x.model = m /\ x.module = lib
  BY DEF x
<1>19. AotTypeOK'
  <2>1. execs' \in [Exec -> Executor \cup {None}]
    BY <1>7, <1>10, <1>12
  <2>2. mem' \in [Block -> {"free", "io", "pool"}]
    BY <1>6, <1>7
  <2>3. owner' \in [Handle -> {"user", None} \cup Exec]
    BY <1>16 DEF IInv, AotTypeOK
  <2>4. \A f \in Live' : Len(execs'[f].tensors) = NumTensors(execs'[f].model)
    BY <1>6, <1>13, <1>14, <1>18 DEF IInv, AotTypeOK, n, Live
  <2> QED BY <2>1, <2>2, <2>3, <2>4, <1>8, <1>15
          DEF IInv, AotTypeOK, NumTensors, NumInputs, NumOutputs
<1>20. LibrariesHaveOneOwner'
  <2>1. CASE lib = System
    <3>1. UNCHANGED owner
      BY <2>1, <1>16
    <3>2. \A h \in Handle : owner[h] # e
      BY <1>14 DEF IInv, LibrariesHaveOneOwner
    <3>3. \A h \in Handle : x.module # h
      BY <2>1, <1>18, AotAssumption
    <3> QED BY <3>1, <3>2, <3>3, <1>13, <1>14, <1>15
            DEF IInv, LibrariesHaveOneOwner, Live
  <2>2. CASE lib # System
    <3>1. lib \in Handle /\ owner[lib] = "user"
      BY <2>2, <1>17 DEF UserMayGive
    <3>2. owner' = [owner EXCEPT ![lib] = e] /\ DOMAIN owner = Handle
      BY <2>2, <1>16 DEF IInv, AotTypeOK
    <3>3. e # None /\ "user" # None
      BY AotAssumption
    <3>4. open' = {h \in Handle : owner'[h] # None}
      BY <3>1, <3>2, <3>3, <1>15 DEF IInv, LibrariesHaveOneOwner
    <3>5. ASSUME NEW h \in Handle, NEW f \in Exec
          PROVE  owner'[h] = f <=> f \in Live' /\ execs'[f].module = h
      <4>1. owner[h] = f <=> f \in Live /\ execs[f].module = h
        BY DEF IInv, LibrariesHaveOneOwner
      <4>2. f # "user"
        BY AotAssumption
      <4>3. CASE f = e
        BY <4>1, <4>3, <3>1, <3>2, <1>13, <1>14, <1>18
      <4>4. CASE f # e
        BY <4>1, <4>2, <4>4, <3>1, <3>2, <1>13, <1>14
      <4> QED BY <4>3, <4>4
    <3> QED BY <3>4, <3>5, <1>15 DEF IInv, LibrariesHaveOneOwner
  <2> QED BY <2>1, <2>2
<1>21. \A f \in Live : Tensors(f) \subseteq Block /\ Tensors(f)' = Tensors(f)
  <2> SUFFICES ASSUME NEW f \in Live
               PROVE  Tensors(f) \subseteq Block /\ Tensors(f)' = Tensors(f)
    OBVIOUS
  <2>1. execs[f].tensors \in Seq(Block) /\ execs'[f] = execs[f]
    BY <1>13, <1>14 DEF IInv, AotTypeOK, Live, Executor
  <2> QED BY <2>1, LenProperties DEF Tensors
<1>22. Tensors(e)' = {t[k] : k \in 1 .. n}
  BY <1>6, <1>13, <1>18 DEF Tensors
<1>23. \A b \in Block : mem[b] # "free" => mem'[b] = mem[b] /\ b \notin Tensors(e)'
  <2> SUFFICES ASSUME NEW b \in Block, mem[b] # "free"
               PROVE  mem'[b] = mem[b] /\ b \notin Tensors(e)'
    OBVIOUS
  <2>1. \A k \in 1 .. n : t[k] # b
    BY <1>5 DEF Unused
  <2> QED BY <2>1, <1>6, <1>7, <1>22
<1>24. \A b \in Tensors(e)' : mem'[b] # "free"
  BY <1>6, <1>7, <1>22
<1>25. \A b \in Block : mem'[b] = "io" => mem[b] = "io" \/ b \in Tensors(e)'
  BY <1>6, <1>7, <1>22
<1>26. OnlyPoolsAreLost'
  <2>1. ASSUME NEW f \in Live, NEW b \in Tensors(f)
        PROVE  mem[b] # "free" /\ mem'[b] = mem[b] /\ b \notin Tensors(e)'
    BY <1>21, <1>23 DEF IInv, HeapInv, OnlyPoolsAreLost
  <2>2. \A f \in Live' : \A b \in Tensors(f)' : mem'[b] # "free"
    BY <2>1, <1>14, <1>21, <1>24
  <2>3. \A f, g \in Live' : f # g => Tensors(f)' \cap Tensors(g)' = {}
    BY <2>1, <1>14, <1>21 DEF IInv, HeapInv, OnlyPoolsAreLost
  <2>4. \A b \in Block : mem'[b] = "io" => \E f \in Live' : b \in Tensors(f)'
    BY <1>14, <1>21, <1>25 DEF IInv, HeapInv, OnlyPoolsAreLost
  <2> QED BY <2>2, <2>3, <2>4 DEF OnlyPoolsAreLost
<1>27. TensorsAreDistinct'
  BY <1>5, <1>6, <1>13, <1>14, <1>18 DEF IInv, HeapInv, TensorsAreDistinct, Live
<1>28. PoolsArePools'
  <2> SUFFICES ASSUME NEW f \in Live', NEW k \in DOMAIN execs'[f].tensors,
                      ~ IsIO(execs'[f].model, k)
               PROVE  mem'[execs'[f].tensors[k]] = "pool"
    BY DEF PoolsArePools, IsIO, NumInputs, NumOutputs
  <2>1. CASE f = e
    BY <2>1, <1>6, <1>7, <1>13, <1>18
  <2>2. CASE f # e
    <3>1. f \in Live /\ execs'[f] = execs[f]
      BY <2>2, <1>13, <1>14 DEF Live
    <3>2. mem[execs[f].tensors[k]] = "pool"
      BY <3>1 DEF IInv, HeapInv, PoolsArePools
    <3>3. execs[f].tensors[k] \in Block
      BY <3>1, <1>21 DEF Tensors
    <3> QED BY <3>1, <3>2, <3>3, <1>23
  <2> QED BY <2>1, <2>2
<1> QED BY <1>19, <1>20, <1>26, <1>27, <1>28 DEF IInv, HeapInv

(* Free gives the library back, and all blocks but the pools'. *)
LEMMA FreeIInv ==
  ASSUME IInv, NEW e \in Exec, Free(e)
  PROVE  IInv'
<1> DEFINE x == execs[e]
<1> DEFINE gone == Freed(x.model, x.tensors)
<1>1. /\ mem' = Without(gone, mem)
      /\ open' = open \ {x.module}
      /\ owner' = [h \in Handle |-> IF h = x.module THEN None ELSE owner[h]]
      /\ execs' = [execs EXCEPT ![e] = None]
      /\ DOMAIN val' = Block
      /\ UNCHANGED linked
  BY DEF Free
<1>2. state' = IF gone \cap Unused = {} /\ x.module \in open \cup {System}
               THEN "up" ELSE "undefined"
  BY DEF Free
<1>3. e \in Live /\ x \in Executor /\ execs \in [Exec -> Executor \cup {None}]
  BY DEF Free, Live, IInv, AotTypeOK
<1>4. x.model \in Model /\ x.tensors \in Seq(Block)
  BY <1>3 DEF Executor
<1>5. gone \subseteq Tensors(e) /\ Tensors(e) \subseteq Block
  BY <1>4, LenProperties DEF Freed, Tensors
<1>6. state' = "up"
  <2>1. x.module \in open \cup {System}
    BY <1>3, ModuleIsOpen
  <2>2. gone \cap Unused = {}
    BY <1>3, <1>5 DEF IInv, HeapInv, OnlyPoolsAreLost, Unused
  <2> QED BY <2>1, <2>2, <1>2
<1>7. execs'[e] = None /\ \A f \in Exec \ {e} : execs'[f] = execs[f]
  BY <1>1, <1>3
<1>8. Live' = Live \ {e}
  BY <1>7 DEF Live
<1>9. \A f \in Live' : f \in Live /\ f # e /\ execs'[f] = execs[f] /\ Tensors(f)' = Tensors(f)
  BY <1>7, <1>8 DEF Live, Tensors
<1> HIDE DEF gone
<1>10. AotTypeOK'
  <2>1. execs' \in [Exec -> Executor \cup {None}]
    BY <1>1, <1>3
  <2>2. mem' \in [Block -> {"free", "io", "pool"}]
    BY <1>1 DEF Without, IInv, AotTypeOK
  <2>3. owner' \in [Handle -> {"user", None} \cup Exec]
    BY <1>1 DEF IInv, AotTypeOK
  <2>4. \A f \in Live' : Len(execs'[f].tensors) = NumTensors(execs'[f].model)
    BY <1>9 DEF IInv, AotTypeOK
  <2> QED BY <2>1, <2>2, <2>3, <2>4, <1>1, <1>6
          DEF IInv, AotTypeOK, NumTensors, NumInputs, NumOutputs
<1>11. LibrariesHaveOneOwner'
  <2>1. open' = {h \in Handle : owner'[h] # None}
    BY <1>1 DEF IInv, LibrariesHaveOneOwner
  <2>2. ASSUME NEW h \in Handle, NEW f \in Exec
        PROVE  owner'[h] = f <=> f \in Live' /\ execs'[f].module = h
    <3>1. owner[h] = f <=> f \in Live /\ execs[f].module = h
      BY DEF IInv, LibrariesHaveOneOwner
    <3>2. f # None
      BY AotAssumption
    <3>3. CASE h = x.module
      <4>1. owner[h] = e
        BY <1>3, <3>3 DEF IInv, LibrariesHaveOneOwner
      <4>2. owner'[h] = None
        BY <1>1, <3>3
      <4>3. f \in Live' => execs'[f].module # h
        BY <4>1, <1>9, <3>1
      <4> QED BY <4>2, <4>3, <3>2
    <3>4. CASE h # x.module
      <4>1. owner'[h] = owner[h]
        BY <1>1, <3>4
      <4>2. f \in Live /\ execs[f].module = h => f \in Live' /\ execs'[f] = execs[f]
        BY <3>4, <1>8, <1>9
      <4> QED BY <4>1, <4>2, <3>1, <1>9
    <3> QED BY <3>3, <3>4
  <2> QED BY <2>1, <2>2, <1>6 DEF LibrariesHaveOneOwner
<1>12. ASSUME NEW f \in Live', NEW b \in Tensors(f)
       PROVE  b \in Block /\ mem'[b] = mem[b] /\ mem[b] # "free"
  <2>1. b \in Block
    <3>1. execs[f].tensors \in Seq(Block)
      BY <1>9 DEF IInv, AotTypeOK, Executor, Live
    <3> QED BY <3>1, LenProperties DEF Tensors
  <2>2. b \notin gone /\ mem[b] # "free"
    BY <1>3, <1>5, <1>9 DEF IInv, HeapInv, OnlyPoolsAreLost
  <2> QED BY <2>1, <2>2, <1>1 DEF Without
<1>13. OnlyPoolsAreLost'
  <2>1. \A f \in Live' : \A b \in Tensors(f)' : mem'[b] # "free"
    BY <1>9, <1>12
  <2>2. \A f, g \in Live' : f # g => Tensors(f)' \cap Tensors(g)' = {}
    BY <1>9 DEF IInv, HeapInv, OnlyPoolsAreLost
  <2>3. ASSUME NEW b \in Block, mem'[b] = "io"
        PROVE  \E f \in Live' : b \in Tensors(f)'
    <3>1. b \notin gone /\ mem[b] = "io"
      BY <2>3, <1>1 DEF Without
    <3>2. PICK f \in Live : b \in Tensors(f)
      BY <3>1 DEF IInv, HeapInv, OnlyPoolsAreLost
    <3>3. f # e
      <4> SUFFICES ASSUME f = e PROVE FALSE
        OBVIOUS
      <4>1. PICK k \in DOMAIN x.tensors : x.tensors[k] = b
        BY <3>2 DEF Tensors
      <4>2. IsIO(x.model, k)
        BY <4>1, <3>1, <1>3 DEF IInv, HeapInv, PoolsArePools
      <4>3. k \in DOMAIN x.tensors \cap (1 .. NumInputs(x.model) + NumOutputs(x.model))
        BY <4>2, <1>4, Counts, LenProperties DEF IsIO
      <4> QED BY <4>1, <4>3, <3>1 DEF Freed, gone
    <3> QED BY <3>2, <3>3, <1>8, <1>9
  <2> QED BY <2>1, <2>2, <2>3 DEF OnlyPoolsAreLost
<1>14. TensorsAreDistinct'
  BY <1>9 DEF IInv, HeapInv, TensorsAreDistinct
<1>15. PoolsArePools'
  <2> SUFFICES ASSUME NEW f \in Live', NEW k \in DOMAIN execs'[f].tensors,
                      ~ IsIO(execs'[f].model, k)
               PROVE  mem'[execs'[f].tensors[k]] = "pool"
    BY DEF PoolsArePools, IsIO, NumInputs, NumOutputs
  <2>1. mem[execs[f].tensors[k]] = "pool"
    BY <1>9 DEF IInv, HeapInv, PoolsArePools
  <2>2. execs[f].tensors[k] \in Tensors(f)
    BY <1>9 DEF Tensors
  <2> QED BY <2>1, <2>2, <1>9, <1>12
<1> QED BY <1>10, <1>11, <1>13, <1>14, <1>15 DEF IInv, HeapInv

LEMMA OpenLibraryIInv ==
  ASSUME IInv, NEW h \in Handle, OpenLibrary(h)
  PROVE  IInv'
<1>1. /\ UNCHANGED <<execs, mem, val, linked, state>> /\ UNCHANGED Live
      /\ open' = open \cup {h} /\ owner[h] = None
      /\ owner' = [owner EXCEPT ![h] = "user"]
  BY DEF OpenLibrary, Live
<1>2. AotTypeOK'
  BY <1>1 DEF IInv, AotTypeOK
<1>3. "user" # None /\ "user" \notin Exec /\ None \notin Exec
  BY AotAssumption
<1>4. DOMAIN owner = Handle
  BY DEF IInv, AotTypeOK
<1>5. LibrariesHaveOneOwner'
  BY <1>1, <1>3, <1>4 DEF IInv, LibrariesHaveOneOwner
<1>6. HeapInv'
  BY <1>1, HeapInvKept DEF IInv
<1> QED BY <1>2, <1>5, <1>6 DEF IInv

LEMMA CloseLibraryIInv ==
  ASSUME IInv, NEW h \in Handle, CloseLibrary(h)
  PROVE  IInv'
<1>1. "user" # None /\ "user" \notin Exec /\ None \notin Exec
  BY AotAssumption
<1>2. h \in open
  BY <1>1 DEF CloseLibrary, IInv, LibrariesHaveOneOwner
<1>3. /\ UNCHANGED <<execs, mem, val, linked, state>> /\ UNCHANGED Live
      /\ open' = open \ {h} /\ owner[h] = "user"
      /\ owner' = [owner EXCEPT ![h] = None]
  BY <1>2 DEF CloseLibrary, Live
<1>4. AotTypeOK'
  BY <1>3 DEF IInv, AotTypeOK
<1>5. DOMAIN owner = Handle
  BY DEF IInv, AotTypeOK
<1>6. LibrariesHaveOneOwner'
  BY <1>1, <1>3, <1>5 DEF IInv, LibrariesHaveOneOwner
<1>7. HeapInv'
  BY <1>3, HeapInvKept DEF IInv
<1> QED BY <1>4, <1>6, <1>7 DEF IInv

LEMMA NextIInv == IInv /\ [Next]_vars => IInv'
<1> SUFFICES ASSUME IInv, [Next]_vars PROVE IInv'
  OBVIOUS
<1>1. ASSUME NEW e \in Exec, NEW lib \in Library, CreateRefused(e, lib)
      PROVE  IInv'
  BY <1>1, KeepsIInv DEF CreateRefused, Nothing, Keeps, moduleVars
<1>2. ASSUME NEW e \in Exec, NEW lib \in Library, CreateFails(e, lib)
      PROVE  IInv'
  BY <1>2, CreateFailsIInv
<1>3. ASSUME NEW e \in Exec, NEW lib \in Library, Create(e, lib)
      PROVE  IInv'
  BY <1>3, CreateIInv
<1>4. ASSUME NEW e \in Exec, Run(e) PROVE IInv'
  BY <1>4, RunKeeps, KeepsIInv
<1>5. ASSUME NEW e \in Exec, Free(e) PROVE IInv'
  BY <1>5, FreeIInv
<1>6. ASSUME NEW e \in Exec, NEW i, NEW v, NEW n, SetInput(e, i, v, n)
      PROVE  IInv'
  BY <1>6, SetInputKeeps, KeepsIInv
<1>7. ASSUME NEW e \in Exec, NEW name, NEW v, NEW n, SetInputByName(e, name, v, n)
      PROVE  IInv'
  BY <1>6, <1>7, KeepsIInv DEF SetInputByName, Nothing, Keeps, moduleVars
<1>8. ASSUME NEW e \in Exec, NEW k, NEW n, GetOutput(e, k, n)
      PROVE  IInv'
  BY <1>8, KeepsIInv DEF GetOutput, Nothing, Keeps, moduleVars
<1>9. ASSUME NEW e \in Exec, NEW name, NEW n, GetOutputByName(e, name, n)
      PROVE  IInv'
  BY <1>8, <1>9, KeepsIInv DEF GetOutputByName, Nothing, Keeps, moduleVars
<1>10. ASSUME NEW h \in Handle, OpenLibrary(h) \/ CloseLibrary(h)
       PROVE  IInv'
  BY <1>10, OpenLibraryIInv, CloseLibraryIInv
<1>11. CASE UNCHANGED vars
  BY <1>11, KeepsIInv DEF vars, moduleVars, Keeps
<1> QED BY <1>1, <1>2, <1>3, <1>4, <1>5, <1>6, <1>7, <1>8, <1>9, <1>10, <1>11 DEF Next

LEMMA SpecIInv == Spec => []IInv
<1>1. IInv /\ [Next]_vars => IInv'
  BY NextIInv
<1> QED BY <1>1, InitIInv, PTL DEF Spec

-----------------------------------------------------------------------------
(* What the tensors hold.                                                  *)

(* Where the memory v is as it should be for an executor x, for which the  *)
(* user gave g, and r when it last ran: the second conjunct is why each    *)
(* input has something that was given or not, the first why its outputs    *)
(* are of the model the metadata describes.                                *)
Shown(x, g, r, v) ==
  /\ x.main = x.model
  /\ g \in [1 .. NumInputs(x.model) -> Val \cup {None}]
  /\ \A i \in 1 .. NumInputs(x.model) : v[InputAt(x, i)] = Held(g)[i]
  /\ r # None => \A k \in 1 .. NumOutputs(x.model) :
                   v[OutputAt(x, k)] = Result(x.model, k, Held(r))

(* An executor that is created never ran.                                  *)
Values ==
  /\ DOMAIN given = Exec /\ DOMAIN ran = Exec
  /\ \A e \in Live : Shown(execs[e], given[e], ran[e], val)
  /\ \A e \in Exec \ Live : ran[e] = None

(* The tensors of an executor are blocks of its own, one for each index.   *)
LEMMA Places ==
  ASSUME IInv, NEW e \in Live
  PROVE  LET x == execs[e] IN
         /\ x \in Executor /\ e \in Exec
         /\ NumInputs(x.model) \in Nat /\ NumOutputs(x.model) \in Nat
         /\ \A i \in 1 .. NumInputs(x.model) :
              InputAt(x, i) \in Tensors(e) /\ InputAt(x, i) \in Block
         /\ \A k \in 1 .. NumOutputs(x.model) :
              OutputAt(x, k) \in Tensors(e) /\ OutputAt(x, k) \in Block
         /\ \A i, j \in 1 .. NumInputs(x.model) :
              InputAt(x, i) = InputAt(x, j) => i = j
         /\ \A k, l \in 1 .. NumOutputs(x.model) :
              OutputAt(x, k) = OutputAt(x, l) => k = l
         /\ \A i \in 1 .. NumInputs(x.model), k \in 1 .. NumOutputs(x.model) :
              InputAt(x, i) # OutputAt(x, k)
<1> DEFINE x == execs[e]
<1> DEFINE n == NumInputs(x.model)
<1> DEFINE o == NumOutputs(x.model)
<1>1. e \in Exec /\ x \in Executor /\ Len(x.tensors) = NumTensors(x.model)
  BY DEF IInv, AotTypeOK, Live
<1>2. x.model \in Model /\ x.tensors \in Seq(Block)
  BY <1>1 DEF Executor
<1>3. n \in Nat /\ o \in Nat /\ Meta[x.model].pools \in Nat
  BY <1>2, Counts, AotAssumption
<1>4. DOMAIN x.tensors = 1 .. n + o + Meta[x.model].pools
  BY <1>1, <1>2, LenProperties DEF NumTensors
<1>5. \A j, k \in DOMAIN x.tensors : x.tensors[j] = x.tensors[k] => j = k
  BY DEF IInv, HeapInv, TensorsAreDistinct
<1>6. \A k \in DOMAIN x.tensors : x.tensors[k] \in Tensors(e) /\ x.tensors[k] \in Block
  BY <1>2, <1>4, LenProperties DEF Tensors
<1>7. x = execs[e] /\ n = NumInputs(x.model) /\ o = NumOutputs(x.model)
  OBVIOUS
<1> HIDE DEF x, n, o
<1>8. /\ \A i \in 1 .. n : i \in DOMAIN x.tensors
      /\ \A k \in 1 .. o : n + k \in DOMAIN x.tensors
  BY <1>3, <1>4
<1>9. /\ \A i \in 1 .. n : InputAt(x, i) = x.tensors[i]
      /\ \A k \in 1 .. o : OutputAt(x, k) = x.tensors[n + k]
  BY <1>7 DEF InputAt, OutputAt
<1>10. /\ \A i \in 1 .. n : InputAt(x, i) \in Tensors(e) /\ InputAt(x, i) \in Block
       /\ \A k \in 1 .. o : OutputAt(x, k) \in Tensors(e) /\ OutputAt(x, k) \in Block
  BY <1>6, <1>8, <1>9
<1>11. \A i, j \in 1 .. n : InputAt(x, i) = InputAt(x, j) => i = j
  BY <1>5, <1>8, <1>9
<1>12. \A k, l \in 1 .. o : OutputAt(x, k) = OutputAt(x, l) => k = l
  <2> SUFFICES ASSUME NEW k \in 1 .. o, NEW l \in 1 .. o,
                      OutputAt(x, k) = OutputAt(x, l)
               PROVE  k = l
    OBVIOUS
  <2>1. n + k = n + l
    BY <1>5, <1>8, <1>9
  <2> QED BY <2>1, <1>3
<1>13. \A i \in 1 .. n, k \in 1 .. o : InputAt(x, i) # OutputAt(x, k)
  <2> SUFFICES ASSUME NEW i \in 1 .. n, NEW k \in 1 .. o,
                      InputAt(x, i) = OutputAt(x, k)
               PROVE  FALSE
    OBVIOUS
  <2>1. i = n + k
    BY <1>5, <1>8, <1>9
  <2> QED BY <2>1, <1>3
<1> QED BY <1>1, <1>3, <1>7, <1>10, <1>11, <1>12, <1>13

(* What a step does not give, run or write stays as it should be.          *)
LEMMA ShownKept ==
  ASSUME IInv, Values, NEW f \in Live,
         execs'[f] = execs[f], given'[f] = given[f], ran'[f] = ran[f],
         \A b \in Tensors(f) : val'[b] = val[b]
  PROVE  Shown(execs'[f], given'[f], ran'[f], val')
<1> DEFINE x == execs[f]
<1>1. /\ \A i \in 1 .. NumInputs(x.model) : InputAt(x, i) \in Tensors(f)
      /\ \A k \in 1 .. NumOutputs(x.model) : OutputAt(x, k) \in Tensors(f)
  BY Places
<1>2. Shown(x, given[f], ran[f], val)
  BY DEF Values
<1> HIDE DEF x
<1>3. Shown(x, given[f], ran[f], val')
  BY <1>1, <1>2 DEF Shown
<1> QED BY <1>3 DEF x

(* The blocks an allocation returns are of no executor. *)
LEMMA ContentsKeep ==
  ASSUME IInv, NEW n \in Nat, n <= Cardinality(Unused),
         NEW f \in Live, NEW b \in Tensors(f)
  PROVE  Contents(NextBlocks(n))[b] = val[b]
<1>1. NextBlocks(n) \in [1 .. n -> Unused]
  BY NextBlocksAreUnused
<1>2. b \in Block /\ mem[b] # "free"
  <2>1. execs[f].tensors \in Seq(Block)
    BY DEF IInv, AotTypeOK, Live, Executor
  <2>2. b \in Block
    BY <2>1, LenProperties DEF Tensors
  <2> QED BY <2>2 DEF IInv, HeapInv, OnlyPoolsAreLost
<1>3. ~ \E k \in DOMAIN NextBlocks(n) : NextBlocks(n)[k] = b
  BY <1>1, <1>2 DEF Unused
<1> QED BY <1>2, <1>3 DEF Contents

LEMMA InitValues == Init => Values
<1> SUFFICES ASSUME Init PROVE Values
  OBVIOUS
<1>1. Live = {}
  BY DEF Init, Live
<1> QED BY <1>1 DEF Init, Values

LEMMA ValuesKept ==
  ASSUME IInv, Values, UNCHANGED <<execs, given, ran>>,
         \A f \in Live : \A b \in Tensors(f) : val'[b] = val[b]
  PROVE  Values'
<1>1. Live' = Live
  BY DEF Live
<1>2. \A f \in Live : Shown(execs'[f], given'[f], ran'[f], val')
  BY ShownKept
<1> QED
  BY <1>1, <1>2, ZenonT(60)
  DEF Values, Shown, NumInputs, NumOutputs, InputAt, OutputAt, Held, Result

LEMMA CreateFailsValues ==
  ASSUME IInv, Values, NEW e \in Exec, NEW lib \in Library, CreateFails(e, lib)
  PROVE  Values'
<1>1. PICK m \in {MetadataOf(lib)} \ {None} : \E n \in 0 .. Args(m) :
        n <= Cardinality(Unused) /\ val' = Contents(NextBlocks(n))
  BY DEF CreateFails
<1>2. m \in Model
  BY <1>1, AotAssumption DEF MetadataOf, IInv, AotTypeOK
<1>3. PICK n \in 0 .. Args(m) :
        n <= Cardinality(Unused) /\ val' = Contents(NextBlocks(n))
  BY <1>1
<1>4. n \in Nat
  BY <1>2, Counts
<1>5. \A f \in Live : \A b \in Tensors(f) : val'[b] = val[b]
  BY <1>3, <1>4, ContentsKeep
<1> QED BY <1>5, ValuesKept DEF CreateFails, userVars

LEMMA CreateValues ==
  ASSUME IInv, Values, NEW e \in Exec, NEW lib \in Library, Create(e, lib)
  PROVE  Values'
<1>1. PICK m \in {MetadataOf(lib)} \ {None} : \E main \in MainsFor(lib, m) :
        /\ Args(m) <= Cardinality(Unused)
        /\ execs' = [execs EXCEPT ![e] =
                       [module |-> lib, model |-> m, main |-> main,
                        tensors |-> NextBlocks(Args(m))]]
        /\ val' = Contents(NextBlocks(Args(m)))
        /\ given' = [given EXCEPT ![e] = [i \in 1 .. NumInputs(m) |-> None]]
  BY DEF Create
<1>2. m \in Model /\ ~ StorageFails(m)
  BY <1>1, AotAssumption DEF MetadataOf, IInv, AotTypeOK, Create
<1>3. PICK main \in MainsFor(lib, m) :
        execs' = [execs EXCEPT ![e] =
                    [module |-> lib, model |-> m, main |-> main,
                     tensors |-> NextBlocks(Args(m))]]
  BY <1>1
<1> DEFINE n == Args(m)
<1> DEFINE t == NextBlocks(n)
<1> DEFINE x == [module |-> lib, model |-> m, main |-> main, tensors |-> t]
<1> DEFINE g == [i \in 1 .. NumInputs(m) |-> None]
<1>4. main = m
  BY <1>2, <1>3, AotAssumption DEF MainsFor
<1>5. n \in Nat /\ n = NumTensors(m) /\ n <= Cardinality(Unused)
  BY <1>1, <1>2, Counts
<1>6. t \in [1 .. n -> Unused]
  BY <1>5, NextBlocksAreUnused
<1>7. execs[e] = None /\ DOMAIN execs = Exec /\ UNCHANGED ran
  BY DEF Create, IInv, AotTypeOK
<1>8. execs'[e] = x /\ given'[e] = g /\ val' = Contents(t)
  BY <1>1, <1>3, <1>7 DEF Values
<1>9. \A f \in Exec \ {e} : execs'[f] = execs[f] /\ given'[f] = given[f]
  BY <1>1, <1>3, <1>7 DEF Values
<1>10. x.main = m /\ x.model = m /\ x.tensors = t
  BY <1>4
<1>11. \A i \in 1 .. NumInputs(m) : g[i] = None
  OBVIOUS
<1>12. g \in [1 .. NumInputs(m) -> Val \cup {None}]
  OBVIOUS
<1>13. NumInputs(m) \in Nat /\ NumInputs(m) <= n
  BY <1>2, <1>5, AotAssumption, Counts DEF NumTensors
<1>14. \A f \in Live : \A b \in Tensors(f) : val'[b] = val[b]
  BY <1>1, <1>5, ContentsKeep
<1> HIDE DEF t, n, x, g
<1>15. ran[e] = None
  BY <1>7 DEF Values, Live
<1>16. Shown(x, g, None, val')
  <2>1. ASSUME NEW i \in 1 .. NumInputs(m)
        PROVE  val'[InputAt(x, i)] = Held(g)[i]
    <3>1. i \in 1 .. n
      BY <1>5, <1>13
    <3>2. InputAt(x, i) = t[i] /\ t[i] \in Block
      BY <3>1, <1>6, <1>10 DEF InputAt, Unused
    <3>3. Contents(t)[t[i]] = Fresh
      BY <3>1, <3>2, <1>6 DEF Contents
    <3>4. Held(g)[i] = Fresh
      BY <1>11, <1>12 DEF Held
    <3> QED BY <3>2, <3>3, <3>4, <1>8
  <2> QED BY <2>1, <1>10, <1>12 DEF Shown
<1>17. \A f \in Live' : Shown(execs'[f], given'[f], ran'[f], val')
  <2> SUFFICES ASSUME NEW f \in Live'
               PROVE  Shown(execs'[f], given'[f], ran'[f], val')
    OBVIOUS
  <2>1. CASE f = e
    BY <2>1, <1>7, <1>8, <1>15, <1>16
  <2>2. CASE f # e
    <3>1. f \in Live /\ execs'[f] = execs[f] /\ given'[f] = given[f] /\ ran'[f] = ran[f]
      BY <2>2, <1>7, <1>9 DEF Live
    <3> QED BY <3>1, <1>14, ShownKept
  <2> QED BY <2>1, <2>2
<1>18. \A f \in Exec \ Live' : ran'[f] = None
  BY <1>7, <1>9, <1>15 DEF Values, Live
<1>19. DOMAIN given' = Exec /\ DOMAIN ran' = Exec
  BY <1>1, <1>7 DEF Values
<1> QED BY <1>17, <1>18, <1>19, ZenonT(60)
        DEF Values, Shown, NumInputs, NumOutputs, InputAt, OutputAt, Held, Result

LEMMA FreeValues ==
  ASSUME IInv, Values, NEW e \in Exec, Free(e)
  PROVE  Values'
<1> DEFINE gone == Freed(execs[e].model, execs[e].tensors)
<1>1. /\ val' = [b \in Block |-> IF b \in gone THEN Fresh ELSE val[b]]
      /\ execs' = [execs EXCEPT ![e] = None]
      /\ given' = [given EXCEPT ![e] = <<>>]
      /\ ran' = [ran EXCEPT ![e] = None]
  BY DEF Free
<1>2. e \in Live /\ gone \subseteq Tensors(e) /\ DOMAIN execs = Exec
  BY DEF Free, Live, Freed, Tensors, IInv, AotTypeOK
<1>3. Live' = Live \ {e}
  BY <1>1, <1>2 DEF Live
<1> HIDE DEF gone
<1>4. ASSUME NEW f \in Live' PROVE Shown(execs'[f], given'[f], ran'[f], val')
  <2>1. f \in Live /\ f # e
    BY <1>3
  <2>2. execs'[f] = execs[f] /\ given'[f] = given[f] /\ ran'[f] = ran[f]
    BY <2>1, <1>1
  <2>3. Tensors(f) \cap Tensors(e) = {}
    BY <2>1, <1>2 DEF IInv, HeapInv, OnlyPoolsAreLost
  <2>4. Tensors(f) \subseteq Block
    <3>1. execs[f].tensors \in Seq(Block)
      BY <2>1 DEF IInv, AotTypeOK, Live, Executor
    <3> QED BY <3>1, LenProperties DEF Tensors
  <2>5. \A b \in Tensors(f) : val'[b] = val[b]
    BY <2>3, <2>4, <1>1, <1>2
  <2> QED BY <2>1, <2>2, <2>5, ShownKept
<1>5. \A f \in Exec \ Live' : ran'[f] = None
  BY <1>1, <1>3 DEF Values
<1>6. DOMAIN given' = Exec /\ DOMAIN ran' = Exec
  BY <1>1 DEF Values
<1> QED BY <1>4, <1>5, <1>6, ZenonT(60)
        DEF Values, Shown, NumInputs, NumOutputs, InputAt, OutputAt, Held, Result

(* An input that is given a value holds it, and no other tensor does.      *)
LEMMA SetInputValues ==
  ASSUME IInv, Values, NEW e \in Exec, NEW i, NEW v \in Val, NEW n,
         SetInput(e, i, v, n)
  PROVE  Values'
<1> DEFINE x == execs[e]
<1>1. UNCHANGED <<execs, ran>> /\ Live' = Live /\ e \in Live
  BY DEF SetInput, Live
<1>2. CASE UNCHANGED <<val, given>>
  BY <1>1, <1>2, ValuesKept
<1>3. CASE /\ i \in 1 .. NumInputs(x.model)
           /\ val' = [val EXCEPT ![InputAt(x, i)] = v]
           /\ given' = [given EXCEPT ![e][i] = v]
  <2>1. /\ InputAt(x, i) \in Tensors(e) /\ InputAt(x, i) \in Block
        /\ \A j \in 1 .. NumInputs(x.model) :
             /\ InputAt(x, j) \in Block
             /\ InputAt(x, j) = InputAt(x, i) => j = i
        /\ \A k \in 1 .. NumOutputs(x.model) :
             OutputAt(x, k) \in Block /\ OutputAt(x, k) # InputAt(x, i)
    BY <1>1, <1>3, Places
  <2>2. \A b : b # InputAt(x, i) => val'[b] = val[b]
    BY <1>3
  <2>3. val'[InputAt(x, i)] = v
    BY <1>3, <2>1 DEF IInv, AotTypeOK
  <2>4. given'[e] = [given[e] EXCEPT ![i] = v] /\ DOMAIN given' = Exec
    BY <1>3 DEF Values
  <2>5. \A f \in Exec \ {e} : given'[f] = given[f]
    BY <1>3 DEF Values
  <2>6. Shown(x, given[e], ran[e], val)
    BY <1>1 DEF Values
  <2>7. v # None
    BY AotAssumption
  <2> HIDE DEF x
  <2>8. given'[e] \in [1 .. NumInputs(x.model) -> Val \cup {None}]
    BY <2>4, <2>6 DEF Shown
  <2>9. ASSUME NEW j \in 1 .. NumInputs(x.model)
        PROVE  val'[InputAt(x, j)] = Held(given'[e])[j]
    <3>1. CASE j = i
      <4>1. given'[e][i] = v
        BY <2>4, <2>6, <1>3 DEF Shown
      <4>2. Held(given'[e])[i] = v
        BY <4>1, <2>7, <2>8, <1>3 DEF Held
      <4> QED BY <3>1, <4>2, <2>3
    <3>2. CASE j # i
      <4>1. given'[e][j] = given[e][j]
        BY <3>2, <2>4, <2>6 DEF Shown
      <4>2. Held(given'[e])[j] = Held(given[e])[j]
        BY <4>1, <2>6, <2>8 DEF Held, Shown
      <4>3. val'[InputAt(x, j)] = val[InputAt(x, j)]
        BY <3>2, <2>1, <2>2
      <4> QED BY <4>2, <4>3, <2>6 DEF Shown
    <3> QED BY <3>1, <3>2
  <2>10. ran[e] # None => \A k \in 1 .. NumOutputs(x.model) :
           val'[OutputAt(x, k)] = Result(x.model, k, Held(ran[e]))
    BY <2>1, <2>2, <2>6 DEF Shown
  <2>11. x.main = x.model
    BY <2>6 DEF Shown
  <2>12. Shown(x, given'[e], ran[e], val')
    BY <2>8, <2>9, <2>10, <2>11 DEF Shown
  <2>13. ASSUME NEW f \in Live PROVE Shown(execs'[f], given'[f], ran'[f], val')
    <3>1. CASE f = e
      BY <3>1, <2>12, <1>1 DEF x
    <3>2. CASE f # e
      <4>1. Tensors(f) \cap Tensors(e) = {}
        BY <3>2, <1>1 DEF IInv, HeapInv, OnlyPoolsAreLost
      <4>2. \A b \in Tensors(f) : val'[b] = val[b]
        BY <4>1, <2>1, <2>2
      <4>3. execs'[f] = execs[f] /\ given'[f] = given[f] /\ ran'[f] = ran[f]
        BY <3>2, <1>1, <2>5 DEF Live
      <4> QED BY <4>2, <4>3, ShownKept
    <3> QED BY <3>1, <3>2
  <2> QED BY <2>4, <2>13, <1>1, ZenonT(60)
          DEF Values, Shown, NumInputs, NumOutputs, InputAt, OutputAt, Held, Result
<1> QED BY <1>2, <1>3 DEF SetInput

(* A run writes the outputs of its executor and nothing else: what main    *)
(* computes of what the inputs hold, or what it leaves when it fails.      *)
LEMMA RunValues ==
  ASSUME IInv, Values, NEW e \in Exec, Run(e)
  PROVE  Values'
<1> DEFINE x == execs[e]
<1> DEFINE args == [i \in 1 .. NumInputs(x.model) |-> val[InputAt(x, i)]]
<1> DEFINE Written(f) ==
      [b \in Block |->
         IF \E k \in 1 .. NumOutputs(x.model) : OutputAt(x, k) = b
         THEN f[CHOOSE k \in 1 .. NumOutputs(x.model) : OutputAt(x, k) = b]
         ELSE val[b]]
<1>1. UNCHANGED <<execs, given>> /\ Live' = Live /\ e \in Live
  BY DEF Run, Live
<1>2. x.module \in open \cup {System}
  BY <1>1, ModuleIsOpen
<1>3. \/ /\ val' = Written([k \in 1 .. NumOutputs(x.model) |->
                              Result(x.main, k, args)])
         /\ ran' = [ran EXCEPT ![e] = given[e]]
      \/ /\ val' = Written([k \in 1 .. NumOutputs(x.model) |-> Torn])
         /\ ran' = [ran EXCEPT ![e] = None]
  BY <1>2, Zenon DEF Run
<1>4. PICK f : val' = Written(f)
  BY <1>3, ZenonT(60)
<1>5. Shown(x, given[e], ran[e], val)
  BY <1>1 DEF Values
<1>6. /\ \A i \in 1 .. NumInputs(x.model) :
           InputAt(x, i) \in Tensors(e) /\ InputAt(x, i) \in Block
      /\ \A k \in 1 .. NumOutputs(x.model) :
           OutputAt(x, k) \in Tensors(e) /\ OutputAt(x, k) \in Block
      /\ \A k, l \in 1 .. NumOutputs(x.model) :
           OutputAt(x, k) = OutputAt(x, l) => k = l
      /\ \A i \in 1 .. NumInputs(x.model), k \in 1 .. NumOutputs(x.model) :
           InputAt(x, i) # OutputAt(x, k)
  BY <1>1, Places
<1>7. args = Held(given[e])
  BY <1>5 DEF Shown, Held
<1> HIDE DEF x, args
<1>8. \A b \in Block : (\A k \in 1 .. NumOutputs(x.model) : OutputAt(x, k) # b)
                         => val'[b] = val[b]
  BY <1>4
<1>9. \A i \in 1 .. NumInputs(x.model) : val'[InputAt(x, i)] = Held(given[e])[i]
  BY <1>5, <1>6, <1>8 DEF Shown
<1>10. ran'[e] # None => \A k \in 1 .. NumOutputs(x.model) :
         val'[OutputAt(x, k)] = Result(x.model, k, Held(ran'[e]))
  <2> SUFFICES ASSUME ran'[e] # None, NEW k \in 1 .. NumOutputs(x.model)
               PROVE  val'[OutputAt(x, k)] = Result(x.model, k, Held(ran'[e]))
    OBVIOUS
  <2> DEFINE h == [l \in 1 .. NumOutputs(x.model) |-> Result(x.main, l, args)]
  <2>1. ran'[e] = given[e] /\ val' = Written(h)
    BY <1>3 DEF Values
  <2>2. (CHOOSE l \in 1 .. NumOutputs(x.model) : OutputAt(x, l) = OutputAt(x, k)) = k
    BY <1>6
  <2>3. val'[OutputAt(x, k)] = h[k]
    BY <2>1, <2>2, <1>6
  <2>4. h[k] = Result(x.main, k, args)
    OBVIOUS
  <2> QED BY <2>1, <2>3, <2>4, <1>5, <1>7 DEF Shown
<1>11. Shown(x, given[e], ran'[e], val')
  BY <1>5, <1>9, <1>10 DEF Shown
<1>12. \A g \in Exec \ {e} : ran'[g] = ran[g]
  BY <1>3 DEF Values
<1>13. ASSUME NEW g \in Live PROVE Shown(execs'[g], given'[g], ran'[g], val')
  <2>1. CASE g = e
    BY <2>1, <1>1, <1>11 DEF x
  <2>2. CASE g # e
    <3>1. Tensors(g) \cap Tensors(e) = {}
      BY <2>2, <1>1 DEF IInv, HeapInv, OnlyPoolsAreLost
    <3>2. Tensors(g) \subseteq Block
      <4>1. execs[g].tensors \in Seq(Block)
        BY DEF IInv, AotTypeOK, Live, Executor
      <4> QED BY <4>1, LenProperties DEF Tensors
    <3>3. \A b \in Tensors(g) : val'[b] = val[b]
      BY <3>1, <3>2, <1>6, <1>8
    <3>4. execs'[g] = execs[g] /\ given'[g] = given[g] /\ ran'[g] = ran[g]
      BY <2>2, <1>1, <1>12 DEF Live
    <3> QED BY <3>3, <3>4, ShownKept
  <2> QED BY <2>1, <2>2
<1>14. DOMAIN given' = Exec /\ DOMAIN ran' = Exec
  BY <1>1, <1>3 DEF Values
<1>15. \A g \in Exec \ Live : ran'[g] = None
  BY <1>1, <1>12 DEF Values
<1> QED BY <1>1, <1>13, <1>14, <1>15, ZenonT(60)
        DEF Values, Shown, NumInputs, NumOutputs, InputAt, OutputAt, Held, Result

LEMMA NextValues == IInv /\ Values /\ [Next]_vars => Values'
<1> SUFFICES ASSUME IInv, Values, [Next]_vars PROVE Values'
  OBVIOUS
<1>1. ASSUME UNCHANGED <<execs, val, given, ran>> PROVE Values'
  BY <1>1, ValuesKept
<1>2. ASSUME NEW e \in Exec, NEW lib \in Library,
             CreateRefused(e, lib) \/ CreateFails(e, lib) \/ Create(e, lib)
      PROVE  Values'
  BY <1>1, <1>2, CreateFailsValues, CreateValues DEF CreateRefused, Nothing, userVars
<1>3. ASSUME NEW e \in Exec, Run(e) \/ Free(e) PROVE Values'
  BY <1>3, RunValues, FreeValues
<1>4. ASSUME NEW e \in Exec, NEW i, NEW v \in Val, NEW n, SetInput(e, i, v, n)
      PROVE  Values'
  BY <1>4, SetInputValues
<1>5. ASSUME NEW e \in Exec, NEW name, NEW v \in Val, NEW n,
             SetInputByName(e, name, v, n)
      PROVE  Values'
  BY <1>1, <1>4, <1>5 DEF SetInputByName, Nothing, userVars
<1>6. ASSUME NEW e \in Exec, NEW k, NEW n, GetOutput(e, k, n) PROVE Values'
  BY <1>1, <1>6 DEF GetOutput, Nothing, userVars
<1>7. ASSUME NEW e \in Exec, NEW name, NEW n, GetOutputByName(e, name, n)
      PROVE  Values'
  BY <1>1, <1>6, <1>7 DEF GetOutputByName, Nothing, userVars
<1>8. ASSUME NEW h \in Handle, OpenLibrary(h) \/ CloseLibrary(h) PROVE Values'
  BY <1>1, <1>8 DEF OpenLibrary, CloseLibrary, userVars
<1>9. CASE UNCHANGED vars
  BY <1>1, <1>9 DEF vars, userVars
<1> QED BY <1>2, <1>3, <1>4, <1>5, <1>6, <1>7, <1>8, <1>9 DEF Next

-----------------------------------------------------------------------------
(* The theorems.                                                           *)

(* Executors have all the tensors of their model, and libraries an owner   *)
(* of a known kind: nothing in the executor is half built after a creation *)
(* that failed (aot_executor.c:178-185).                                   *)
THEOREM AotTypes == Spec => []AotTypeOK
<1>1. IInv => AotTypeOK
  BY DEF IInv
<1> QED BY <1>1, SpecIInv, PTL

(* A library is released once and by its owner, and no executor is without *)
(* its library (aot_executor.c:180, :184, :207).                           *)
THEOREM AotLibraries == Spec => []LibrariesHaveOneOwner
<1>1. IInv => LibrariesHaveOneOwner
  BY DEF IInv
<1> QED BY <1>1, SpecIInv, PTL

(* Whatever allocation a creation fails at, and in whatever order          *)
(* executors come and go, the memory of each input and output is of one    *)
(* executor or freed (aot_executor.c:199-206).                             *)
THEOREM AotMemory == Spec => []OnlyPoolsAreLost
<1>1. IInv => OnlyPoolsAreLost
  BY DEF IInv, HeapInv
<1> QED BY <1>1, SpecIInv, PTL

(* Inputs hold what was given, and outputs what the model computed of what *)
(* was given at the last run, although executors are created, run and      *)
(* freed side by side and may fail anywhere (aot_executor.c:129-175).      *)
THEOREM AotTensors == Spec => []TensorsHoldWhatTheyShould
<1>1. ASSUME IInv, Values PROVE TensorsHoldWhatTheyShould
  <2> SUFFICES ASSUME NEW e \in Live
               PROVE  LET x == execs[e]
                      IN /\ [i \in 1 .. NumInputs(x.model) |-> val[InputAt(x, i)]]
                              = Held(given[e])
                         /\ ran[e] # None =>
                              \A k \in 1 .. NumOutputs(x.model) :
                                val[OutputAt(x, k)] = Result(x.model, k, Held(ran[e]))
    BY DEF TensorsHoldWhatTheyShould
  <2>1. Shown(execs[e], given[e], ran[e], val)
    BY <1>1 DEF Values
  <2> QED BY <2>1 DEF Shown, Held
<1>2. IInv /\ [Next]_vars => IInv'
  BY NextIInv
<1>3. IInv /\ Values /\ [Next]_vars => Values'
  BY NextValues
<1> QED BY <1>1, <1>2, <1>3, InitIInv, InitValues, PTL DEF Spec
=============================================================================
