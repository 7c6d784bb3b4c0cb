---------------------------- MODULE ModulesProofs ----------------------------
(***************************************************************************)
(* Proofs about the modules of a library, for every set of blobs the       *)
(* compiler may pack (Packed), every number of modules, names and          *)
(* failures, and every order of lookups, registrations and releases.       *)
(*                                                                         *)
(* The code releases a module by a recursion without a count, and looks up *)
(* a name by a recursion without a bound. Neither goes wrong only because  *)
(* what the loader builds is a tree. So the invariant says of what is open *)
(* that it is a blob as it was loaded (TreeOK), and the first part proves  *)
(* that the imports of a loaded blob are a Tree: the root alone is         *)
(* imported by no one, every other module by exactly one, of a higher      *)
(* rank. An empty module with one import, which the loader replaces by     *)
(* that import, is the case that takes most of it.                         *)
(*                                                                         *)
(* From the tree follow, in this order: that the release comes to each     *)
(* module once (ReachIs, NoneTwice); that a search down to the depth of    *)
(* the number of modules is the whole search (DepthSuffices), and that the *)
(* root answers what it has or what its imports answer without it          *)
(* (SearchAtRoot). The recursive function of Search is unfolded by         *)
(* SearchUnfolds: it exists by an argument over the least depth that       *)
(* fails, as no induction theorem can be applied here.                     *)
(*                                                                         *)
(* CachesOK adds to CachePrefersImports that only the root has a cache and *)
(* that a shared library has made functions only of what it exports; Steps *)
(* is what every action does, and the theorems are read off it.            *)
(***************************************************************************)
EXTENDS Modules, FiniteSetTheorems, WellFoundedInduction, TLAPS

(* A set of numbers that is not empty has a least one.                     *)
LEMMA LeastExists ==
  ASSUME NEW S \in SUBSET Nat, S # {}
  PROVE  \E k \in S : \A l \in S : k <= l
<1>1. PICK k \in S : ~ \E l \in S : <<l, k>> \in OpToRel(<, Nat)
  BY WFMin, NatLessThanWellFounded, Zenon
<1>2. \A l \in S : ~ (l < k)
  BY <1>1, Zenon DEF OpToRel
<1> QED BY <1>2

-----------------------------------------------------------------------------
(* The tree of a blob.                                                     *)

(* The modules of a blob, and a tree of imports: every module of it but    *)
(* the root is imported once, by a module of a higher rank.                *)
Members(b) == {Lib} \cup DevsUpTo(b, Len(b.entries))

Tree(links, r, T, rank) ==
  /\ r \in T /\ T \subseteq Mod
  /\ rank \in [T -> 0 .. Cardinality(Mod)]
  /\ \A x \in T : links[x] \in Seq(T) /\ rank[x] <= rank[r]
  /\ \A x \in T : \A i \in DOMAIN links[x] : rank[links[x][i]] < rank[x]
  /\ \A y \in T \ {r} : \E x \in T : \E i \in DOMAIN links[x] : links[x][i] = y
  /\ \A x, y \in T : \A i \in DOMAIN links[x], j \in DOMAIN links[y] :
       links[x][i] = links[y][j] => x = y /\ i = j

(* The modules are finitely many: the library and the device modules.      *)
LEMMA ModIsFinite == IsFiniteSet(Mod) /\ Cardinality(Mod) \in Nat \ {0}
<1>1. IsFiniteSet(Mod)
  BY ModulesAssumption, FS_AddElement DEF Mod
<1>2. Cardinality(Mod) \in Nat /\ Mod # {}
  BY <1>1, FS_CardinalityType DEF Mod
<1> QED BY <1>1, <1>2, FS_EmptySet

(* The module that stands at j when the loader is done.                    *)
Resolved(b, j) == IF b.entries[j] = "metadata" THEN b.entries[2] ELSE b.entries[j]

(* What Packed says of the empty module and the one after it. *)
LEMMA PackedOrder ==
  ASSUME NEW b \in Blob, Packed(b)
  PROVE  /\ Len(b.entries) \in Nat /\ b.entries \in Seq(Mod \cup {"metadata"})
         /\ \A j \in 1 .. Len(b.entries) :
              b.entries[j] = "metadata" =>
                /\ j = 1 /\ Len(b.entries) >= 2 /\ b.rows # <<>>
                /\ Len(b.rows[1]) = 1 /\ b.rows[1][1] = 2
         /\ \A j \in 2 .. Len(b.entries) : b.entries[j] \in Mod
<1> DEFINE n == Len(b.entries)
<1>1. b.entries \in Seq(Mod \cup {"metadata"}) /\ n \in Nat
  BY ModulesAssumption
<1>2. \A j \in 2 .. n : b.entries[j] \in Mod
  <2>1. b.rows = <<>> => \A j \in 1 .. n : b.entries[j] \in Mod
    BY DEF Packed, Mod
  <2>2. b.rows # <<>> => \A j \in 2 .. n : b.entries[j] \in Mod
    BY Zenon DEF Packed
  <2> QED BY <1>1, <2>1, <2>2
<1>3. ASSUME NEW j \in 1 .. n, b.entries[j] = "metadata"
      PROVE  /\ j = 1 /\ n >= 2 /\ b.rows # <<>>
             /\ Len(b.rows[1]) = 1 /\ b.rows[1][1] = 2
  <2>1. j = 1
    BY <1>1, <1>2, <1>3, ModulesAssumption
  <2>2. b.rows # <<>>
    BY <1>3, <2>1, ModulesAssumption DEF Packed, Mod
  <2>3. Len(b.rows[1]) = 1 /\ b.rows[1] \in Seq(2 .. n)
    <3>1. 1 \in 1 .. n /\ 1 + 1 = 2
      BY <2>1
    <3>2. b.rows[1] \in Seq(1 + 1 .. n)
      BY <2>2, <3>1, Zenon DEF Packed
    <3>3. Len(b.rows[1]) = 1
      BY <1>3, <2>1, <2>2, Zenon DEF Packed
    <3> QED BY <3>1, <3>2, <3>3
  <2>4. b.rows[1][1] \in 2 .. n
    BY <2>3
  <2>5. n >= 2 /\ 2 \in 2 .. n
    BY <2>4, <1>1
  <2>6. PICK i \in 1 .. n : 2 \in {b.rows[i][x] : x \in DOMAIN b.rows[i]}
    BY <2>2, <2>5 DEF Packed
  <2>7. b.rows[i] \in Seq(i + 1 .. n)
    BY <2>2, Zenon DEF Packed
  <2>8. PICK x \in DOMAIN b.rows[i] : b.rows[i][x] = 2
    BY <2>6
  <2>9. 2 \in i + 1 .. n
    BY <2>7, <2>8, SMTT(60)
  <2>10. i = 1
    BY <2>9, <1>1
  <2>11. x = 1
    BY <2>3, <2>8, <2>10
  <2> QED BY <2>1, <2>2, <2>3, <2>5, <2>8, <2>10, <2>11
<1> QED BY <1>1, <1>2, <1>3

(* The slots are the modules, the first after its row in place of an empty *)
(* one.                                                                    *)
LEMMA SlotsAre ==
  ASSUME NEW b \in Blob, Packed(b)
  PROVE  \A i \in 0 .. Len(b.entries) :
           Slots(b)[i] = [j \in 1 .. Len(b.entries) |->
                            IF i = 0 /\ b.entries[j] = "metadata" THEN None
                            ELSE Resolved(b, j)]
<1> DEFINE n == Len(b.entries)
           first == [j \in 1 .. n |-> IF b.entries[j] = "metadata" THEN None
                                      ELSE b.entries[j]]
           S == [i \in 0 .. n |-> IF i = 0 THEN first
                                  ELSE [j \in 1 .. n |-> Resolved(b, j)]]
<1>1. /\ n \in Nat /\ b.entries \in Seq(Mod \cup {"metadata"})
      /\ \A j \in 1 .. n :
              b.entries[j] = "metadata" =>
                /\ j = 1 /\ n >= 2 /\ b.rows # <<>>
                /\ Len(b.rows[1]) = 1 /\ b.rows[1][1] = 2
      /\ \A j \in 2 .. n : b.entries[j] \in Mod
  BY PackedOrder
<1>2. ASSUME NEW i \in 1 .. n
      PROVE  Replaced(b, i, S[i - 1]) = S[i]
  <2> DEFINE old == S[i - 1]
             full == [j \in 1 .. n |-> Resolved(b, j)]
  <2>1. i \in 0 .. n /\ i - 1 \in 0 .. n /\ S[i] = full
    BY <1>1
  <2>2. CASE i = 1 /\ b.entries[1] = "metadata"
    <3>1. old = first /\ 1 \in 1 .. n /\ 2 \in 1 .. n
      BY <2>1, <2>2, <1>1
    <3>2. old[1] = None /\ old[2] = b.entries[2]
      BY <3>1, <2>2, <1>1, ModulesAssumption DEF Mod
    <3>3. Replaced(b, i, old) = [old EXCEPT ![1] = old[2]]
      <4>1. old[b.rows[1][1]] = old[2] /\ i = 1 /\ Len(b.rows[i]) = 1
        BY <2>2, <1>1, <3>1
      <4> QED BY <4>1, <3>2, Zenon DEF Replaced
    <3>4. ASSUME NEW j \in 1 .. n PROVE [old EXCEPT ![1] = old[2]][j] = full[j]
      <4>1. CASE j = 1
        BY <4>1, <3>1, <3>2, <2>2 DEF Resolved
      <4>2. CASE j # 1
        BY <4>2, <3>1, <1>1 DEF Resolved
      <4> QED BY <4>1, <4>2
    <3>5. [old EXCEPT ![1] = old[2]] = full
      BY <3>1, <3>4
    <3> QED BY <3>3, <3>5, <2>1
  <2>3. CASE ~ (i = 1 /\ b.entries[1] = "metadata")
    <3>1. b.entries[i] \in Mod
      BY <2>3, <1>1
    <3>2. old[i] = b.entries[i]
      BY <3>1, <2>1, ModulesAssumption DEF Resolved
    <3>3. Replaced(b, i, old) = old
      BY <3>1, <3>2, ModulesAssumption DEF Replaced
    <3>4. CASE i = 1
      <4>1. \A j \in 1 .. n : b.entries[j] # "metadata"
        BY <3>4, <2>3, <1>1
      <4>2. first = full
        BY <4>1 DEF Resolved
      <4> QED BY <4>2, <3>3, <3>4, <2>1
    <3>5. CASE i # 1
      <4>1. old = full
        BY <3>5, <2>1
      <4> QED BY <4>1, <3>3, <2>1
    <3> QED BY <3>4, <3>5
  <2> QED BY <2>2, <2>3
<1> DEFINE body(s) == [i \in 0 .. n |-> IF i = 0 THEN first ELSE Replaced(b, i, s[i - 1])]
<1>3. S = body(S)
  <2>1. \A i \in 0 .. n : S[i] = body(S)[i]
    <3> SUFFICES ASSUME NEW i \in 0 .. n PROVE S[i] = body(S)[i]
      OBVIOUS
    <3>1. CASE i = 0
      BY <3>1
    <3>2. CASE i # 0
      <4>1. i \in 1 .. n
        BY <3>2, <1>1
      <4>2. body(S)[i] = Replaced(b, i, S[i - 1])
        BY <3>2
      <4> QED BY <4>1, <4>2, <1>2
    <3> QED BY <3>1, <3>2
  <2>2. S = [i \in 0 .. n |-> S[i]] /\ body(S) = [i \in 0 .. n |-> body(S)[i]]
    OBVIOUS
  <2> HIDE DEF S, body
  <2> QED BY <2>1, <2>2
<1>4. Slots(b) = body(Slots(b))
  <2>1. Slots(b) = CHOOSE s : s = body(s)
    BY DEF Slots
  <2> HIDE DEF S
  <2> QED BY <2>1, <1>3
<1>5. \A i \in 0 .. n : Slots(b)[i] = S[i]
  <2> DEFINE Bad == {i \in 0 .. n : Slots(b)[i] # S[i]}
  <2> SUFFICES ASSUME Bad # {} PROVE FALSE
    OBVIOUS
  <2>1. Bad \subseteq Nat
    OBVIOUS
  <2>2. PICK i \in Bad : \A l \in Bad : i <= l
    BY <2>1, LeastExists
  <2>3. i \in 0 .. n /\ Slots(b)[i] # S[i] /\ S[i] = body(S)[i] /\ Slots(b)[i] = body(Slots(b))[i]
    BY <2>2, <1>3, <1>4
  <2>4. i # 0
    <3>1. body(S)[0] = first /\ body(Slots(b))[0] = first
      BY <1>1
    <3> HIDE DEF S, body
    <3> QED BY <3>1, <2>3
  <2>5. i - 1 \in 0 .. n /\ ~ (i <= i - 1)
    BY <2>3, <2>4
  <2>6. Slots(b)[i - 1] = S[i - 1]
    BY <2>5, <2>2
  <2> HIDE DEF S
  <2> QED BY <2>3, <2>4, <2>6
<1> QED BY <1>5 DEF Resolved

(* An entry of a row is a module behind it. *)
LEMMA RowsAre ==
  ASSUME NEW b \in Blob, Packed(b), b.rows # <<>>, NEW i \in 1 .. Len(b.entries)
  PROVE  /\ b.rows[i] \in Seq(i + 1 .. Len(b.entries))
         /\ \A x \in 1 .. Len(b.rows[i]) :
              /\ b.rows[i][x] \in i + 1 .. Len(b.entries)
              /\ b.rows[i][x] \in 2 .. Len(b.entries)
              /\ b.entries[b.rows[i][x]] \in Mod
<1>1. b.rows[i] \in Seq(i + 1 .. Len(b.entries))
  BY Zenon DEF Packed
<1>2. ASSUME NEW x \in 1 .. Len(b.rows[i])
      PROVE  /\ b.rows[i][x] \in i + 1 .. Len(b.entries)
             /\ b.rows[i][x] \in 2 .. Len(b.entries)
             /\ b.entries[b.rows[i][x]] \in Mod
  <2>1. b.rows[i][x] \in i + 1 .. Len(b.entries)
    BY <1>1, SMTT(60)
  <2>2. Len(b.entries) \in Nat
    BY PackedOrder
  <2>3. b.rows[i][x] \in 2 .. Len(b.entries)
    BY <2>1, <2>2
  <2> QED BY <2>1, <2>3, PackedOrder
<1> QED BY <1>1, <1>2

(* The imports of the modules of a blob. *)
LEMMA LoadedIs ==
  ASSUME NEW b \in Blob, Packed(b)
  PROVE  /\ b.rows = <<>> =>
              Loaded(b) = [m \in Mod |-> IF m = Lib THEN b.entries ELSE <<>>]
         /\ b.rows # <<>> =>
              \A i \in 1 .. Len(b.entries) : b.entries[i] \in Mod =>
                Loaded(b)[b.entries[i]] =
                  [x \in 1 .. Len(b.rows[i]) |-> b.entries[b.rows[i][x]]]
<1> DEFINE n == Len(b.entries)
<1>1. n \in Nat /\ b.entries \in Seq(Mod \cup {"metadata"})
  BY PackedOrder
<1>2. CASE b.rows = <<>>
  <2>1. Slots(b)[0] = [j \in 1 .. n |-> b.entries[j]]
    <3>1. \A j \in 1 .. n : b.entries[j] # "metadata"
      BY <1>2, PackedOrder
    <3>2. 0 \in 0 .. n
      BY <1>1
    <3> QED BY <3>1, <3>2, SlotsAre DEF Resolved
  <2>2. Slots(b)[0] = b.entries
    BY <2>1, <1>1
  <2> QED BY <1>2, <2>2 DEF Loaded
<1>3. CASE b.rows # <<>>
  <2> SUFFICES ASSUME NEW i \in 1 .. n, b.entries[i] \in Mod
               PROVE  Loaded(b)[b.entries[i]] =
                        [x \in 1 .. Len(b.rows[i]) |-> b.entries[b.rows[i][x]]]
    BY <1>3
  <2> DEFINE m == b.entries[i]
             indexOf == {j \in 1 .. n : Slots(b)[j - 1][j] = m}
             row(j) == [x \in 1 .. Len(b.rows[j]) |-> Slots(b)[j - 1][b.rows[j][x]]]
  <2>1. ASSUME NEW j \in 1 .. n
        PROVE  Slots(b)[j - 1][j] = IF b.entries[j] = "metadata" THEN None
                                    ELSE b.entries[j]
    <3>1. j - 1 \in 0 .. n
      BY <1>1
    <3>2. Slots(b)[j - 1][j] = IF j - 1 = 0 /\ b.entries[j] = "metadata" THEN None
                               ELSE Resolved(b, j)
      <4>1. Slots(b)[j - 1] =
              [l \in 1 .. n |-> IF j - 1 = 0 /\ b.entries[l] = "metadata" THEN None
                                ELSE Resolved(b, l)]
        BY <3>1, SlotsAre
      <4> QED BY <4>1
    <3>3. b.entries[j] = "metadata" => j - 1 = 0
      BY PackedOrder
    <3> QED BY <3>2, <3>3 DEF Resolved
  <2>2. m # None /\ m # "metadata"
    BY ModulesAssumption
  <2>3. indexOf = {i}
    <3>1. i \in indexOf
      BY <2>1, <2>2
    <3>2. ASSUME NEW j \in indexOf PROVE j = i
      <4>1. b.entries[j] = b.entries[i]
        BY <2>1, <2>2
      <4> QED BY <4>1 DEF Packed
    <3> QED BY <3>1, <3>2
  <2>4. Loaded(b)[m] = row(CHOOSE j \in indexOf : TRUE)
    <3>1. indexOf # {}
      BY <2>3
    <3> QED BY <1>3, <3>1, ZenonT(60) DEF Loaded
  <2>5. (CHOOSE j \in indexOf : TRUE) = i
    BY <2>3
  <2>6. ASSUME NEW x \in 1 .. Len(b.rows[i])
        PROVE  Slots(b)[i - 1][b.rows[i][x]] = b.entries[b.rows[i][x]]
    <3>1. b.rows[i][x] \in 2 .. n /\ b.rows[i][x] \in 1 .. n
          /\ b.entries[b.rows[i][x]] \in Mod
      <4>1. \A y \in 1 .. Len(b.rows[i]) :
              /\ b.rows[i][y] \in 2 .. n
              /\ b.entries[b.rows[i][y]] \in Mod
        BY <1>3, RowsAre
      <4> QED BY <4>1, <1>1
    <3>2. i - 1 \in 0 .. n
      BY <1>1
    <3>3. b.entries[b.rows[i][x]] # "metadata"
      BY <3>1, ModulesAssumption
    <3>4. Slots(b)[i - 1] =
            [l \in 1 .. n |-> IF i - 1 = 0 /\ b.entries[l] = "metadata" THEN None
                              ELSE Resolved(b, l)]
      BY <3>2, SlotsAre
    <3>5. Slots(b)[i - 1][b.rows[i][x]] = Resolved(b, b.rows[i][x])
      BY <3>1, <3>3, <3>4
    <3> QED BY <3>3, <3>5 DEF Resolved
  <2>7. row(i) = [x \in 1 .. Len(b.rows[i]) |-> b.entries[b.rows[i][x]]]
    BY <2>6
  <2> HIDE DEF indexOf, row
  <2> QED BY <2>4, <2>5, <2>7
<1> QED BY <1>2, <1>3

(* What is loaded is a tree: a module ranks above those it imports, as     *)
(* they come later in the blob.                                            *)
LEMMA LoadedTree ==
  ASSUME NEW b \in Blob, Packed(b)
  PROVE  \E rank : Tree(Loaded(b), RootOf(b), Members(b), rank)
<1> DEFINE n == Len(b.entries)
           T == Members(b)
           F == Loaded(b)
<1>1. n \in Nat /\ b.entries \in Seq(Mod \cup {"metadata"})
      /\ \A i \in 1 .. n : b.entries[i] \in Mod \cup {"metadata"}
  BY PackedOrder
<1>2. T = {Lib} \cup ({b.entries[i] : i \in 1 .. n} \cap Dev) /\ T \subseteq Mod
  BY DEF Members, DevsUpTo, Mod
<1>c. Cardinality(Mod) \in Nat /\ Cardinality(Mod) >= 1
  BY ModIsFinite
<1>3. CASE b.rows = <<>>
  <2> DEFINE rank == [m \in T |-> IF m = Lib THEN 1 ELSE 0]
  <2>1. \A i \in 1 .. n : b.entries[i] \in Dev /\ b.entries[i] # Lib
    BY <1>3, ModulesAssumption DEF Packed
  <2>2. T = {Lib} \cup {b.entries[i] : i \in 1 .. n}
    BY <1>2, <2>1
  <2>3. RootOf(b) = Lib
    BY <1>3 DEF RootOf
  <2>4. F = [m \in Mod |-> IF m = Lib THEN b.entries ELSE <<>>]
    BY <1>3, LoadedIs
  <2>5. \A x \in T : F[x] = IF x = Lib THEN b.entries ELSE <<>>
    BY <1>2, <2>4
  <2>6. b.entries \in Seq(T) /\ DOMAIN b.entries = 1 .. n
    BY <1>1, <2>2
  <2>7. rank \in [T -> 0 .. Cardinality(Mod)]
    BY <1>c
  <2>8. \A x \in T : F[x] \in Seq(T) /\ rank[x] <= rank[Lib]
    <3>1. <<>> \in Seq(T) /\ Lib \in T
      BY <2>2
    <3>2. \A x \in T : F[x] \in Seq(T)
      <4> HIDE DEF F, T
      <4> QED BY <2>5, <2>6, <3>1
    <3> QED BY <3>1, <3>2
  <2>9. \A x \in T : \A i \in DOMAIN F[x] : rank[F[x][i]] < rank[x]
    BY <2>1, <2>2, <2>5, <2>6
  <2>10. \A y \in T \ {Lib} : \E x \in T : \E i \in DOMAIN F[x] : F[x][i] = y
    BY <2>2, <2>5, <2>6, SMTT(60)
  <2>11. ASSUME NEW x \in T, NEW y \in T, NEW i \in DOMAIN F[x], NEW j \in DOMAIN F[y],
                F[x][i] = F[y][j]
         PROVE  x = y /\ i = j
    <3>1. x = Lib /\ y = Lib
      BY <2>5
    <3>2. i \in 1 .. n /\ j \in 1 .. n /\ b.entries[i] = b.entries[j]
      BY <3>1, <2>5, <2>6, <2>11
    <3> QED BY <3>1, <3>2 DEF Packed
  <2>12. Tree(F, Lib, T, rank)
    <3>1. Lib \in T
      BY <1>2
    <3> HIDE DEF F, T, rank
    <3> QED BY <1>2, <3>1, <2>7, <2>8, <2>9, <2>10, <2>11 DEF Tree
  <2> QED BY <2>3, <2>12
<1>4. CASE b.rows # <<>>
  <2> DEFINE r == IF b.entries[1] = "metadata" THEN 2 ELSE 1
  <2>1. n >= 1
    BY <1>4, ModulesAssumption, <1>1
  <2>2. r \in 1 .. n /\ \A i \in r .. n : i \in 1 .. n /\ b.entries[i] \in Mod /\ b.entries[i] # "metadata"
    <3>1. \A i \in 2 .. n : b.entries[i] \in Mod
      BY PackedOrder
    <3>2. b.entries[1] = "metadata" => n >= 2
      BY <2>1, PackedOrder, <1>1
    <3> QED BY <3>1, <3>2, <2>1, <1>1, ModulesAssumption
  <2>3. RootOf(b) = b.entries[r]
    <3>1. RootOf(b) = Slots(b)[n][1]
      BY <1>4 DEF RootOf
    <3>2. n \in 0 .. n /\ 1 \in 1 .. n /\ n # 0
      BY <1>1, <2>1
    <3>3. Slots(b)[n] = [l \in 1 .. n |-> IF n = 0 /\ b.entries[l] = "metadata" THEN None
                                          ELSE Resolved(b, l)]
      BY <3>2, SlotsAre
    <3> QED BY <3>1, <3>2, <3>3 DEF Resolved
  <2>4. T = {b.entries[i] : i \in r .. n}
    <3>1. PICK l \in 1 .. n : b.entries[l] = Lib
      BY <1>4, Zenon DEF Packed
    <3>2. l \in r .. n
      BY <3>1, ModulesAssumption, <2>2, <1>1 DEF Mod
    <3>3. ASSUME NEW i \in 1 .. n, b.entries[i] \in Dev PROVE i \in r .. n
      BY <3>3, ModulesAssumption, <2>2, <1>1 DEF Mod
    <3> QED BY <3>1, <3>2, <3>3, <1>2, <2>2 DEF Mod
  <2> DEFINE idx == [m \in T |-> CHOOSE i \in r .. n : b.entries[i] = m]
             rank == [m \in T |-> n - idx[m]]
  <2>5. \A i \in r .. n : b.entries[i] \in T /\ idx[b.entries[i]] = i
    <3> SUFFICES ASSUME NEW i \in r .. n PROVE b.entries[i] \in T /\ idx[b.entries[i]] = i
      OBVIOUS
    <3>1. b.entries[i] \in T
      BY <2>4
    <3>2. ASSUME NEW j \in r .. n, b.entries[j] = b.entries[i] PROVE j = i
      BY <3>2, <2>2 DEF Packed
    <3>3. (CHOOSE j \in r .. n : b.entries[j] = b.entries[i]) = i
      BY <3>2
    <3> QED BY <3>1, <3>3
  <2>6. \A x \in T : idx[x] \in r .. n /\ b.entries[idx[x]] = x
    BY <2>4, <2>5
  <2> HIDE DEF idx
  <2>7. ASSUME NEW x \in T
        PROVE  /\ F[x] = [k \in 1 .. Len(b.rows[idx[x]]) |-> b.entries[b.rows[idx[x]][k]]]
               /\ DOMAIN F[x] = 1 .. Len(b.rows[idx[x]])
               /\ Len(b.rows[idx[x]]) \in Nat
               /\ \A k \in DOMAIN F[x] :
                    /\ b.rows[idx[x]][k] \in idx[x] + 1 .. n
                    /\ b.rows[idx[x]][k] \in r .. n
                    /\ F[x][k] \in T /\ idx[F[x][k]] = b.rows[idx[x]][k]
    <3> DEFINE i == idx[x]
    <3>1. i \in r .. n /\ i \in 1 .. n /\ b.entries[i] = x
      BY <2>2, <2>6
    <3>2. F[x] = [k \in 1 .. Len(b.rows[i]) |-> b.entries[b.rows[i][k]]]
      <4>1. \A l \in 1 .. n : b.entries[l] \in Mod =>
              F[b.entries[l]] = [k \in 1 .. Len(b.rows[l]) |-> b.entries[b.rows[l][k]]]
        BY <1>4, LoadedIs
      <4>2. b.entries[i] \in Mod
        BY <3>1, <1>2
      <4> HIDE DEF F
      <4> QED BY <3>1, <4>1, <4>2
    <3>3. b.rows[i] \in Seq(i + 1 .. n)
      BY <3>1, <1>4, RowsAre
    <3>4. DOMAIN F[x] = 1 .. Len(b.rows[i]) /\ Len(b.rows[i]) \in Nat
      BY <3>2, <3>3
    <3>5. ASSUME NEW k \in DOMAIN F[x]
          PROVE  /\ b.rows[i][k] \in i + 1 .. n
                 /\ b.rows[i][k] \in r .. n
                 /\ F[x][k] \in T /\ idx[F[x][k]] = b.rows[i][k]
      <4>1. b.rows[i][k] \in i + 1 .. n
        BY <3>1, <3>4, <1>4, RowsAre
      <4>2. b.rows[i][k] \in r .. n
        BY <4>1, <3>1, <2>2, <1>1
      <4>3. F[x][k] = b.entries[b.rows[i][k]]
        BY <3>2, <3>4
      <4> QED BY <4>1, <4>2, <4>3, <2>5
    <3> QED BY <3>2, <3>4, <3>5, Zenon
  <2>8. rank \in [T -> 0 .. Cardinality(Mod)]
    <3>1. n - r <= Cardinality(Mod)
      <4> DEFINE A == {b.entries[i] : i \in 2 .. n}
                 f == [i \in 2 .. n |-> b.entries[i]]
      <4>1. A \subseteq Mod
        BY PackedOrder
      <4>2. f \in Bijection(2 .. n, A)
        <5>1. \A i, j \in 2 .. n : f[i] = f[j] => i = j
          BY <1>1 DEF Packed
        <5> QED BY <5>1 DEF Bijection, Injection, Surjection, IsInjective
      <4>3. Cardinality(2 .. n) = n - 1
        BY FS_Interval, <2>1, <1>1, SMTT(60)
      <4>4. Cardinality(A) = n - 1
        <5>1. IsFiniteSet(2 .. n)
          <6>1. 2 \in Int /\ n \in Int
            BY <1>1
          <6> QED BY <6>1, FS_Interval
        <5> HIDE DEF A, f
        <5> QED BY <4>2, <4>3, <5>1, FS_Bijection DEF ExistsBijection
      <4>5. Cardinality(A) <= Cardinality(Mod)
        BY <4>1, FS_Subset, ModIsFinite
      <4>6. r \in {1, 2}
        OBVIOUS
      <4> HIDE DEF A, r
      <4> QED BY <4>4, <4>5, <4>6, <1>1, <1>c
    <3>2. \A x \in T : n - idx[x] \in 0 .. Cardinality(Mod)
      <4>1. r \in Int /\ r >= 1
        OBVIOUS
      <4> HIDE DEF r
      <4> QED BY <2>6, <3>1, <4>1, <1>1, <1>c, SMTT(60)
    <3> QED BY <3>2
  <2>9. ASSUME NEW x \in T PROVE F[x] \in Seq(T) /\ rank[x] <= rank[b.entries[r]]
    <3>1. F[x] \in Seq(T)
      <4> DEFINE m == Len(b.rows[idx[x]])
      <4>1. F[x] = [k \in 1 .. m |-> b.entries[b.rows[idx[x]][k]]] /\ m \in Nat
        BY <2>7
      <4>2. \A k \in 1 .. m : F[x][k] \in T
        BY <2>7
      <4> HIDE DEF T, F, m
      <4> QED BY <4>1, <4>2
    <3>2. b.entries[r] \in T /\ idx[b.entries[r]] = r
      BY <2>2, <2>5
    <3>3. idx[x] \in r .. n
      BY <2>6
    <3> QED BY <3>1, <3>2, <3>3, <1>1, <2>2
  <2>10. ASSUME NEW x \in T, NEW k \in DOMAIN F[x] PROVE rank[F[x][k]] < rank[x]
    <3>1. F[x][k] \in T /\ idx[F[x][k]] \in idx[x] + 1 .. n /\ idx[x] \in r .. n
      BY <2>6, <2>7
    <3> QED BY <3>1, <1>1, <2>2
  <2>11. ASSUME NEW y \in T \ {b.entries[r]}
         PROVE  \E x \in T : \E k \in DOMAIN F[x] : F[x][k] = y
    <3> DEFINE j == idx[y]
    <3>1. j \in r .. n /\ j # r /\ b.entries[j] = y
      BY <2>6
    <3>2. j \in 2 .. n /\ j > r
      BY <3>1, <2>2, <1>1
    <3>3. PICK i \in 1 .. n : j \in {b.rows[i][x] : x \in DOMAIN b.rows[i]}
      BY <3>2, <1>4, Zenon DEF Packed
    <3>4. PICK k \in DOMAIN b.rows[i] : b.rows[i][k] = j
      BY <3>3
    <3>5. b.rows[i] \in Seq(i + 1 .. n) /\ k \in 1 .. Len(b.rows[i])
      <4>1. b.rows[i] \in Seq(i + 1 .. n)
        BY <1>4, RowsAre
      <4> QED BY <4>1, <3>4
    <3>6. i \in r .. n
      <4>1. CASE b.entries[1] = "metadata" /\ i = 1
        <5>1. Len(b.rows[1]) = 1 /\ b.rows[1][1] = 2
          BY <4>1, <2>1, PackedOrder, <1>1
        <5> QED BY <5>1, <4>1, <3>4, <3>5, <3>2
      <4>2. CASE b.entries[1] # "metadata" \/ i # 1
        BY <4>2, <1>1
      <4> QED BY <4>1, <4>2
    <3>7. b.entries[i] \in T /\ idx[b.entries[i]] = i
      BY <3>6, <2>5
    <3>8. k \in DOMAIN F[b.entries[i]] /\ F[b.entries[i]][k] = b.entries[b.rows[i][k]]
      <4>1. Len(b.rows[idx[b.entries[i]]]) = Len(b.rows[i])
            /\ DOMAIN F[b.entries[i]] = 1 .. Len(b.rows[i])
            /\ F[b.entries[i]] = [l \in 1 .. Len(b.rows[i]) |-> b.entries[b.rows[i][l]]]
        BY <3>7, <2>7, ZenonT(60)
      <4> HIDE DEF F
      <4> QED BY <4>1, <3>5
    <3> QED BY <3>1, <3>4, <3>7, <3>8
  <2>12. ASSUME NEW x \in T, NEW y \in T, NEW k \in DOMAIN F[x], NEW l \in DOMAIN F[y],
                F[x][k] = F[y][l]
         PROVE  x = y /\ k = l
    <3>1. b.rows[idx[x]][k] = b.rows[idx[y]][l]
      <4>1. idx[F[x][k]] = b.rows[idx[x]][k]
        BY <2>7
      <4>2. idx[F[y][l]] = b.rows[idx[y]][l]
        BY <2>7
      <4> QED BY <4>1, <4>2, <2>12
    <3>2. idx[x] \in 1 .. n /\ idx[y] \in 1 .. n
      BY <2>2, <2>6
    <3>3. k \in DOMAIN b.rows[idx[x]] /\ l \in DOMAIN b.rows[idx[y]]
      <4>1. b.rows[idx[x]] \in Seq(idx[x] + 1 .. n) /\ b.rows[idx[y]] \in Seq(idx[y] + 1 .. n)
        BY <3>2, <1>4, RowsAre
      <4>2. k \in 1 .. Len(b.rows[idx[x]]) /\ l \in 1 .. Len(b.rows[idx[y]])
        BY <2>7
      <4> QED BY <4>1, <4>2
    <3>4. idx[x] = idx[y] /\ k = l
      <4>1. \A i, j \in 1 .. n : \A p \in DOMAIN b.rows[i], q \in DOMAIN b.rows[j] :
              b.rows[i][p] = b.rows[j][q] => i = j /\ p = q
        BY <1>4, Zenon DEF Packed
      <4>2. \A p \in DOMAIN b.rows[idx[x]], q \in DOMAIN b.rows[idx[y]] :
              b.rows[idx[x]][p] = b.rows[idx[y]][q] => idx[x] = idx[y] /\ p = q
        BY <3>2, <4>1
      <4> QED BY <3>1, <3>3, <4>2
    <3> QED BY <3>4, <2>6
  <2>13. Tree(F, b.entries[r], T, rank)
    <3>1. b.entries[r] \in T
      BY <2>2, <2>5
    <3> HIDE DEF F, T, rank, r
    <3> QED BY <1>2, <3>1, <2>8, <2>9, <2>10, <2>11, <2>12 DEF Tree
  <2> QED BY <2>3, <2>13
<1> QED BY <1>3, <1>4

-----------------------------------------------------------------------------
(* What the release of a tree comes to.                                    *)

(* Reach, of any imports.                                                  *)
ReachIn(links, m) ==
  {x \in Mod : \A S \in SUBSET Mod :
     m \in S /\ (\A y \in S : \A i \in DOMAIN links[y] :
                  links[y][i] # None => links[y][i] \in S) => x \in S}

(* It comes to every module of the tree, and to no other.                  *)
LEMMA ReachIs ==
  ASSUME NEW links, NEW r, NEW T, NEW rank, Tree(links, r, T, rank)
  PROVE  ReachIn(links, r) = T
<1>1. /\ r \in T /\ T \subseteq Mod /\ None \notin T
      /\ \A x \in T : links[x] \in Seq(T)
      /\ rank \in [T -> 0 .. Cardinality(Mod)] /\ Cardinality(Mod) \in Nat
  BY ModIsFinite, ModulesAssumption DEF Tree
<1>2. ASSUME NEW x \in ReachIn(links, r) PROVE x \in T
  <2>1. \A y \in T : \A i \in DOMAIN links[y] : links[y][i] \in T
    BY <1>1
  <2> QED BY <1>1, <2>1 DEF ReachIn
<1>3. ASSUME NEW S \in SUBSET Mod, r \in S,
             \A y \in S : \A i \in DOMAIN links[y] : links[y][i] # None => links[y][i] \in S
      PROVE  T \subseteq S
  <2> DEFINE Bad == {d \in Nat : \E x \in T : x \notin S /\ d = rank[r] - rank[x]}
  <2>1. SUFFICES ASSUME NEW z \in T, z \notin S PROVE FALSE
    OBVIOUS
  <2>2. rank[r] - rank[z] \in Bad
    <3>1. rank[r] \in Nat /\ rank[z] \in Nat /\ rank[z] <= rank[r]
      BY <1>1 DEF Tree
    <3> QED BY <3>1, <2>1
  <2>3. PICK d \in Bad : \A e \in Bad : d <= e
    BY <2>2, LeastExists
  <2>4. PICK x \in T : x \notin S /\ d = rank[r] - rank[x]
    BY <2>3
  <2>5. x # r
    BY <2>4, <1>3
  <2>6. PICK y \in T : \E i \in DOMAIN links[y] : links[y][i] = x
    BY <2>5 DEF Tree
  <2>7. PICK i \in DOMAIN links[y] : links[y][i] = x
    BY <2>6
  <2>8. rank[x] < rank[y] /\ rank[y] <= rank[r]
    BY <2>6, <2>7 DEF Tree
  <2>9. rank[x] \in Nat /\ rank[y] \in Nat /\ rank[r] \in Nat
    BY <1>1
  <2>10. rank[r] - rank[y] \in Nat /\ rank[r] - rank[y] < d
    BY <2>4, <2>8, <2>9
  <2>11. y \in S
    <3> SUFFICES ASSUME y \notin S PROVE FALSE
      OBVIOUS
    <3>1. rank[r] - rank[y] \in Bad
      BY <2>10
    <3>2. d <= rank[r] - rank[y]
      BY <2>3, <3>1
    <3> QED BY <3>2, <2>10, <2>9, <2>4
  <2> QED BY <2>11, <2>7, <2>4, <1>1, <1>3
<1>4. T \subseteq ReachIn(links, r)
  BY <1>1, <1>3 DEF ReachIn
<1> QED BY <1>2, <1>4

(* It comes to none of them twice. *)
LEMMA NoneTwice ==
  ASSUME NEW r, NEW T, NEW rank, Tree(imports, r, T, rank)
  PROVE  Reach(r) = T /\ ReachedTwice(r) = {}
<1>1. Reach(r) = T
  <2>1. Reach(r) = ReachIn(imports, r)
    BY DEF Reach, ReachIn
  <2> QED BY <2>1, ReachIs
<1>2. ASSUME NEW x \in T PROVE ~ (Cardinality(Edges(T, x)) > IF x = r THEN 0 ELSE 1)
  <2>1. CASE x = r
    <3>1. ASSUME NEW y \in T, NEW i \in DOMAIN imports[y], imports[y][i] = r PROVE FALSE
      <4>1. rank[r] < rank[y] /\ rank[y] <= rank[r]
        BY <3>1 DEF Tree
      <4>2. rank[y] \in Int /\ rank[r] \in Int
        BY ModIsFinite DEF Tree
      <4> QED BY <4>1, <4>2
    <3>2. Edges(T, x) = {}
      BY <3>1, <2>1 DEF Edges
    <3> QED BY <3>2, <2>1, FS_EmptySet
  <2>2. CASE x # r
    <3>1. PICK y \in T : \E i \in DOMAIN imports[y] : imports[y][i] = x
      BY <2>2 DEF Tree
    <3>2. PICK i \in DOMAIN imports[y] : imports[y][i] = x
      BY <3>1
    <3>3. Edges(T, x) \subseteq {<<y, i>>}
      <4> SUFFICES ASSUME NEW z \in T, NEW j \in DOMAIN imports[z], imports[z][j] = x
                   PROVE  <<z, j>> = <<y, i>>
        BY DEF Edges
      <4>1. z = y /\ j = i
        BY <3>1, <3>2, SMTT(60) DEF Tree
      <4> QED BY <4>1
    <3>4. IsFiniteSet({<<y, i>>}) /\ Cardinality({<<y, i>>}) = 1
      BY FS_Singleton
    <3>5. Cardinality(Edges(T, x)) <= 1 /\ Cardinality(Edges(T, x)) \in Nat
      BY <3>3, <3>4, FS_Subset, FS_CardinalityType
    <3> QED BY <3>5, <2>2
  <2> QED BY <2>1, <2>2
<1> QED BY <1>1, <1>2 DEF ReachedTwice

-----------------------------------------------------------------------------
(* What a search finds.                                                    *)

(* f is the recursive function of Search, up to depth n.                   *)
Found(f, answer, links, n) ==
  f = [k \in 0 .. n |-> IF k = 0 THEN answer ELSE Asked(answer, links, f[k - 1])]

(* There is such a function: were there a least depth without one, the     *)
(* function of the depth before it could be continued.                     *)
LEMMA FoundExists ==
  ASSUME NEW answer, NEW links, NEW n \in Nat
  PROVE  \E f : Found(f, answer, links, n)
<1> DEFINE S == {k \in Nat : ~ \E f : Found(f, answer, links, k)}
<1> SUFFICES ASSUME S # {} PROVE FALSE
  OBVIOUS
<1>1. PICK k \in S : \A l \in S : k <= l
  BY LeastExists
<1>2. CASE k = 0
  <2> DEFINE f == [i \in 0 .. 0 |-> answer]
  <2>1. f = [i \in 0 .. 0 |-> IF i = 0 THEN answer ELSE Asked(answer, links, f[i - 1])]
    OBVIOUS
  <2>2. Found(f, answer, links, 0)
    BY <2>1 DEF Found
  <2> QED BY <2>2, <1>2
<1>3. CASE k # 0
  <2>1. k \in Nat /\ k - 1 \in Nat /\ k - 1 \notin S
    BY <1>1, <1>3
  <2>2. PICK g : Found(g, answer, links, k - 1)
    BY <2>1
  <2> DEFINE f == [i \in 0 .. k |-> IF i < k THEN g[i] ELSE Asked(answer, links, g[k - 1])]
  <2>3. ASSUME NEW i \in 0 .. k
        PROVE  f[i] = IF i = 0 THEN answer ELSE Asked(answer, links, f[i - 1])
    <3>1. CASE i = 0
      <4>1. f[0] = g[0] /\ g[0] = answer
        BY <2>1, <2>2, <1>3 DEF Found
      <4> QED BY <3>1, <4>1
    <3>2. CASE i # 0
      <4>1. i - 1 \in 0 .. k - 1 /\ i - 1 \in 0 .. k /\ i - 1 < k
        BY <3>2, <2>1
      <4>2. f[i - 1] = g[i - 1]
        BY <4>1
      <4>3. CASE i = k
        <5>1. f[i] = Asked(answer, links, g[k - 1])
          BY <4>3
        <5> QED BY <5>1, <4>2, <4>3, <3>2
      <4>4. CASE i # k
        <5>1. i \in 0 .. k - 1 /\ f[i] = g[i]
          BY <4>4, <2>1
        <5>2. g[i] = Asked(answer, links, g[i - 1])
          BY <5>1, <2>2, <3>2 DEF Found
        <5> QED BY <5>1, <5>2, <4>2, <3>2
      <4> QED BY <4>3, <4>4
    <3> QED BY <3>1, <3>2
  <2>4. f = [i \in 0 .. k |-> f[i]]
    OBVIOUS
  <2> HIDE DEF f
  <2>5. f = [i \in 0 .. k |-> IF i = 0 THEN answer ELSE Asked(answer, links, f[i - 1])]
    BY <2>3, <2>4
  <2>6. Found(f, answer, links, k)
    BY <2>5 DEF Found
  <2> QED BY <2>6, <1>1
<1> QED BY <1>2, <1>3

(* So Search is the last value of one.                                     *)
LEMMA SearchUnfolds ==
  ASSUME NEW answer, NEW links
  PROVE  \E f : /\ Found(f, answer, links, Cardinality(Mod))
                /\ \A m : Search(answer, links, m) = f[Cardinality(Mod)][m]
<1> DEFINE n == Cardinality(Mod)
           f == CHOOSE f : f = [k \in 0 .. n |->
                  IF k = 0 THEN answer ELSE Asked(answer, links, f[k - 1])]
<1>1. \E g : g = [k \in 0 .. n |-> IF k = 0 THEN answer ELSE Asked(answer, links, g[k - 1])]
  <2>1. PICK g : Found(g, answer, links, n)
    BY ModIsFinite, FoundExists
  <2> QED BY <2>1 DEF Found
<1>2. f = [k \in 0 .. n |-> IF k = 0 THEN answer ELSE Asked(answer, links, f[k - 1])]
  BY <1>1
<1>3. \A m : Search(answer, links, m) = f[n][m]
  BY DEF Search
<1> HIDE DEF f
<1> QED BY <1>2, <1>3 DEF Found

(* FirstOf is the first of the answers, or none.                           *)
LEMMA FirstOfIs ==
  ASSUME NEW s, DOMAIN s \subseteq Nat, FirstOf(s) # None
  PROVE  \E i \in DOMAIN s : FirstOf(s) = s[i]
<1> DEFINE hits == {i \in DOMAIN s : s[i] # None}
<1>1. hits # {} /\ FirstOf(s) = s[CHOOSE i \in hits : \A j \in hits : i <= j]
  BY DEF FirstOf
<1>2. \E i \in hits : \A j \in hits : i <= j
  BY <1>1, LeastExists
<1> QED BY <1>1, <1>2

(* Each level of a search. *)
Below(links, x, below) ==
  [i \in DOMAIN links[x] |-> IF links[x][i] = None THEN None ELSE below[links[x][i]]]

(* A level answers what the module has or the level below answers.         *)
LEMMA FoundAt ==
  ASSUME NEW f, NEW answer, NEW links, NEW n \in Nat, Found(f, answer, links, n),
         NEW x \in Mod
  PROVE  /\ f[0][x] = answer[x]
         /\ \A k \in 1 .. n :
              f[k][x] = IF answer[x] # None THEN answer[x]
                        ELSE FirstOf(Below(links, x, f[k - 1]))
<1>1. f[0] = answer
  BY DEF Found
<1>2. ASSUME NEW k \in 1 .. n
      PROVE  f[k][x] = IF answer[x] # None THEN answer[x]
                       ELSE FirstOf(Below(links, x, f[k - 1]))
  <2>1. k \in 0 .. n /\ k # 0
    OBVIOUS
  <2>2. f[k] = Asked(answer, links, f[k - 1])
    BY <2>1 DEF Found
  <2> QED BY <2>2 DEF Asked, Below
<1> QED BY <1>1, <1>2

(* It is what some module of the part that is searched answers. *)
LEMMA FoundAnswers ==
  ASSUME NEW f, NEW answer, NEW links, NEW n \in Nat, Found(f, answer, links, n),
         NEW S \in SUBSET Mod, \A x \in S : links[x] \in Seq(S),
         NEW k \in 0 .. n, NEW x \in S
  PROVE  f[k][x] # None => \E y \in S : f[k][x] = answer[y]
<1> DEFINE Bad == {l \in 0 .. n : \E z \in S : f[l][z] # None
                                    /\ ~ \E y \in S : f[l][z] = answer[y]}
<1> SUFFICES ASSUME Bad # {} PROVE FALSE
  OBVIOUS
<1>1. Bad \subseteq Nat
  OBVIOUS
<1>2. PICK l \in Bad : \A j \in Bad : l <= j
  BY <1>1, LeastExists
<1>3. PICK z \in S : f[l][z] # None /\ ~ \E y \in S : f[l][z] = answer[y]
  BY <1>2
<1>4. l \in 0 .. n /\ l # 0
  BY <1>2, <1>3, FoundAt
<1>5. l \in 1 .. n /\ l - 1 \in 0 .. n /\ l - 1 \notin Bad
  BY <1>2, <1>4
<1>6. answer[z] = None /\ f[l][z] = FirstOf(Below(links, z, f[l - 1]))
  BY <1>3, <1>5, FoundAt
<1>7. DOMAIN Below(links, z, f[l - 1]) = DOMAIN links[z] /\ DOMAIN links[z] \subseteq Nat
      /\ \A i \in DOMAIN links[z] : links[z][i] \in S
  BY DEF Below
<1>8. PICK i \in DOMAIN links[z] : f[l][z] = Below(links, z, f[l - 1])[i]
  BY <1>3, <1>6, <1>7, FirstOfIs
<1>9. f[l][z] = f[l - 1][links[z][i]]
  BY <1>3, <1>8 DEF Below
<1> QED BY <1>3, <1>5, <1>7, <1>9

(* It depends on the answers in the part that is searched only. *)
LEMMA FoundAgrees ==
  ASSUME NEW f, NEW g, NEW answer, NEW other, NEW links, NEW n \in Nat,
         Found(f, answer, links, n), Found(g, other, links, n),
         NEW S \in SUBSET Mod, \A x \in S : links[x] \in Seq(S),
         \A x \in S : answer[x] = other[x],
         NEW k \in 0 .. n, NEW x \in S
  PROVE  f[k][x] = g[k][x]
<1> DEFINE Bad == {l \in 0 .. n : \E z \in S : f[l][z] # g[l][z]}
<1> SUFFICES ASSUME Bad # {} PROVE FALSE
  OBVIOUS
<1>1. Bad \subseteq Nat
  OBVIOUS
<1>2. PICK l \in Bad : \A j \in Bad : l <= j
  BY <1>1, LeastExists
<1>3. PICK z \in S : f[l][z] # g[l][z]
  BY <1>2
<1>4. l \in 0 .. n /\ l # 0
  <2>1. f[0][z] = answer[z] /\ g[0][z] = other[z]
    BY FoundAt
  <2> QED BY <1>2, <1>3, <2>1
<1>5. l \in 1 .. n /\ l - 1 \in 0 .. n /\ l - 1 \notin Bad
  BY <1>2, <1>4
<1>6. Below(links, z, f[l - 1]) = Below(links, z, g[l - 1])
  <2>1. \A i \in DOMAIN links[z] : links[z][i] \in S
    OBVIOUS
  <2>2. \A i \in DOMAIN links[z] : f[l - 1][links[z][i]] = g[l - 1][links[z][i]]
    BY <2>1, <1>5
  <2> QED BY <2>2 DEF Below
<1>7. f[l][z] = g[l][z]
  <2>1. f[l][z] = IF answer[z] # None THEN answer[z]
                  ELSE FirstOf(Below(links, z, f[l - 1]))
    BY <1>5, FoundAt
  <2>2. g[l][z] = IF other[z] # None THEN other[z]
                  ELSE FirstOf(Below(links, z, g[l - 1]))
    BY <1>5, FoundAt
  <2> QED BY <2>1, <2>2, <1>6
<1> QED BY <1>3, <1>7

(* A search that goes deeper than the tree finds nothing more. *)
LEMMA DepthSuffices ==
  ASSUME NEW f, NEW answer, NEW links, NEW n \in Nat, Found(f, answer, links, n),
         NEW S \in SUBSET Mod, \A x \in S : links[x] \in Seq(S),
         NEW rank, \A x \in S : rank[x] \in Nat,
         \A x \in S : \A i \in DOMAIN links[x] : rank[links[x][i]] < rank[x],
         NEW k \in 0 .. n - 1, NEW x \in S, rank[x] <= k
  PROVE  f[k][x] = f[k + 1][x]
<1> DEFINE Bad == {l \in 0 .. n - 1 : \E z \in S : rank[z] <= l /\ f[l][z] # f[l + 1][z]}
<1> SUFFICES ASSUME Bad # {} PROVE FALSE
  OBVIOUS
<1>1. Bad \subseteq Nat
  OBVIOUS
<1>2. PICK l \in Bad : \A j \in Bad : l <= j
  BY <1>1, LeastExists
<1>3. PICK z \in S : rank[z] <= l /\ f[l][z] # f[l + 1][z]
  BY <1>2
<1>4. l \in 0 .. n - 1 /\ l + 1 \in 1 .. n /\ (l + 1) - 1 = l
  BY <1>2
<1>5. f[l + 1][z] = IF answer[z] # None THEN answer[z]
                    ELSE FirstOf(Below(links, z, f[l]))
  BY <1>4, FoundAt
<1>6. CASE l = 0
  <2>1. rank[z] \in Nat /\ rank[z] <= 0
    BY <1>3, <1>6
  <2>2. ASSUME NEW i \in DOMAIN links[z] PROVE FALSE
    <3>1. links[z][i] \in S
      BY SMTT(60)
    <3>2. rank[links[z][i]] \in Nat /\ rank[links[z][i]] < rank[z]
      BY <3>1
    <3> QED BY <2>1, <3>2
  <2>3. FirstOf(Below(links, z, f[l])) = None
    <3>1. DOMAIN Below(links, z, f[l]) = {}
      BY <2>2 DEF Below
    <3> QED BY <3>1, Zenon DEF FirstOf
  <2>4. f[0][z] = answer[z]
    BY FoundAt
  <2> QED BY <1>3, <1>5, <1>6, <2>3, <2>4
<1>7. CASE l # 0
  <2>1. l \in 1 .. n /\ l - 1 \in 0 .. n - 1 /\ l - 1 \notin Bad /\ (l - 1) + 1 = l
    BY <1>2, <1>4, <1>7, SMTT(60)
  <2>2. f[l][z] = IF answer[z] # None THEN answer[z]
                  ELSE FirstOf(Below(links, z, f[l - 1]))
    BY <2>1, FoundAt
  <2>3. Below(links, z, f[l - 1]) = Below(links, z, f[l])
    <3>1. ASSUME NEW i \in DOMAIN links[z]
          PROVE  f[l - 1][links[z][i]] = f[l][links[z][i]]
      <4>1. links[z][i] \in S
        OBVIOUS
      <4>2. rank[links[z][i]] \in Nat /\ rank[links[z][i]] < rank[z] /\ rank[z] \in Nat
        BY <4>1
      <4>3. rank[links[z][i]] <= l - 1
        BY <4>2, <1>3, <1>4, SMTT(60)
      <4> QED BY <4>1, <4>3, <2>1
    <3> QED BY <3>1, SMTT(60) DEF Below
  <2> QED BY <1>3, <1>5, <2>2, <2>3
<1> QED BY <1>6, <1>7

(* What the imports of m answer. *)
Through(answer, links, m) ==
  FirstOf([i \in DOMAIN links[m] |->
             IF links[m][i] = None THEN None ELSE Search(answer, links, links[m][i])])

(* The part below the root is searched without coming to the root. *)
LEMMA BelowRoot ==
  ASSUME NEW links, NEW r, NEW T, NEW rank, Tree(links, r, T, rank)
  PROVE  /\ r \in Mod /\ T \ {r} \in SUBSET Mod
         /\ \A x \in T : links[x] \in Seq(T \ {r})
         /\ \A x \in T : rank[x] \in Nat /\ rank[x] <= rank[r]
         /\ \A x \in T : \A i \in DOMAIN links[x] :
              links[x][i] \in T \ {r} /\ rank[links[x][i]] < rank[x]
         /\ rank[r] <= Cardinality(Mod)
<1>1. \A x \in T : rank[x] \in Nat /\ rank[x] <= rank[r] /\ rank[x] <= Cardinality(Mod)
  BY ModIsFinite DEF Tree
<1>2. r \in T /\ T \subseteq Mod /\ \A x \in T : links[x] \in Seq(T)
  BY DEF Tree
<1>3. ASSUME NEW x \in T, NEW i \in DOMAIN links[x]
      PROVE  links[x][i] \in T \ {r} /\ rank[links[x][i]] < rank[x]
  <2>1. links[x][i] \in T
    BY <1>2
  <2>2. rank[links[x][i]] < rank[x]
    BY DEF Tree
  <2>3. links[x][i] # r
    BY <1>1, <2>1, <2>2
  <2> QED BY <2>1, <2>2, <2>3
<1>4. ASSUME NEW x \in T PROVE links[x] \in Seq(T \ {r})
  BY <1>2, <1>3
<1> QED BY <1>1, <1>2, <1>3, <1>4

(* What the imports of the root answer is the answer of a module below it. *)
LEMMA ThroughAnswers ==
  ASSUME NEW links, NEW r, NEW T, NEW rank, Tree(links, r, T, rank), NEW answer,
         Through(answer, links, r) # None
  PROVE  \E y \in T \ {r} : Through(answer, links, r) = answer[y]
<1> DEFINE s == [i \in DOMAIN links[r] |->
             IF links[r][i] = None THEN None ELSE Search(answer, links, links[r][i])]
           C == Cardinality(Mod)
<1>1. PICK f : /\ Found(f, answer, links, C)
               /\ \A m : Search(answer, links, m) = f[C][m]
  BY SearchUnfolds
<1>2. r \in T /\ DOMAIN links[r] \subseteq Nat /\ C \in Nat
  BY ModIsFinite DEF Tree
<1>3. PICK i \in DOMAIN links[r] : Through(answer, links, r) = s[i]
  <2>1. DOMAIN s \subseteq Nat /\ Through(answer, links, r) = FirstOf(s)
    BY <1>2 DEF Through
  <2> HIDE DEF s
  <2>2. \E i \in DOMAIN s : FirstOf(s) = s[i]
    BY <2>1, FirstOfIs
  <2> QED BY <2>1, <2>2 DEF s
<1>4. Through(answer, links, r) = f[C][links[r][i]]
  BY <1>1, <1>3
<1>5. links[r][i] \in T \ {r}
  BY <1>2, BelowRoot
<1>6. T \ {r} \in SUBSET Mod /\ \A x \in T \ {r} : links[x] \in Seq(T \ {r})
  BY BelowRoot
<1>7. C \in 0 .. C
  BY <1>2
<1> HIDE DEF C, s
<1>8. \E y \in T \ {r} : f[C][links[r][i]] = answer[y]
  BY <1>1, <1>2, <1>4, <1>5, <1>6, <1>7, FoundAnswers
<1> QED BY <1>4, <1>8

(* And it does not depend on what the root itself answers.                 *)
LEMMA ThroughAgrees ==
  ASSUME NEW links, NEW r, NEW T, NEW rank, Tree(links, r, T, rank),
         NEW answer, NEW other, \A x \in T \ {r} : answer[x] = other[x]
  PROVE  Through(answer, links, r) = Through(other, links, r)
<1> DEFINE C == Cardinality(Mod)
<1>1. PICK f : /\ Found(f, answer, links, C)
               /\ \A m : Search(answer, links, m) = f[C][m]
  BY SearchUnfolds
<1>2. PICK g : /\ Found(g, other, links, C)
               /\ \A m : Search(other, links, m) = g[C][m]
  BY SearchUnfolds
<1>3. C \in Nat /\ C \in 0 .. C /\ r \in T
  BY ModIsFinite DEF Tree
<1>4. T \ {r} \in SUBSET Mod /\ (\A x \in T \ {r} : links[x] \in Seq(T \ {r}))
      /\ \A i \in DOMAIN links[r] : links[r][i] \in T \ {r}
  BY <1>3, BelowRoot
<1> HIDE DEF C
<1>5. \A i \in DOMAIN links[r] : f[C][links[r][i]] = g[C][links[r][i]]
  BY <1>1, <1>2, <1>3, <1>4, FoundAgrees
<1> QED BY <1>1, <1>2, <1>5 DEF Through

(* The root answers itself, or its imports do. *)
LEMMA SearchAtRoot ==
  ASSUME NEW links, NEW r, NEW T, NEW rank, Tree(links, r, T, rank), NEW answer
  PROVE  Search(answer, links, r) =
           IF answer[r] # None THEN answer[r] ELSE Through(answer, links, r)
<1> DEFINE C == Cardinality(Mod)
<1>1. PICK f : /\ Found(f, answer, links, C)
               /\ \A m : Search(answer, links, m) = f[C][m]
  BY SearchUnfolds
<1>2. C \in Nat /\ C \in 1 .. C /\ C - 1 \in 0 .. C - 1 /\ (C - 1) + 1 = C
  BY ModIsFinite
<1>3. /\ r \in Mod /\ r \in T /\ T \ {r} \in SUBSET Mod
      /\ \A x \in T : links[x] \in Seq(T \ {r})
      /\ \A x \in T : rank[x] \in Nat /\ rank[x] <= rank[r]
      /\ \A x \in T : \A i \in DOMAIN links[x] :
           links[x][i] \in T \ {r} /\ rank[links[x][i]] < rank[x]
      /\ rank[r] <= C
  <2>1. r \in T
    BY DEF Tree
  <2> QED BY <2>1, BelowRoot
<1> HIDE DEF C
<1>4. f[C][r] = IF answer[r] # None THEN answer[r] ELSE FirstOf(Below(links, r, f[C - 1]))
  BY <1>1, <1>2, <1>3, FoundAt
<1>5. ASSUME NEW i \in DOMAIN links[r] PROVE f[C - 1][links[r][i]] = f[C][links[r][i]]
  <2> DEFINE x == links[r][i]
  <2>1. x \in T \ {r} /\ rank[x] < rank[r] /\ rank[x] \in Nat /\ rank[r] \in Nat
    BY <1>3
  <2>2. rank[x] <= C - 1
    BY <2>1, <1>2, <1>3
  <2> DEFINE S == T \ {r}
  <2>3. S \in SUBSET Mod /\ (\A z \in S : links[z] \in Seq(S)) /\ (\A z \in S : rank[z] \in Nat)
        /\ \A z \in S : \A j \in DOMAIN links[z] : rank[links[z][j]] < rank[z]
    BY <1>3
  <2> HIDE DEF x, S
  <2>4. x \in S
    BY <2>1 DEF S
  <2>5. f[C - 1][x] = f[(C - 1) + 1][x]
    BY <1>1, <1>2, <2>2, <2>3, <2>4, DepthSuffices, ZenonT(60)
  <2> QED BY <2>5, <1>2 DEF x
<1>6. Below(links, r, f[C - 1]) =
        [i \in DOMAIN links[r] |->
           IF links[r][i] = None THEN None ELSE Search(answer, links, links[r][i])]
  BY <1>1, <1>5 DEF Below
<1> QED BY <1>1, <1>4, <1>6 DEF Through

-----------------------------------------------------------------------------
(* The invariant.                                                          *)

(* ModulesTypeOK in the parts the proofs use.                              *)
TypesOK ==
  /\ alive \subseteq Mod
  /\ imports \in [Mod -> Seq(Mod \cup {None})]
  /\ env \in [Mod -> [Name -> Function \cup {None}]]
  /\ own \in [Mod -> SUBSET Name]
  /\ kind \in {"none", "dso", "sys"}
  /\ kind = "none" <=> root = None
  /\ symbols # None => symbols \subseteq Name /\ IsFiniteSet(symbols)
  /\ sys_status \in 0 .. MaxSymbols \/ sys_status = Release
  /\ globals \in [Name -> ({"global"} \X (1 .. MaxVersion)) \cup {None}]
  /\ state \in {"up", "exited"}
  /\ UnionIsSafe

(* What is open is a blob as it was loaded. *)
TreeOK ==
  root # None =>
    \E b \in Blob : /\ root = RootOf(b) /\ Members(b) \subseteq alive
                    /\ \A m \in Members(b) : imports[m] = Loaded(b)[m]

(* Only the root has a cache, and a shared library has made functions only *)
(* for what it exports.                                                    *)
CachesOK ==
  /\ \A m \in Mod : m # root => env[m] = [n \in Name |-> None]
  /\ kind = "dso" => own[Lib] \subseteq Exports[Lib]
  /\ CachePrefersImports

IInv == TypesOK /\ TreeOK /\ CachesOK

(* The blobs are packed as the compiler does.                              *)
AllPacked == \A b \in Blob : Packed(b)

(* What is open is a tree below the root.                                  *)
LEMMA RootTree ==
  ASSUME AllPacked, TreeOK, root # None
  PROVE  \E T : \E rank : Tree(imports, root, T, rank) /\ T \subseteq alive
<1>1. PICK b \in Blob : /\ root = RootOf(b) /\ Members(b) \subseteq alive
                        /\ \A m \in Members(b) : imports[m] = Loaded(b)[m]
  BY DEF TreeOK
<1>2. PICK rank : Tree(Loaded(b), RootOf(b), Members(b), rank)
  BY LoadedTree DEF AllPacked
<1> DEFINE T == Members(b)
           F == Loaded(b)
<1>3. root = RootOf(b) /\ T \subseteq alive /\ \A m \in T : imports[m] = F[m]
  BY <1>1
<1>4. Tree(F, root, T, rank)
  BY <1>2, <1>3
<1> HIDE DEF T, F
<1>5. Tree(imports, root, T, rank)
  <2>1. root \in T /\ T \subseteq Mod /\ rank \in [T -> 0 .. Cardinality(Mod)]
    BY <1>4 DEF Tree
  <2>2. \A x \in T : imports[x] \in Seq(T) /\ rank[x] <= rank[root]
    BY <1>3, <1>4 DEF Tree
  <2>3. \A x \in T : \A i \in DOMAIN imports[x] : rank[imports[x][i]] < rank[x]
    BY <1>3, <1>4 DEF Tree
  <2>4. \A y \in T \ {root} : \E x \in T : \E i \in DOMAIN imports[x] : imports[x][i] = y
    BY <1>3, <1>4 DEF Tree
  <2>5. \A x, y \in T : \A i \in DOMAIN imports[x], j \in DOMAIN imports[y] :
          imports[x][i] = imports[y][j] => x = y /\ i = j
    <3>1. \A x, y \in T : \A i \in DOMAIN F[x], j \in DOMAIN F[y] :
            F[x][i] = F[y][j] => x = y /\ i = j
      BY <1>4, SMTT(60) DEF Tree
    <3> QED BY <3>1, <1>3
  <2> QED BY <2>1, <2>2, <2>3, <2>4, <2>5 DEF Tree
<1> QED BY <1>3, <1>5

(* What each module answers by itself.                                     *)
Answers(n) == [x \in Mod |-> Answer(x, n)]

(* What the imports of the root have is a function of one of them. *)
LEMMA FromImportsIs ==
  ASSUME AllPacked, IInv, root # None, NEW n \in Name, FromImports(root, n) # None
  PROVE  \E y \in Mod : Has(y, n) /\ FromImports(root, n) = <<y, n>>
<1>1. PICK T, rank : Tree(imports, root, T, rank)
  BY RootTree DEF IInv
<1>2. FromImports(root, n) = Through(Answers(n), imports, root)
  BY DEF FromImports, Through, GetFunction, Answers
<1>3. PICK y \in T \ {root} : Through(Answers(n), imports, root) = Answers(n)[y]
  BY <1>1, <1>2, ThroughAnswers
<1>4. y \in Mod /\ y # root
  BY <1>1 DEF Tree
<1>5. Answers(n)[y] = IF Has(y, n) THEN <<y, n>> ELSE None
  BY <1>4 DEF Answers, Answer, IInv, CachesOK
<1> QED BY <1>2, <1>3, <1>4, <1>5

(* A lookup finds what the root answers, or its imports.                   *)
LEMMA GetFunctionIs ==
  ASSUME AllPacked, IInv, root # None, NEW n \in Name
  PROVE  GetFunction(root, n) =
           IF Has(root, n) THEN <<root, n>>
           ELSE IF env[root][n] # None THEN env[root][n]
           ELSE FromImports(root, n)
<1>1. PICK T, rank : Tree(imports, root, T, rank)
  BY RootTree DEF IInv
<1>2. root \in Mod
  BY <1>1, BelowRoot
<1>3. GetFunction(root, n) = Search(Answers(n), imports, root)
  BY DEF GetFunction, Answers
<1>4. FromImports(root, n) = Through(Answers(n), imports, root)
  BY DEF FromImports, Through, GetFunction, Answers
<1>5. Answers(n)[root] = IF Has(root, n) THEN <<root, n>> ELSE env[root][n]
  BY <1>2 DEF Answers, Answer
<1>6. <<root, n>> # None
  BY <1>2, ModulesAssumption DEF Function
<1> QED BY <1>1, <1>3, <1>4, <1>5, <1>6, SearchAtRoot

(* A function that is found is one a module has, or a global one. *)
LEMMA FoundIsOwned ==
  ASSUME AllPacked, IInv, root # None, NEW n \in Name, GetFunction(root, n) # None
  PROVE  \/ GetFunction(root, n)[1] = "global"
         \/ \E y \in Mod : Has(y, n) /\ GetFunction(root, n) = <<y, n>>
<1>1. root \in Mod
  BY RootTree, BelowRoot DEF IInv
<1>2. CASE Has(root, n)
  BY <1>1, <1>2, GetFunctionIs
<1>3. CASE ~ Has(root, n) /\ env[root][n] # None
  <2>1. GetFunction(root, n) = env[root][n]
    BY <1>3, GetFunctionIs
  <2>2. CASE FromImports(root, n) # None
    <3>1. env[root][n] = FromImports(root, n)
      BY <1>3, <2>2 DEF IInv, CachesOK, CachePrefersImports
    <3> QED BY <2>1, <2>2, <3>1, FromImportsIs
  <2>3. CASE FromImports(root, n) = None
    BY <1>3, <2>1, <2>3 DEF IInv, CachesOK, CachePrefersImports
  <2> QED BY <2>2, <2>3
<1>4. CASE ~ Has(root, n) /\ env[root][n] = None
  <2>1. GetFunction(root, n) = FromImports(root, n)
    BY <1>4, GetFunctionIs
  <2> QED BY <2>1, FromImportsIs
<1> QED BY <1>2, <1>3, <1>4

(* A step that leaves the modules below the root as they are leaves what   *)
(* they answer.                                                            *)
LEMMA ImportsStay ==
  ASSUME AllPacked, IInv, root # None, root' = root, imports' = imports,
         NEW n \in Name,
         \A y \in Mod : Has(y, n)' <=> Has(y, n),
         \A y \in Mod \ {root} : env'[y] = env[y]
  PROVE  FromImports(root, n)' = FromImports(root, n)
<1>1. PICK T, rank : Tree(imports, root, T, rank)
  BY RootTree DEF IInv
<1> DEFINE A == Answers(n)
           B == [x \in Mod |-> IF Has(x, n)' THEN <<x, n>> ELSE env'[x][n]]
<1>2. FromImports(root, n) = Through(A, imports, root)
  BY DEF FromImports, Through, GetFunction, Answers
<1>3. FromImports(root, n)' = Through(B, imports, root)
  BY DEF FromImports, Through, GetFunction, Answer
<1>4. \A x \in T \ {root} : A[x] = B[x]
  <2> SUFFICES ASSUME NEW x \in T \ {root} PROVE A[x] = B[x]
    OBVIOUS
  <2>1. x \in Mod /\ x # root
    BY <1>1 DEF Tree
  <2>2. A[x] = IF Has(x, n) THEN <<x, n>> ELSE env[x][n]
    BY <2>1 DEF Answers, Answer
  <2>3. B[x] = IF Has(x, n)' THEN <<x, n>> ELSE env'[x][n]
    BY <2>1
  <2> QED BY <2>1, <2>2, <2>3
<1> HIDE DEF A, B
<1>5. Through(A, imports, root) = Through(B, imports, root)
  BY <1>1, <1>4, ThroughAgrees
<1> QED BY <1>2, <1>3, <1>5

(* The shared library makes functions of symbols it exports. *)
LEMMA MadeOK ==
  ASSUME TypesOK, CachesOK, NEW n \in Name, NEW f, Made(f),
         UNCHANGED kind,
         \/ f = None \/ f[1] = "global"
         \/ \E y \in Mod : Has(y, n) /\ f = <<y, n>>
  PROVE  /\ own' \in [Mod -> SUBSET Name]
         /\ kind' = "dso" => own'[Lib] \subseteq Exports[Lib]
         /\ \A y \in Mod, m \in Name : Has(y, m)' <=> Has(y, m)
<1>1. CASE f # None /\ f[1] = Lib /\ kind = "dso"
  <2>1. f = <<Lib, n>> /\ Has(Lib, n)
    BY <1>1, ModulesAssumption DEF Mod
  <2>2. n \in Exports[Lib] /\ own[Lib] \subseteq Exports[Lib] /\ Lib \in Mod
    BY <1>1, <2>1 DEF Has, CachesOK, Mod
  <2>3. own' = [own EXCEPT ![Lib] = @ \cup {n}]
    BY <1>1, <2>1 DEF Made
  <2> QED BY <1>1, <2>2, <2>3 DEF Has, TypesOK
<1>2. CASE ~ (f # None /\ f[1] = Lib /\ kind = "dso")
  <2>1. own' = own
    BY <1>2 DEF Made
  <2> QED BY <2>1 DEF Has, TypesOK, CachesOK
<1> QED BY <1>1, <1>2

-----------------------------------------------------------------------------
(* Steps that leave open what is open.                                     *)

(* The step changes neither what is open nor what has been found of it: a  *)
(* function may be made that is exported, and an empty entry of the cache  *)
(* may be filled with what the imports have or, if they have none, the     *)
(* globals.                                                                *)
Kept ==
  /\ root' = root /\ kind' = kind /\ imports' = imports
  /\ alive \subseteq alive' /\ (root # None => alive' = alive)
  /\ kind' = "dso" => own'[Lib] \subseteq Exports[Lib]
  /\ root # None => \A y \in Mod, n \in Name : Has(y, n)' <=> Has(y, n)
  /\ \A y \in Mod : y # root => env'[y] = env[y]
  /\ globals' \in [Name -> ({"global"} \X (1 .. MaxVersion)) \cup {None}]
  /\ \A n \in Name : globals[n] # None =>
       globals'[n] # None /\ globals[n][2] <= globals'[n][2]
  /\ root # None => \A n \in Name :
       \/ env'[root][n] = env[root][n]
       \/ /\ env[root][n] = None
          /\ env'[root][n] = IF FromImports(root, n) # None THEN FromImports(root, n)
                             ELSE globals[n]

(* So what the imports of the root answer stays.                           *)
LEMMA KeptImports ==
  ASSUME AllPacked, IInv, Kept, root # None, NEW n \in Name
  PROVE  FromImports(root, n)' = FromImports(root, n)
<1>1. /\ root' = root /\ imports' = imports
      /\ \A y \in Mod : Has(y, n)' <=> Has(y, n)
      /\ \A y \in Mod \ {root} : env'[y] = env[y]
  BY DEF Kept
<1> QED BY <1>1, ImportsStay

(* Such a step keeps the invariant.                                        *)
LEMMA KeptOK ==
  ASSUME AllPacked, IInv, Kept
  PROVE  TreeOK' /\ CachesOK'
<1>1. TreeOK'
  <2> SUFFICES ASSUME root # None PROVE TreeOK'
    BY DEF Kept, TreeOK
  <2>1. PICK b \in Blob : /\ root = RootOf(b) /\ Members(b) \subseteq alive
                          /\ \A m \in Members(b) : imports[m] = Loaded(b)[m]
    BY DEF IInv, TreeOK
  <2>2. root' = RootOf(b) /\ Members(b) \subseteq alive'
        /\ \A m \in Members(b) : imports'[m] = Loaded(b)[m]
    BY <2>1 DEF Kept
  <2> QED BY <2>2 DEF TreeOK
<1>2. ASSUME root # None, NEW n \in Name, env'[root][n] # None
      PROVE  IF FromImports(root, n) # None THEN env'[root][n] = FromImports(root, n)
             ELSE /\ env'[root][n][1] = "global" /\ globals'[n] # None
                  /\ env'[root][n][2] <= globals'[n][2]
  <2>1. globals[n] # None => /\ globals[n][1] = "global" /\ globals'[n] # None
                             /\ globals[n][2] <= globals'[n][2] /\ globals[n][2] \in Int
    BY DEF Kept, IInv, TypesOK
  <2>2. CASE env'[root][n] = env[root][n]
    <3>1. IF FromImports(root, n) # None THEN env[root][n] = FromImports(root, n)
          ELSE /\ env[root][n][1] = "global" /\ globals[n] # None
               /\ env[root][n][2] <= globals[n][2]
      BY <1>2, <2>2 DEF IInv, CachesOK, CachePrefersImports
    <3>2. CASE FromImports(root, n) # None
      BY <3>1, <3>2, <2>2
    <3>3. CASE FromImports(root, n) = None
      <4>1. root \in Mod
        BY <1>2, RootTree, BelowRoot DEF IInv
      <4>2. env[root][n] \in Function
        BY <4>1, <1>2, <2>2 DEF IInv, TypesOK
      <4>3. env[root][n][2] \in Int
        BY <4>2, <3>1, <3>3, ModulesAssumption DEF Function
      <4>4. globals'[n][2] \in Int
        BY <2>1, <3>1, <3>3 DEF Kept
      <4> QED BY <2>1, <2>2, <3>1, <3>3, <4>3, <4>4
    <3> QED BY <3>2, <3>3
  <2>3. CASE env'[root][n] # env[root][n]
    <3>1. env'[root][n] = IF FromImports(root, n) # None THEN FromImports(root, n)
                          ELSE globals[n]
      BY <1>2, <2>3 DEF Kept
    <3> QED BY <1>2, <2>1, <3>1
  <2> QED BY <2>2, <2>3
<1>3. CachePrefersImports'
  <2> SUFFICES ASSUME root' # None, NEW n \in Name, env'[root'][n] # None
               PROVE  IF FromImports(root, n)' # None THEN env'[root'][n] = FromImports(root, n)'
                      ELSE /\ env'[root'][n][1] = "global" /\ globals'[n] # None
                           /\ env'[root'][n][2] <= globals'[n][2]
    BY DEF CachePrefersImports
  <2>1. root' = root /\ root # None
    BY DEF Kept
  <2>2. FromImports(root, n)' = FromImports(root, n)
    BY <2>1, KeptImports
  <2> QED BY <1>2, <2>1, <2>2
<1>4. \A m \in Mod : m # root' => env'[m] = [n \in Name |-> None]
  BY DEF Kept, IInv, CachesOK
<1>5. kind' = "dso" => own'[Lib] \subseteq Exports[Lib]
  BY DEF Kept
<1> QED BY <1>1, <1>3, <1>4, <1>5 DEF CachesOK

(* What is found is found again. *)
LEMMA KeptLookups ==
  ASSUME AllPacked, IInv, IInv', Kept, root # None, NEW n \in Name,
         GetFunction(root, n) # None
  PROVE  GetFunction(root, n)' = GetFunction(root, n)
<1>1. root' = root /\ root \in Mod /\ root' # None
  BY RootTree, BelowRoot DEF Kept, IInv
<1>2. GetFunction(root, n) =
        IF Has(root, n) THEN <<root, n>>
        ELSE IF env[root][n] # None THEN env[root][n] ELSE FromImports(root, n)
  BY GetFunctionIs
<1>3. GetFunction(root, n)' =
        IF Has(root, n)' THEN <<root, n>>
        ELSE IF env'[root][n] # None THEN env'[root][n] ELSE FromImports(root, n)'
  <2>1. PICK T, rank : Tree(imports', root', T, rank)
    <3>1. PICK T, rank : Tree(imports, root, T, rank)
      BY RootTree DEF IInv
    <3> QED BY <3>1, <1>1 DEF Kept
  <2> DEFINE B == [x \in Mod |-> IF Has(x, n)' THEN <<x, n>> ELSE env'[x][n]]
  <2>2. GetFunction(root, n)' = Search(B, imports', root')
    BY DEF GetFunction, Answer
  <2>3. FromImports(root, n)' = Through(B, imports', root')
    BY DEF FromImports, Through, GetFunction, Answer
  <2>4. B[root] = IF Has(root, n)' THEN <<root, n>> ELSE env'[root][n]
    BY <1>1
  <2>5. <<root, n>> # None
    BY <1>1, ModulesAssumption DEF Function
  <2> HIDE DEF B
  <2>6. Search(B, imports', root') =
          IF B[root'] # None THEN B[root'] ELSE Through(B, imports', root')
    BY <2>1, SearchAtRoot
  <2> QED BY <2>2, <2>3, <2>4, <2>5, <2>6, <1>1
<1>4. FromImports(root, n)' = FromImports(root, n)
  BY KeptImports
<1>5. Has(root, n)' <=> Has(root, n)
  BY <1>1 DEF Kept
<1>6. \/ env'[root][n] = env[root][n]
      \/ /\ env[root][n] = None
         /\ env'[root][n] = IF FromImports(root, n) # None THEN FromImports(root, n)
                            ELSE globals[n]
  BY DEF Kept
<1> QED BY <1>2, <1>3, <1>4, <1>5, <1>6

(* Nothing of the library changes. *)
LEMMA UnchangedKept ==
  ASSUME IInv, UNCHANGED <<modVars, root, kind, globals>>
  PROVE  Kept
<1>1. \A y \in Mod, n \in Name : Has(y, n)' <=> Has(y, n)
  BY DEF Has, modVars
<1>2. \A n \in Name : globals[n] # None => globals[n][2] <= globals[n][2]
  BY DEF IInv, TypesOK
<1> QED BY <1>1, <1>2 DEF Kept, modVars, IInv, TypesOK, CachesOK

LEMMA RegisterSymbolOK ==
  ASSUME IInv, NEW n \in Name, RegisterSymbol(n)
  PROVE  TypesOK' /\ Kept
<1>1. Kept
  BY UnchangedKept DEF RegisterSymbol
<1>2. CASE symbols = None /\ kind = "sys"
  <2>1. UNCHANGED <<modVars, root, kind, globals, state, sysVars>>
    BY <1>2 DEF RegisterSymbol
  <2>2. TypesOK'
    BY <2>1 DEF IInv, TypesOK, UnionIsSafe, modVars, sysVars
  <2> QED BY <1>1, <2>2
<1>3. CASE ~ (symbols = None /\ kind = "sys")
  <2>1. /\ state = "up" /\ sys_status < MaxSymbols /\ sys_status' = sys_status + 1
        /\ symbols' = IF symbols = None THEN {n} ELSE symbols \cup {n}
        /\ UNCHANGED <<modVars, root, kind, globals, state>>
    BY <1>3 DEF RegisterSymbol
  <2>2. kind # "sys" /\ sys_status \in 0 .. MaxSymbols
    BY <1>3, <2>1 DEF IInv, TypesOK, UnionIsSafe
  <2>3. sys_status' \in 0 .. MaxSymbols /\ sys_status' # Release
    BY <2>1, <2>2, ModulesAssumption DEF Release
  <2>4. symbols' \subseteq Name /\ IsFiniteSet(symbols') /\ Cardinality(symbols') <= sys_status'
    <3>1. CASE symbols = None
      <4>1. symbols' = {n} /\ IsFiniteSet({n}) /\ Cardinality({n}) = 1
        BY <3>1, <2>1, FS_Singleton
      <4>2. sys_status' >= 1
        BY <2>1, <2>2
      <4> QED BY <4>1, <4>2
    <3>2. CASE symbols # None
      <4>1. symbols \subseteq Name /\ IsFiniteSet(symbols) /\ Cardinality(symbols) <= sys_status
        BY <3>2, <2>1 DEF IInv, TypesOK, UnionIsSafe
      <4>2. IsFiniteSet(symbols \cup {n})
            /\ Cardinality(symbols \cup {n}) \in {Cardinality(symbols), Cardinality(symbols) + 1}
        BY <4>1, FS_AddElement
      <4>3. Cardinality(symbols) \in Nat
        BY <4>1, FS_CardinalityType
      <4> QED BY <3>2, <2>1, <2>2, <4>1, <4>2, <4>3
    <3> QED BY <3>1, <3>2
  <2>5. UnionIsSafe'
    BY <2>1, <2>2, <2>3, <2>4 DEF UnionIsSafe
  <2>6. UNCHANGED <<alive, imports, env, own, root, kind, globals, state>>
    BY <2>1 DEF modVars
  <2>7. TypesOK'
    BY <2>3, <2>4, <2>5, <2>6 DEF IInv, TypesOK
  <2> QED BY <1>1, <2>7
<1> QED BY <1>1, <1>2, <1>3

LEMMA OpenSystemAgainOK ==
  ASSUME IInv, OpenSystemAgain
  PROVE  TypesOK' /\ Kept
<1>1. Kept
  BY UnchangedKept DEF OpenSystemAgain
<1> QED BY <1>1 DEF OpenSystemAgain, IInv, TypesOK, UnionIsSafe, modVars, sysVars

LEMMA FuncRegisterGlobalOK ==
  ASSUME IInv, NEW n \in Name, NEW override \in BOOLEAN, FuncRegisterGlobal(n, override)
  PROVE  TypesOK' /\ Kept
<1> DEFINE v == IF globals[n] = None THEN 1 ELSE globals[n][2] + 1
           Globals == [Name -> ({"global"} \X (1 .. MaxVersion)) \cup {None}]
<1>1. UNCHANGED <<modVars, root, kind, sysVars, state>>
  BY DEF FuncRegisterGlobal
<1>2. globals \in Globals /\ MaxVersion \in Nat
  BY ModulesAssumption DEF IInv, TypesOK
<1>3. /\ globals' \in Globals
      /\ \A m \in Name : globals[m] # None =>
           globals'[m] # None /\ globals[m][2] <= globals'[m][2]
  <2>1. CASE override \/ globals[n] = None
    <3>1. v <= MaxVersion /\ globals' = [globals EXCEPT ![n] = <<"global", v>>]
      BY <2>1 DEF FuncRegisterGlobal
    <3>2. globals[n] # None => globals[n][2] \in 1 .. MaxVersion
      BY <1>2
    <3>3. v \in 1 .. MaxVersion /\ (globals[n] # None => globals[n][2] <= v)
      BY <3>1, <3>2, <1>2
    <3>4. <<"global", v>> # None /\ <<"global", v>>[2] = v
      BY <3>3, ModulesAssumption DEF Function
    <3> HIDE DEF v
    <3>5. ASSUME NEW m \in Name, globals[m] # None
          PROVE  globals'[m] # None /\ globals[m][2] <= globals'[m][2]
      <4>1. CASE m = n
        BY <4>1, <3>1, <3>3, <3>4, <3>5, <1>2
      <4>2. CASE m # n
        <5>1. globals'[m] = globals[m] /\ globals[m][2] \in Int
          BY <4>2, <3>1, <3>5, <1>2
        <5> QED BY <5>1, <3>5
      <4> QED BY <4>1, <4>2
    <3> QED BY <3>1, <3>3, <3>5, <1>2
  <2>2. CASE ~ (override \/ globals[n] = None)
    <3>1. globals' = globals
      BY <2>2 DEF FuncRegisterGlobal
    <3> QED BY <3>1, <1>2
  <2> QED BY <2>1, <2>2
<1>4. \A y \in Mod, m \in Name : Has(y, m)' <=> Has(y, m)
  BY <1>1 DEF Has, modVars
<1>5. Kept
  BY <1>1, <1>3, <1>4 DEF Kept, modVars, IInv, TypesOK, CachesOK
<1> QED BY <1>1, <1>3, <1>5 DEF IInv, TypesOK, UnionIsSafe, modVars, sysVars

LEMMA ModGetFunctionOK ==
  ASSUME AllPacked, IInv, NEW n \in Name, NEW query_imports \in BOOLEAN,
         ModGetFunction(n, query_imports)
  PROVE  TypesOK' /\ Kept
<1> DEFINE f == IF query_imports THEN GetFunction(root, n)
                ELSE IF Has(root, n) THEN <<root, n>> ELSE None
<1>1. /\ root # None /\ Made(f)
      /\ UNCHANGED <<alive, imports, env, root, kind, sysVars, globals, state>>
  BY DEF ModGetFunction
<1>2. root \in Mod
  BY <1>1, RootTree, BelowRoot DEF IInv
<1>3. f = None \/ f[1] = "global" \/ \E y \in Mod : Has(y, n) /\ f = <<y, n>>
  BY <1>1, <1>2, FoundIsOwned
<1> HIDE DEF f
<1>4. /\ own' \in [Mod -> SUBSET Name]
      /\ kind' = "dso" => own'[Lib] \subseteq Exports[Lib]
      /\ \A y \in Mod, m \in Name : Has(y, m)' <=> Has(y, m)
  BY <1>1, <1>3, MadeOK DEF IInv
<1>5. \A m \in Name : globals[m] # None => globals[m][2] <= globals[m][2]
  BY DEF IInv, TypesOK
<1>6. Kept
  BY <1>1, <1>4, <1>5 DEF Kept, IInv, TypesOK
<1> QED BY <1>1, <1>4, <1>6 DEF IInv, TypesOK, UnionIsSafe, sysVars

LEMMA GetFuncFromEnvOK ==
  ASSUME AllPacked, IInv, NEW n \in Name, GetFuncFromEnv(n)
  PROVE  TypesOK' /\ Kept
<1> DEFINE hit == env[root][n]
           f == IF FromImports(root, n) # None THEN FromImports(root, n) ELSE globals[n]
           missing == \E i \in DOMAIN imports[root] :
                      /\ imports[root][i] = None
                      /\ \A j \in 1 .. i - 1 :
                           /\ imports[root][j] # None
                           /\ GetFunction(imports[root][j], n) = None
<1>1. root # None /\ UNCHANGED <<alive, imports, root, kind, sysVars, globals>>
  BY DEF GetFuncFromEnv
<1>2. root \in Mod /\ ~ missing
  <2>1. PICK T, rank : Tree(imports, root, T, rank)
    BY <1>1, RootTree DEF IInv
  <2>2. root \in T /\ T \subseteq Mod /\ imports[root] \in Seq(T)
    BY <2>1 DEF Tree
  <2>3. \A i \in DOMAIN imports[root] : imports[root][i] \in Mod
    BY <2>2
  <2> QED BY <2>2, <2>3, ModulesAssumption
<1>3. CASE hit # None
  <2>1. UNCHANGED <<modVars, root, kind, globals, sysVars, state>>
    BY <1>1, <1>3 DEF GetFuncFromEnv, modVars
  <2>2. Kept
    BY <2>1, UnchangedKept
  <2> QED BY <2>1, <2>2 DEF IInv, TypesOK, UnionIsSafe, modVars, sysVars
<1>4. CASE hit = None
  <2>1. /\ env' = [env EXCEPT ![root][n] = f]
        /\ Made(IF f \in {globals[n], None} THEN None ELSE f)
        /\ state' = state
    BY <1>2, <1>4 DEF GetFuncFromEnv
  <2> DEFINE g == IF f \in {globals[n], None} THEN None ELSE f
  <2>2. f \in Function \cup {None}
    <3>1. CASE FromImports(root, n) # None
      BY <3>1, <1>1, FromImportsIs DEF Function
    <3>2. CASE FromImports(root, n) = None
      BY <3>2 DEF Function, IInv, TypesOK
    <3> QED BY <3>1, <3>2
  <2>3. g = None \/ \E y \in Mod : Has(y, n) /\ g = <<y, n>>
    BY <1>1, FromImportsIs
  <2> HIDE DEF f, g
  <2>4. /\ own' \in [Mod -> SUBSET Name]
        /\ kind' = "dso" => own'[Lib] \subseteq Exports[Lib]
        /\ \A y \in Mod, m \in Name : Has(y, m)' <=> Has(y, m)
    <3>1. Made(g)
      BY <2>1 DEF g
    <3> QED BY <1>1, <2>3, <3>1, MadeOK DEF IInv
  <2>5. env' \in [Mod -> [Name -> Function \cup {None}]]
        /\ (\A y \in Mod : y # root => env'[y] = env[y])
        /\ \A m \in Name : IF m = n THEN env'[root][m] = f ELSE env'[root][m] = env[root][m]
    BY <1>2, <2>1, <2>2 DEF IInv, TypesOK
  <2>6. \A m \in Name : globals[m] # None => globals[m][2] <= globals[m][2]
    BY DEF IInv, TypesOK
  <2>7. Kept
    <3>1. \A m \in Name :
            \/ env'[root][m] = env[root][m]
            \/ /\ env[root][m] = None
               /\ env'[root][m] = IF FromImports(root, m) # None THEN FromImports(root, m)
                                  ELSE globals[m]
      BY <2>5, <1>4 DEF f
    <3> QED BY <1>1, <2>4, <2>5, <2>6, <3>1 DEF Kept, IInv, TypesOK
  <2> QED BY <1>1, <2>1, <2>4, <2>5, <2>7 DEF IInv, TypesOK, UnionIsSafe, sysVars
<1> QED BY <1>3, <1>4

-----------------------------------------------------------------------------
(* Opening and releasing.                                                  *)

(* A library that opens is whole, and nothing that was there is lost.      *)
LEMMA OpensOK ==
  ASSUME AllPacked, IInv, kind = "none", NEW b \in Blob, NEW lib_funcs \in SUBSET Name,
         Opens(b, lib_funcs), kind' = "dso" => lib_funcs = {}
  PROVE  /\ alive' \subseteq Mod /\ root' # None
         /\ imports' \in [Mod -> Seq(Mod \cup {None})]
         /\ env' \in [Mod -> [Name -> Function \cup {None}]]
         /\ own' \in [Mod -> SUBSET Name]
         /\ TreeOK' /\ CachesOK'
         /\ \A m \in Mod : Lost(m)' => Lost(m)
<1> DEFINE T == Members(b)
           empty == [n \in Name |-> None]
<1>1. PICK rank : Tree(Loaded(b), RootOf(b), T, rank)
  BY LoadedTree DEF AllPacked
<1>2. /\ alive' = alive \cup T
      /\ imports' = [m \in Mod |-> IF m \in T THEN Loaded(b)[m] ELSE imports[m]]
      /\ env' = [m \in Mod |-> IF m \in T THEN empty ELSE env[m]]
      /\ own' = [m \in Mod |-> IF m = Lib THEN lib_funcs
                               ELSE IF m \in T THEN Exports[m] ELSE own[m]]
      /\ root' = RootOf(b)
  BY DEF Opens, Members
<1>3. /\ RootOf(b) \in T /\ T \subseteq Mod
      /\ \A m \in T : Loaded(b)[m] \in Seq(T)
  BY <1>1 DEF Tree
<1>4. root = None /\ None \notin Mod
  BY ModulesAssumption DEF IInv, TypesOK
<1> HIDE DEF T
<1>5. alive' \subseteq Mod /\ root' # None /\ root' \in Mod
  BY <1>2, <1>3, <1>4 DEF IInv, TypesOK
<1>6. imports' \in [Mod -> Seq(Mod \cup {None})]
  <2>1. \A m \in T : Loaded(b)[m] \in Seq(Mod \cup {None})
    BY <1>3
  <2>2. \A m \in Mod : imports[m] \in Seq(Mod \cup {None})
    BY DEF IInv, TypesOK
  <2> QED BY <1>2, <2>1, <2>2
<1>7. env' \in [Mod -> [Name -> Function \cup {None}]]
  BY <1>2 DEF IInv, TypesOK
<1>8. own' \in [Mod -> SUBSET Name]
  BY <1>2, ModulesAssumption DEF IInv, TypesOK
<1>9. TreeOK'
  <2>1. \A m \in T : imports'[m] = Loaded(b)[m]
    BY <1>2, <1>3
  <2>2. Members(b) \subseteq alive'
    BY <1>2 DEF T
  <2> QED BY <1>2, <2>1, <2>2 DEF TreeOK, T
<1>10. CachesOK'
  <2>1. \A m \in Mod : env'[m] = empty
    BY <1>2, <1>4 DEF IInv, CachesOK
  <2>2. CachePrefersImports'
    BY <2>1, <1>5 DEF CachePrefersImports
  <2>3. kind' = "dso" => own'[Lib] \subseteq Exports[Lib]
    BY <1>2 DEF Mod
  <2> QED BY <2>1, <2>2, <2>3 DEF CachesOK
<1>11. ASSUME NEW m \in Mod, Lost(m)' PROVE Lost(m)
  <2>1. Tree(imports', root', T, rank)
    <3> DEFINE F == Loaded(b)
    <3>1. Tree(F, root', T, rank) /\ \A x \in T : imports'[x] = F[x]
      BY <1>1, <1>2, <1>3
    <3> HIDE DEF F
    <3>2. root' \in T /\ T \subseteq Mod /\ rank \in [T -> 0 .. Cardinality(Mod)]
      BY <3>1 DEF Tree
    <3>3. \A x \in T : imports'[x] \in Seq(T) /\ rank[x] <= rank[root']
      BY <3>1 DEF Tree
    <3>4. \A x \in T : \A i \in DOMAIN imports'[x] : rank[imports'[x][i]] < rank[x]
      BY <3>1 DEF Tree
    <3>5. \A y \in T \ {root'} : \E x \in T : \E i \in DOMAIN imports'[x] : imports'[x][i] = y
      BY <3>1, SMTT(60) DEF Tree
    <3>6. \A x, y \in T : \A i \in DOMAIN imports'[x], j \in DOMAIN imports'[y] :
            imports'[x][i] = imports'[y][j] => x = y /\ i = j
      <4>1. \A x, y \in T : \A i \in DOMAIN F[x], j \in DOMAIN F[y] :
              F[x][i] = F[y][j] => x = y /\ i = j
        BY <3>1, SMTT(60) DEF Tree
      <4> QED BY <4>1, <3>1
    <3> QED BY <3>2, <3>3, <3>4, <3>5, <3>6 DEF Tree
  <2>2. ReachIn(imports', root') = T
    BY <2>1, ReachIs
  <2>3. Reach(root)' = ReachIn(imports', root')
    BY DEF Reach, ReachIn
  <2>4. m \in alive' /\ m \notin T
    BY <1>11, <2>2, <2>3, <1>5 DEF Lost
  <2> QED BY <2>4, <1>2, <1>4 DEF Lost
<1> QED BY <1>5, <1>6, <1>7, <1>8, <1>9, <1>10, <1>11

(* A load that fails leaves modules, which nothing leads to. *)
LEMMA OpenFailsOK ==
  ASSUME IInv, kind = "none", NEW b \in Blob, NEW k \in 1 .. Len(b.entries),
         OpenFails(b, k), UNCHANGED <<root, kind, sysVars, globals, state>>
  PROVE  TypesOK' /\ Kept
<1> DEFINE D == DevsUpTo(b, k - 1)
<1>1. /\ alive' = alive \cup D
      /\ own' = [m \in Mod |-> IF m \in D THEN Exports[m] ELSE own[m]]
      /\ UNCHANGED <<imports, env>>
  BY DEF OpenFails
<1>2. D \subseteq Mod
  BY DEF DevsUpTo, Mod
<1>3. root = None
  BY DEF IInv, TypesOK
<1> HIDE DEF D
<1>4. alive' \subseteq Mod /\ own' \in [Mod -> SUBSET Name]
  BY <1>1, <1>2, ModulesAssumption DEF IInv, TypesOK
<1>5. \A n \in Name : globals[n] # None => globals[n][2] <= globals[n][2]
  BY DEF IInv, TypesOK
<1>6. Kept
  BY <1>1, <1>3, <1>5 DEF Kept, IInv, TypesOK
<1> QED BY <1>1, <1>4, <1>6 DEF IInv, TypesOK, UnionIsSafe, sysVars

(* A release comes to each module of the open library once, and to no      *)
(* other.                                                                  *)
LEMMA ReleasesOK ==
  ASSUME AllPacked, IInv, root # None, NEW after, Releases(root, after), root' = None,
         kind' = "none"
  PROVE  /\ alive' \subseteq Mod /\ state' = after
         /\ imports' \in [Mod -> Seq(Mod \cup {None})]
         /\ env' \in [Mod -> [Name -> Function \cup {None}]]
         /\ own' \in [Mod -> SUBSET Name]
         /\ TreeOK' /\ CachesOK'
         /\ \A m \in Mod : Lost(m)' => Lost(m)
<1> DEFINE empty == [n \in Name |-> None]
<1>1. PICK T, rank : Tree(imports, root, T, rank)
  BY RootTree DEF IInv
<1>2. Reach(root) = T /\ ReachedTwice(root) = {}
  BY <1>1, NoneTwice
<1>3. root \in T /\ T \subseteq Mod
  BY <1>1 DEF Tree
<1>4. /\ alive' = alive \ T
      /\ imports' = [x \in Mod |-> IF x \in T THEN <<>> ELSE imports[x]]
      /\ env' = [x \in Mod |-> IF x \in T THEN empty ELSE env[x]]
      /\ own' = [x \in Mod |-> IF x \in T THEN {} ELSE own[x]]
      /\ state' = after
  BY <1>2 DEF Releases
<1>5. imports' \in [Mod -> Seq(Mod \cup {None})]
  <2>1. <<>> \in Seq(Mod \cup {None})
    OBVIOUS
  <2>2. \A m \in Mod : imports[m] \in Seq(Mod \cup {None})
    BY DEF IInv, TypesOK
  <2> QED BY <1>4, <2>1, <2>2
<1>6. /\ alive' \subseteq Mod
      /\ env' \in [Mod -> [Name -> Function \cup {None}]]
      /\ own' \in [Mod -> SUBSET Name]
  BY <1>4 DEF IInv, TypesOK
<1>7. TreeOK'
  BY DEF TreeOK
<1>8. CachesOK'
  <2>1. \A m \in Mod : env'[m] = empty
    BY <1>3, <1>4 DEF IInv, CachesOK
  <2> QED BY <2>1 DEF CachesOK, CachePrefersImports
<1>9. ASSUME NEW m \in Mod, Lost(m)' PROVE Lost(m)
  BY <1>2, <1>4, <1>9 DEF Lost
<1> QED BY <1>4, <1>5, <1>6, <1>7, <1>8, <1>9

(* Each step leaves open what is open or, when nothing was open or nothing *)
(* is any more, loses nothing but what a load that failed had read.        *)
Steps ==
  /\ IInv'
  /\ root # None /\ root' = root => Kept
  /\ \A m \in Mod : Lost(m)' => Lost(m) \/ (kind = "none" /\ kind' = "none" /\ status' = -1)

(* Such a step is one of Steps, if it reads no module or is a load that    *)
(* fails.                                                                  *)
LEMMA KeptSteps ==
  ASSUME AllPacked, IInv, TypesOK', Kept,
         alive' = alive \/ (kind = "none" /\ status' = -1)
  PROVE  Steps
<1>1. IInv'
  BY KeptOK DEF IInv
<1>2. ASSUME NEW m \in Mod, Lost(m)', alive' = alive PROVE Lost(m)
  <2>1. Reach(root)' = Reach(root)
    BY DEF Reach, Kept
  <2> QED BY <1>2, <2>1 DEF Lost, Kept
<1> QED BY <1>1, <1>2 DEF Steps, Kept

LEMMA OpenSharedOK ==
  ASSUME AllPacked, IInv, NEW b \in Blob, OpenShared(b)
  PROVE  Steps
<1>1. kind = "none" /\ root = None /\ state = "up" /\ UNCHANGED <<sysVars, globals, state>>
  BY DEF OpenShared, IInv, TypesOK
<1>2. CASE Opens(b, {}) /\ kind' = "dso"
  <2>1. /\ alive' \subseteq Mod /\ root' # None
        /\ imports' \in [Mod -> Seq(Mod \cup {None})]
        /\ env' \in [Mod -> [Name -> Function \cup {None}]]
        /\ own' \in [Mod -> SUBSET Name]
        /\ TreeOK' /\ CachesOK'
        /\ \A m \in Mod : Lost(m)' => Lost(m)
    BY <1>1, <1>2, OpensOK
  <2>2. sys_status' # Release
    BY <1>1 DEF IInv, TypesOK, UnionIsSafe, sysVars
  <2>3. TypesOK'
    BY <1>1, <1>2, <2>1, <2>2 DEF IInv, TypesOK, UnionIsSafe, sysVars
  <2> QED BY <1>1, <2>1, <2>3 DEF Steps, IInv
<1>3. CASE (\E k \in 1 .. Len(b.entries) : OpenFails(b, k)) /\ UNCHANGED <<root, kind>>
  <2>1. PICK k \in 1 .. Len(b.entries) : OpenFails(b, k)
    BY <1>3
  <2>2. TypesOK' /\ Kept
    BY <1>1, <1>3, <2>1, OpenFailsOK
  <2>3. status' = -1
    BY <2>1 DEF OpenFails
  <2> QED BY <1>1, <2>2, <2>3, KeptSteps
<1> QED BY <1>2, <1>3 DEF OpenShared

LEMMA OpenSystemOK ==
  ASSUME AllPacked, IInv, NEW b \in Blob, OpenSystem(b)
  PROVE  Steps
<1>1. /\ kind = "none" /\ root = None /\ state = "up" /\ symbols # None
      /\ UNCHANGED globals
  BY DEF OpenSystem, IInv, TypesOK
<1>2. CASE /\ Opens(b, symbols) /\ kind' = "sys" /\ symbols' = None
           /\ sys_status' = Release /\ UNCHANGED state
  <2>1. symbols \in SUBSET Name
    BY <1>1 DEF IInv, TypesOK
  <2>2. /\ alive' \subseteq Mod /\ root' # None
        /\ imports' \in [Mod -> Seq(Mod \cup {None})]
        /\ env' \in [Mod -> [Name -> Function \cup {None}]]
        /\ own' \in [Mod -> SUBSET Name]
        /\ TreeOK' /\ CachesOK'
        /\ \A m \in Mod : Lost(m)' => Lost(m)
    BY <1>1, <1>2, <2>1, OpensOK
  <2>3. TypesOK'
    BY <1>1, <1>2, <2>2 DEF IInv, TypesOK, UnionIsSafe
  <2> QED BY <1>1, <2>2, <2>3 DEF Steps, IInv
<1>3. CASE (\E k \in 1 .. Len(b.entries) : OpenFails(b, k))
           /\ UNCHANGED <<root, kind, sysVars, state>>
  <2>1. PICK k \in 1 .. Len(b.entries) : OpenFails(b, k)
    BY <1>3
  <2>2. TypesOK' /\ Kept
    BY <1>1, <1>3, <2>1, OpenFailsOK
  <2>3. status' = -1
    BY <2>1 DEF OpenFails
  <2> QED BY <1>1, <2>2, <2>3, KeptSteps
<1>4. CASE ~ b.ctx /\ state' = (IF RootOf(b) = Lib THEN "up" ELSE "undefined")
           /\ UNCHANGED <<modVars, root, kind, sysVars>>
  <2>1. RootOf(b) = Lib
    BY <1>4 DEF AllPacked, Packed
  <2>2. UNCHANGED <<modVars, root, kind, globals, sysVars, state>>
    BY <1>1, <1>4, <2>1
  <2>3. TypesOK' /\ Kept
    BY <2>2, UnchangedKept DEF IInv, TypesOK, UnionIsSafe, modVars, sysVars
  <2> QED BY <2>2, <2>3, KeptSteps DEF modVars
<1> QED BY <1>2, <1>3, <1>4 DEF OpenSystem

LEMMA ModFreeOK ==
  ASSUME AllPacked, IInv, ModFree
  PROVE  Steps
<1>1. state = "up" /\ root # None /\ UNCHANGED <<sysVars, globals>>
  BY DEF ModFree
<1>2. CASE kind = "sys"
  <2>1. UNCHANGED <<modVars, root, kind, globals, sysVars, state>>
    BY <1>2 DEF ModFree
  <2>2. TypesOK' /\ Kept
    BY <2>1, UnchangedKept DEF IInv, TypesOK, UnionIsSafe, modVars, sysVars
  <2> QED BY <2>1, <2>2, KeptSteps DEF modVars
<1>3. CASE kind # "sys"
  <2>1. Releases(root, "up") /\ root' = None /\ kind' = "none"
    BY <1>3 DEF ModFree
  <2>2. /\ alive' \subseteq Mod /\ state' = "up"
        /\ imports' \in [Mod -> Seq(Mod \cup {None})]
        /\ env' \in [Mod -> [Name -> Function \cup {None}]]
        /\ own' \in [Mod -> SUBSET Name]
        /\ TreeOK' /\ CachesOK'
        /\ \A m \in Mod : Lost(m)' => Lost(m)
    BY <1>1, <2>1, ReleasesOK
  <2>3. TypesOK'
    BY <1>1, <1>3, <2>1, <2>2 DEF IInv, TypesOK, UnionIsSafe, sysVars
  <2> QED BY <1>1, <2>1, <2>2, <2>3 DEF Steps, IInv
<1> QED BY <1>2, <1>3

LEMMA ExitOK ==
  ASSUME AllPacked, IInv, Exit
  PROVE  Steps
<1>1. state = "up" /\ symbols' = None /\ UNCHANGED <<sys_status, globals, status>>
  BY DEF Exit
<1>2. CASE kind = "sys"
  <2>1. Releases(root, "exited") /\ root' = None /\ kind' = "none" /\ root # None
    BY <1>2 DEF Exit, IInv, TypesOK
  <2>2. /\ alive' \subseteq Mod /\ state' = "exited"
        /\ imports' \in [Mod -> Seq(Mod \cup {None})]
        /\ env' \in [Mod -> [Name -> Function \cup {None}]]
        /\ own' \in [Mod -> SUBSET Name]
        /\ TreeOK' /\ CachesOK'
        /\ \A m \in Mod : Lost(m)' => Lost(m)
    BY <2>1, ReleasesOK
  <2>3. TypesOK'
    BY <1>1, <2>1, <2>2 DEF IInv, TypesOK, UnionIsSafe
  <2> QED BY <2>1, <2>2, <2>3 DEF Steps, IInv
<1>3. CASE kind # "sys"
  <2>1. state' = "exited" /\ UNCHANGED <<modVars, root, kind>>
    BY <1>3 DEF Exit
  <2>2. Kept
    BY <1>1, <2>1, UnchangedKept
  <2>3. TypesOK'
    BY <1>1, <2>1 DEF IInv, TypesOK, UnionIsSafe, modVars
  <2> QED BY <2>1, <2>2, <2>3, KeptSteps DEF modVars
<1> QED BY <1>2, <1>3

(* Every step does so.                                                     *)
LEMMA NextSteps ==
  ASSUME AllPacked, IInv, [Next]_vars
  PROVE  Steps
<1>1. CASE UNCHANGED vars
  <2>1. UNCHANGED <<modVars, root, kind, globals, sysVars, state>>
    BY <1>1 DEF vars
  <2>2. TypesOK' /\ Kept
    BY <2>1, UnchangedKept DEF IInv, TypesOK, UnionIsSafe, modVars, sysVars
  <2> QED BY <2>1, <2>2, KeptSteps DEF modVars
<1>2. ASSUME NEW b \in Blob, OpenShared(b) PROVE Steps
  BY <1>2, OpenSharedOK
<1>3. ASSUME NEW b \in Blob, OpenSystem(b) PROVE Steps
  BY <1>3, OpenSystemOK
<1>4. ASSUME NEW n \in Name, RegisterSymbol(n) PROVE Steps
  BY <1>4, RegisterSymbolOK, KeptSteps DEF RegisterSymbol, modVars
<1>5. ASSUME NEW n \in Name, NEW query_imports \in BOOLEAN, ModGetFunction(n, query_imports)
      PROVE  Steps
  BY <1>5, ModGetFunctionOK, KeptSteps DEF ModGetFunction
<1>6. ASSUME NEW n \in Name, GetFuncFromEnv(n) PROVE Steps
  BY <1>6, GetFuncFromEnvOK, KeptSteps DEF GetFuncFromEnv
<1>7. ASSUME NEW n \in Name, NEW override \in BOOLEAN, FuncRegisterGlobal(n, override)
      PROVE  Steps
  BY <1>7, FuncRegisterGlobalOK, KeptSteps DEF FuncRegisterGlobal, modVars
<1>8. CASE OpenSystemAgain
  BY <1>8, OpenSystemAgainOK, KeptSteps DEF OpenSystemAgain, modVars
<1>9. CASE ModFree
  BY <1>9, ModFreeOK
<1>10. CASE Exit
  BY <1>10, ExitOK
<1> QED BY <1>1, <1>2, <1>3, <1>4, <1>5, <1>6, <1>7, <1>8, <1>9, <1>10 DEF Next

(* It holds at the start.                                                  *)
LEMMA InitOK == Init => IInv
<1> SUFFICES ASSUME Init PROVE IInv
  OBVIOUS
<1>1. TypesOK
  <2>1. <<>> \in Seq(Mod \cup {None})
    OBVIOUS
  <2> QED BY <2>1, ModulesAssumption DEF Init, TypesOK, UnionIsSafe, Release
<1>2. TreeOK
  BY DEF Init, TreeOK
<1>3. CachesOK
  BY DEF Init, CachesOK, CachePrefersImports
<1> QED BY <1>1, <1>2, <1>3 DEF IInv

(* The invariant.                                                          *)
LEMMA Invariant == ASSUME AllPacked PROVE Spec => []IInv
<1>1. ASSUME IInv, [Next]_vars PROVE IInv'
  BY <1>1, NextSteps DEF Steps
<1> QED BY <1>1, InitOK, PTL DEF Spec

-----------------------------------------------------------------------------
(* The theorems, about all blobs that are packed as the compiler does.     *)

(* The state keeps its types and the union of system_library.c:26-27 is    *)
(* never read as what it does not hold.                                    *)
THEOREM ModulesTypes ==
  ASSUME \A b \in Blob : Packed(b)
  PROVE  Spec => []ModulesTypeOK
<1>1. ASSUME IInv PROVE ModulesTypeOK
  <2>1. root \in Mod \cup {None}
    BY <1>1, RootTree, BelowRoot DEF IInv, AllPacked
  <2> QED BY <1>1, <2>1 DEF IInv, TypesOK, ModulesTypeOK
<1> QED BY <1>1, Invariant, PTL DEF AllPacked

(* For every import tree, with an empty root or without, the release comes *)
(* to each module once, and until then an open library is whole            *)
(* (module_impl.h, module.c:120-215).                                      *)
THEOREM ReleasedOnce ==
  ASSUME \A b \in Blob : Packed(b)
  PROVE  Spec => []LibrariesAreReleasedOnce
<1>1. ASSUME IInv PROVE LibrariesAreReleasedOnce
  <2>1. ASSUME root # None PROVE Reach(root) \subseteq alive
    <3>1. PICK T, rank : Tree(imports, root, T, rank) /\ T \subseteq alive
      BY <1>1, <2>1, RootTree DEF IInv, AllPacked
    <3> QED BY <3>1, NoneTwice
  <2> QED BY <1>1, <2>1 DEF LibrariesAreReleasedOnce, IInv, TypesOK
<1> QED BY <1>1, Invariant, PTL DEF AllPacked

(* What the code of a library has got for a name is what its imports have  *)
(* of it, and a global function only if they have none                     *)
(* (c_backend_api.c:15-34).                                                *)
THEOREM CachesPreferImports ==
  ASSUME \A b \in Blob : Packed(b)
  PROVE  Spec => []CachePrefersImports
<1>1. IInv => CachePrefersImports
  BY DEF IInv, CachesOK
<1> QED BY <1>1, Invariant, PTL DEF AllPacked

(* No step loses a module but a load that fails, and that only those it    *)
(* had read (module.c:161-166).                                            *)
THEOREM OnlyFailedLoadsLose ==
  ASSUME \A b \in Blob : Packed(b)
  PROVE  Spec => LostOnlyByFailedLoad
<1>1. ASSUME IInv, [Next]_vars
      PROVE  [\A m \in Mod : Lost(m)' =>
                Lost(m) \/ (kind = "none" /\ kind' = "none" /\ status' = -1)]_vars
  BY <1>1, NextSteps DEF Steps, AllPacked
<1> QED BY <1>1, Invariant, PTL DEF Spec, LostOnlyByFailedLoad, AllPacked

(* On an open library a name means the same function from the first lookup *)
(* that finds it to the last, whatever is cached or made in between        *)
(* (module.c:38-69, shared_library.c:57-96).                               *)
THEOREM LookupsAreStable ==
  ASSUME \A b \in Blob : Packed(b)
  PROVE  Spec => LookupIsStable
<1>1. ASSUME IInv, [Next]_vars
      PROVE  [\A n \in Name : (root # None /\ root' = root /\ GetFunction(root, n) # None)
                => GetFunction(root, n)' = GetFunction(root, n)]_vars
  <2>1. Steps
    BY <1>1, NextSteps DEF AllPacked
  <2> SUFFICES ASSUME NEW n \in Name, root # None, root' = root, GetFunction(root, n) # None
               PROVE  GetFunction(root, n)' = GetFunction(root, n)
    OBVIOUS
  <2>2. IInv' /\ Kept
    BY <2>1 DEF Steps
  <2> QED BY <1>1, <2>2, KeptLookups DEF AllPacked
<1> QED BY <1>1, Invariant, PTL DEF Spec, LookupIsStable, AllPacked
=============================================================================
