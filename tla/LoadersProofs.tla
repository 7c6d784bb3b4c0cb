--------------------------- MODULE LoadersProofs ---------------------------
(***************************************************************************)
(* Proofs about loading an executable and creating its machine, for tables *)
(* of every size.                                                          *)
(*                                                                         *)
(* What is known of a section once it is read stays known until the        *)
(* machine exists.  Two facts are behind what the loaders lose: nothing is *)
(* lost before the constants of a Relax machine are made, and the function *)
(* at an index of a Relay executable is the last one of its name.          *)
(*                                                                         *)
(* The last part is about the tries in which loading and the modules keep  *)
(* their names, for names of any length: the nodes are a forest, each at   *)
(* one place, and a trie is the map that trie.h promises.                  *)
(***************************************************************************)
EXTENDS Loaders, Trie, TLAPS, SequenceTheorems, WellFoundedInduction

(* The module is the user's but while there is a machine. *)
OwnerOK ==
  owner = IF pc = "machine" THEN "machine"
          ELSE IF pc = "freed" THEN "released" ELSE "user"

-----------------------------------------------------------------------------
(* A Relax executable: what each section leaves.                           *)

Tensors == {"tensor", "copied tensor"}

RelaxFuncsOK ==
  pc \in {"constants", "code", "loaded", "setup", "machine"} =>
    \A i \in DOMAIN funcs :
      /\ funcs[i] = "vm" => <<"params", i>> \in held
      /\ funcs[i] = "cleared" =>
           \E j \in 1 .. i - 1 : funcs[j] \in Relax!Refused

RelaxConstsOK ==
  pc \in {"code", "loaded", "setup", "machine"} =>
    /\ <<"constants", 0>> \in held
    /\ \A i \in DOMAIN consts :
         consts[i] = "copied tensor" => <<"data", i>> \in held

RelaxCallsOK ==
  pc \in {"loaded", "setup", "machine"} =>
    \A i \in DOMAIN calls :
      calls[i].args <= limit /\ calls[i].const \in {0} \cup DOMAIN consts

RelaxNamesOK ==
  pc \in {"setup", "machine"} =>
    /\ \A i \in DOMAIN funcs : funcs[i] # "unknown"
    /\ left \in 0 .. Len(consts)

RelaxMemoryOK ==
  /\ held \subseteq heap
  /\ \A b \in held : b[1] # "managed"
  /\ pc \in {"idle", "globals", "constants", "code"} => heap = held
  /\ pc \notin {"failed", "undefined"} =>
       \A b \in heap \ held :
         b = <<"managed", 1>> /\ 1 \in DOMAIN consts /\ consts[1] \in Tensors

RelaxOK ==
  /\ consts \in Seq(Relax!ConstKind)
  /\ RelaxFuncsOK /\ RelaxConstsOK /\ RelaxCallsOK /\ RelaxNamesOK
  /\ RelaxMemoryOK

-----------------------------------------------------------------------------
(* A Relay executable.                                                     *)

RelayTypesOK ==
  /\ devs \in Seq({"cpu", "gpu"})
  /\ names \in Seq(Name)
  /\ consts \in Seq(DOMAIN devs \cup {0})
  /\ fnames \in Seq(Name)
  /\ pc \in {"idle", "devices", "globals", "constants"} => consts = <<>>
  /\ pc \in {"idle", "devices", "globals", "constants", "names", "functions"}
       => fnames = <<>>

(* A slot that is filled has the function that was read for its name. *)
RelaySlotsOK ==
  /\ pc \in {"code", "setup", "machine"} =>
       \A i \in DOMAIN slots : slots[i] # Undefined =>
         /\ slots[i] \in DOMAIN fnames
         /\ <<"function", slots[i]>> \in held
         /\ Relay!IsIndex(i, fnames[slots[i]])
  /\ pc = "machine" => \A i \in DOMAIN slots : slots[i] # Undefined

(* The constants before Current are set up, and all those of a machine. *)
Ready(i) == pc = "machine" \/ (pc = "setup" /\ i < Relay!Current)

RelayConstsOK ==
  /\ pc \in {"names", "functions", "code", "setup", "machine"} =>
       \A i \in DOMAIN consts : consts[i] # 0 =>
         IF devs[consts[i]] = "gpu" /\ Ready(i)
         THEN <<"device data", i>> \in held /\ <<"data", i>> \notin heap
         ELSE <<"data", i>> \in held
  /\ pc \in {"setup", "machine"} => \A i \in DOMAIN consts : consts[i] # 0
  /\ pc = "setup" => left \in 0 .. Len(consts)

RelayMemoryOK ==
  /\ held \subseteq heap
  /\ pc = "idle" => heap = {}
  /\ \A b \in heap : b[1] = "function" => b[2] \in Nat
  /\ pc # "undefined" => heap \ held \subseteq Relay!RelayLoses

RelayOK == RelayTypesOK /\ RelaySlotsOK /\ RelayConstsOK /\ RelayMemoryOK

IInv ==
  /\ OwnerOK
  /\ kind \in {"relax", "relay"}
  /\ kind = "relax" => RelaxOK
  /\ kind = "relay" => RelayOK

-----------------------------------------------------------------------------
(* The steps of a Relax executable.                                        *)

LEMMA RelaxOpenOK ==
  ASSUME RelaxOK, Relax!Open
  PROVE  RelaxOK'
  <1>1. RelaxMemoryOK'
    BY SMTT(60) DEF RelaxOK, RelaxMemoryOK, Relax!Open, Relax!Adds, Relax!One
  <1> QED
    BY <1>1 DEF RelaxOK, RelaxFuncsOK, RelaxConstsOK, RelaxCallsOK,
                RelaxNamesOK, Relax!Open

(* A section that cannot be read: nothing more is promised.                *)
LEMMA RelaxLostOK ==
  ASSUME RelaxOK, Relax!Lost
  PROVE  RelaxOK'
  BY DEF RelaxOK, RelaxFuncsOK, RelaxConstsOK, RelaxCallsOK, RelaxNamesOK,
         RelaxMemoryOK, Relax!Lost

LEMMA UptoOK ==
  ASSUME NEW S, NEW m \in {MaxFuncs, MaxConsts, MaxCalls},
         NEW f \in Relax!Upto(S, m)
  PROVE  \E n \in Nat : f \in [1 .. n -> S]
  <1>1. PICK n \in 0 .. m : f \in [1 .. n -> S]
    BY DEF Relax!Upto
  <1>2. m \in Nat
    BY LoadersAssumption
  <1> QED
    BY <1>1, <1>2

(* A slot that was cleared comes after a function that was refused: of the *)
(* refused functions before it the first one was kept.                     *)
LEMMA KeptOK ==
  ASSUME NEW n \in Nat, NEW fs \in [1 .. n -> Relax!FuncKind],
         NEW i \in 1 .. n, Relax!Kept(fs)[i] = "cleared"
  PROVE  \E j \in 1 .. i - 1 : Relax!Kept(fs)[j] \in Relax!Refused
  <1> DEFINE R == {j \in 1 .. i - 1 : fs[j] \in Relax!Refused}
  <1>0. DOMAIN fs = 1 .. n /\ fs[i] # "cleared" /\ n \in Nat
    BY DEF Relax!FuncKind, Relax!Named, Relax!Refused
  <1>1. R # {} /\ R \subseteq Nat
    <2>1. R = {} => Relax!Kept(fs)[i] = fs[i]
      BY <1>0 DEF Relax!Kept
    <2> QED
      BY <1>0, <2>1
  <1>2. PICK j \in R : \A k \in R : <<k, j>> \notin OpToRel(<, Nat)
    BY <1>1, WFMin, NatLessThanWellFounded, ZenonT(60)
  <1>3. \A k \in R : ~ (k < j)
    BY <1>1, <1>2, Zenon DEF OpToRel
  <1>4. \A k \in 1 .. j - 1 : fs[k] \notin Relax!Refused
    BY <1>3
  <1>5. Relax!Kept(fs)[j] = fs[j]
    BY <1>4 DEF Relax!Kept
  <1> QED
    BY <1>5

LEMMA RelaxGlobalsOK ==
  ASSUME RelaxOK, Relax!LoadGlobals
  PROVE  RelaxOK'
  <1>1. CASE Relax!Lost
    BY <1>1, RelaxLostOK
  <1>2. ASSUME NEW fs \in Relax!Upto(Relax!FuncKind, MaxFuncs),
               pc = "globals",
               funcs' = Relax!Kept(fs),
               Relax!Adds(Relax!One("map") \cup Relax!One("functions")
                 \cup Relax!Each("params",
                                 {i \in DOMAIN fs : funcs'[i] = "vm"})),
               pc' = "constants",
               UNCHANGED <<consts, calls, limit, left>>
        PROVE  RelaxOK'
    <2>1. PICK n \in Nat : fs \in [1 .. n -> Relax!FuncKind]
      BY <1>2, UptoOK
    <2>2. DOMAIN funcs' = 1 .. n /\ DOMAIN fs = 1 .. n
      BY <1>2, <2>1 DEF Relax!Kept
    <2>3. RelaxFuncsOK'
      <3> SUFFICES ASSUME NEW i \in 1 .. n
                   PROVE  /\ funcs'[i] = "vm" => <<"params", i>> \in held'
                          /\ funcs'[i] = "cleared" =>
                               \E j \in 1 .. i - 1 : funcs'[j] \in Relax!Refused
        BY <2>2 DEF RelaxFuncsOK, Relax!Refused
      <3>1. funcs'[i] = "vm" => <<"params", i>> \in held'
        BY <1>2, <2>2 DEF Relax!Adds, Relax!Each
      <3>2. funcs'[i] = "cleared" =>
              \E j \in 1 .. i - 1 : funcs'[j] \in Relax!Refused
        BY <1>2, <2>1, KeptOK
      <3> QED
        BY <3>1, <3>2
    <2>4. RelaxMemoryOK'
      BY <1>2 DEF RelaxOK, RelaxMemoryOK, Relax!Adds, Relax!One, Relax!Each
    <2> QED
      BY <1>2, <2>3, <2>4
         DEF RelaxOK, RelaxConstsOK, RelaxCallsOK, RelaxNamesOK
  <1> QED
    BY <1>1, <1>2 DEF Relax!LoadGlobals

LEMMA RelaxConstantsOK ==
  ASSUME RelaxOK, Relax!LoadConstants
  PROVE  RelaxOK'
  <1>1. CASE Relax!Lost
    BY <1>1, RelaxLostOK
  <1>2. CASE ~ Relax!Lost
    <2>1. /\ pc = "constants" /\ pc' = "code"
          /\ consts' \in Relax!Upto(Relax!ConstKind, MaxConsts)
          /\ Relax!Adds(Relax!One("constants")
               \cup Relax!Each("data", {i \in DOMAIN consts' :
                                         consts'[i] = "copied tensor"}))
          /\ UNCHANGED <<funcs, calls, limit, left>>
      BY <1>2 DEF Relax!LoadConstants
    <2>2. consts' \in Seq(Relax!ConstKind)
      <3>1. PICK n \in Nat : consts' \in [1 .. n -> Relax!ConstKind]
        BY <2>1, UptoOK
      <3> QED
        BY <3>1, SeqDef
    <2>3. RelaxConstsOK'
      BY <2>1 DEF RelaxConstsOK, Relax!Adds, Relax!One, Relax!Each
    <2>4. RelaxFuncsOK'
      BY <2>1 DEF RelaxOK, RelaxFuncsOK, Relax!Adds, Relax!Refused
    <2>5. RelaxMemoryOK'
      <3>1. heap = held /\ heap' = held'
        BY <2>1 DEF RelaxOK, RelaxMemoryOK, Relax!Adds
      <3>2. \A b \in held' : b[1] # "managed"
        <4>1. /\ \A b \in Relax!One("constants") : b[1] # "managed"
              /\ \A I : \A b \in Relax!Each("data", I) : b[1] # "managed"
          BY DEF Relax!One, Relax!Each
        <4> QED
          BY <2>1, <4>1 DEF RelaxOK, RelaxMemoryOK, Relax!Adds
      <3> QED
        BY <2>1, <3>1, <3>2 DEF RelaxMemoryOK
    <2> QED
      BY <2>1, <2>2, <2>3, <2>4, <2>5 DEF RelaxOK, RelaxCallsOK, RelaxNamesOK
  <1> QED
    BY <1>1, <1>2

(* The largest number of arguments is there, and no call has more. *)
LEMMA MaxCallArgsOK ==
  ASSUME NEW cs, \A i \in DOMAIN cs : cs[i].args \in 0 .. MaxArgs
  PROVE  \A i \in DOMAIN cs : cs[i].args <= Relax!MaxCallArgs(cs)
  <1> DEFINE U == {n \in 0 .. MaxArgs : \A i \in DOMAIN cs : cs[i].args <= n}
  <1>0. MaxArgs \in Nat
    BY LoadersAssumption
  <1>1. MaxArgs \in U /\ U \subseteq Nat
    BY <1>0
  <1>2. PICK n \in U : \A k \in U : <<k, n>> \notin OpToRel(<, Nat)
    BY <1>1, WFMin, NatLessThanWellFounded, Zenon
  <1>3. \A k \in U : ~ (k < n)
    BY <1>1, <1>2, Zenon DEF OpToRel
  <1>4. n = 0 \/ \E i \in DOMAIN cs : cs[i].args = n
    <2> SUFFICES ASSUME n # 0, \A i \in DOMAIN cs : cs[i].args # n
                 PROVE  FALSE
      OBVIOUS
    <2>1. n - 1 \in 0 .. MaxArgs
      BY <1>0
    <2>2. \A i \in DOMAIN cs : cs[i].args <= n - 1
      BY <1>0
    <2>3. n - 1 \in U /\ n - 1 < n
      BY <2>1, <2>2
    <2> QED
      BY <1>3, <2>3
  <1>5. \E m \in 0 .. MaxArgs :
          /\ \A i \in DOMAIN cs : cs[i].args <= m
          /\ m = 0 \/ \E i \in DOMAIN cs : cs[i].args = m
    BY <1>4
  <1> QED
    BY <1>5 DEF Relax!MaxCallArgs

LEMMA RelaxCodeOK ==
  ASSUME RelaxOK, Relax!LoadCode
  PROVE  RelaxOK'
  <1>1. CASE Relax!Lost
    BY <1>1, RelaxLostOK
  <1>2. CASE ~ Relax!Lost
    <2>1. /\ pc = "code" /\ pc' = "loaded"
          /\ calls' \in Relax!Upto(Relax!CallOf, MaxCalls)
          /\ limit' = Relax!MaxCallArgs(calls')
          /\ Relax!Adds(Relax!One("instructions")
                          \cup Relax!Each("args", DOMAIN calls'))
          /\ UNCHANGED <<funcs, consts, left>>
      BY <1>2 DEF Relax!LoadCode
    <2>2. PICK n \in Nat : calls' \in [1 .. n -> Relax!CallOf]
      BY <2>1, UptoOK
    <2>3. \A i \in DOMAIN calls' :
            /\ calls'[i].args \in 0 .. MaxArgs
            /\ calls'[i].const \in {0} \cup DOMAIN consts
      BY <2>2 DEF Relax!CallOf, Relax!NoConst
    <2>4. \A i \in DOMAIN calls' : calls'[i].args <= limit'
      BY <2>1, <2>3, MaxCallArgsOK
    <2>5. RelaxCallsOK'
      BY <2>1, <2>3, <2>4 DEF RelaxCallsOK
    <2>6. RelaxFuncsOK' /\ RelaxConstsOK'
      BY <2>1 DEF RelaxOK, RelaxFuncsOK, RelaxConstsOK, Relax!Adds,
                  Relax!Refused
    <2>7. RelaxMemoryOK'
      BY <2>1 DEF RelaxOK, RelaxMemoryOK, Relax!Adds, Relax!One, Relax!Each
    <2> QED
      BY <2>1, <2>5, <2>6, <2>7 DEF RelaxOK, RelaxNamesOK
  <1> QED
    BY <1>1, <1>2

LEMMA RelaxBeginOK ==
  ASSUME RelaxOK, Relax!CreateBegin
  PROVE  RelaxOK'
  <1>1. Len(consts) \in Nat
    BY DEF RelaxOK
  <1>2. /\ pc = "loaded"
        /\ UNCHANGED <<funcs, consts, calls, limit>>
        /\ \/ /\ ~ Relax!Fails
              /\ Relax!Adds(Relax!One("registers"))
              /\ left' = Len(consts) /\ pc' = "setup"
           \/ pc' = pc /\ UNCHANGED <<heap, held, left>>
           \/ pc' = "undefined" /\ UNCHANGED <<heap, held, left>>
    BY DEF Relax!CreateBegin
  <1>3. ~ Relax!Fails => \A i \in DOMAIN funcs : funcs[i] # "unknown"
    BY DEF Relax!Fails, Relax!Kinds
  <1>4. RelaxFuncsOK' /\ RelaxConstsOK' /\ RelaxCallsOK'
    BY <1>2 DEF RelaxOK, RelaxFuncsOK, RelaxConstsOK, RelaxCallsOK,
                Relax!Adds, Relax!Refused
  <1>5. RelaxNamesOK'
    BY <1>1, <1>2, <1>3 DEF RelaxNamesOK
  <1>6. RelaxMemoryOK'
    <2>1. CASE Relax!Adds(Relax!One("registers")) /\ pc' = "setup"
      BY <1>2, <2>1 DEF RelaxOK, RelaxMemoryOK, Relax!Adds, Relax!One
    <2>2. CASE UNCHANGED <<heap, held>> /\ pc' \in {pc, "undefined"}
      BY <1>2, <2>2 DEF RelaxOK, RelaxMemoryOK
    <2> QED
      BY <1>2, <2>1, <2>2
  <1> QED
    BY <1>2, <1>4, <1>5, <1>6 DEF RelaxOK

(* A tensor that cannot be copied to the device is lost exactly if it is   *)
(* the first constant.                                                     *)
LEMMA RelaxSetupOK ==
  ASSUME RelaxOK, Relax!SetupConstant
  PROVE  RelaxOK'
  <1> DEFINE c == Relax!Current
  <1>0. Len(consts) \in Nat /\ left \in 1 .. Len(consts) /\ pc = "setup"
    <2>1. pc = "setup" /\ left > 0
      BY DEF Relax!SetupConstant
    <2>2. Len(consts) \in Nat
      BY DEF RelaxOK
    <2>3. left \in 0 .. Len(consts)
      BY <2>1 DEF RelaxOK, RelaxNamesOK
    <2> QED
      BY <2>1, <2>2, <2>3
  <1>1. c \in DOMAIN consts
    BY <1>0 DEF RelaxOK, Relax!Current
  <1> HIDE DEF c
  <1>2. UNCHANGED <<funcs, consts, calls, limit>>
    BY DEF Relax!SetupConstant
  <1>3. CASE left' = left - 1 /\ UNCHANGED <<pc, heap, held>>
    <2>1. left' \in 0 .. Len(consts)
      BY <1>0, <1>3
    <2>2. RelaxFuncsOK' /\ RelaxConstsOK' /\ RelaxCallsOK' /\ RelaxNamesOK'
      BY <1>2, <1>3, <2>1
         DEF RelaxOK, RelaxFuncsOK, RelaxConstsOK, RelaxCallsOK, RelaxNamesOK,
             Relax!Refused
    <2>3. RelaxMemoryOK'
      BY <1>2, <1>3 DEF RelaxOK, RelaxMemoryOK, Tensors
    <2> QED
      BY <1>2, <2>2, <2>3 DEF RelaxOK
  <1>4. CASE pc' = "undefined" /\ UNCHANGED <<heap, held, left>>
    BY <1>0, <1>2, <1>4
       DEF RelaxOK, RelaxFuncsOK, RelaxConstsOK, RelaxCallsOK, RelaxNamesOK,
           RelaxMemoryOK
  <1>5. ASSUME consts[c] \in Tensors,
               heap' = (heap \cup Relax!Each("managed", {c}))
                          \ (Relax!Cleanup(c) \cup Relax!One("registers")),
               held' = held \ Relax!One("registers"),
               left' = 0, pc' = "loaded"
        PROVE  RelaxOK'
    <2>1. Relax!Cleanup(c) = IF c = 1 THEN {} ELSE {<<"managed", c>>}
      BY DEF Relax!Cleanup, Relax!Each
    <2>2. heap' = (heap \cup {<<"managed", c>>})
                     \ (Relax!Cleanup(c) \cup {<<"registers", 0>>})
      BY <1>5 DEF Relax!Each, Relax!One
    <2>3. held' = held \ {<<"registers", 0>>}
      BY <1>5 DEF Relax!One
    <2>4. held' \subseteq heap' /\ \A b \in held' : b[1] # "managed"
      BY <2>1, <2>2, <2>3 DEF RelaxOK, RelaxMemoryOK
    <2>5. \A b \in heap' \ held' : b = <<"managed", 1>>
                 /\ 1 \in DOMAIN consts /\ consts[1] \in Tensors
      <3> SUFFICES ASSUME NEW b \in heap' \ held'
                   PROVE  b = <<"managed", 1>>
                            /\ 1 \in DOMAIN consts /\ consts[1] \in Tensors
        OBVIOUS
      <3>1. CASE b \in heap
        BY <1>0, <3>1, <2>2, <2>3 DEF RelaxOK, RelaxMemoryOK
      <3>2. CASE b = <<"managed", c>>
        BY <1>1, <1>5, <3>2, <2>1, <2>2
      <3> QED
        BY <3>1, <3>2, <2>2
    <2>6. RelaxMemoryOK'
      BY <1>2, <1>5, <2>4, <2>5 DEF RelaxMemoryOK, Tensors
    <2>7. RelaxFuncsOK' /\ RelaxConstsOK' /\ RelaxCallsOK' /\ RelaxNamesOK'
      BY <1>0, <1>2, <1>5, <2>3
         DEF RelaxOK, RelaxFuncsOK, RelaxConstsOK, RelaxCallsOK, RelaxNamesOK,
             Relax!Refused
    <2> QED
      BY <1>2, <2>6, <2>7 DEF RelaxOK
  <1> QED
    BY <1>3, <1>4, <1>5 DEF Relax!SetupConstant, Tensors, c

LEMMA RelaxEndOK ==
  ASSUME RelaxOK, Relax!CreateEnd
  PROVE  RelaxOK'
  <1>1. /\ pc = "setup" /\ pc' = "machine" /\ Relax!Adds(Relax!Machine)
        /\ UNCHANGED <<left, funcs, consts, calls, limit>>
    BY DEF Relax!CreateEnd
  <1>2. RelaxFuncsOK' /\ RelaxConstsOK' /\ RelaxCallsOK' /\ RelaxNamesOK'
    BY <1>1 DEF RelaxOK, RelaxFuncsOK, RelaxConstsOK, RelaxCallsOK,
                RelaxNamesOK, Relax!Adds, Relax!Refused
  <1>3. \A b \in Relax!Machine : b[1] # "managed"
    <2>1. \A what : \A b \in Relax!One(what) : b[1] = what
      BY DEF Relax!One
    <2> QED
      BY <2>1 DEF Relax!Machine
  <1>4. RelaxMemoryOK'
    BY <1>1, <1>3 DEF RelaxOK, RelaxMemoryOK, Relax!Adds, Tensors
  <1> QED
    BY <1>1, <1>2, <1>4 DEF RelaxOK

LEMMA RelaxReleaseOK ==
  ASSUME RelaxOK, Relax!Release
  PROVE  RelaxOK'
  BY DEF RelaxOK, RelaxFuncsOK, RelaxConstsOK, RelaxCallsOK, RelaxNamesOK,
         RelaxMemoryOK, Relax!Release, Tensors

LEMMA RelaxNextOK ==
  ASSUME RelaxOK, Relax!Next
  PROVE  RelaxOK'
  BY RelaxOpenOK, RelaxGlobalsOK, RelaxConstantsOK, RelaxCodeOK, RelaxBeginOK,
     RelaxSetupOK, RelaxEndOK, RelaxReleaseOK, Zenon DEF Relax!Next

-----------------------------------------------------------------------------
(* The steps of a Relay executable.                                        *)

(* What is lost stays lost: the names of functions are only added to, and  *)
(* of a table that is not there yet no function is lost.                   *)
LEMMA LosesMore ==
  ASSUME RelayOK, pc # "failed", UNCHANGED <<names, fnames>>
  PROVE  Relay!RelayLoses \subseteq Relay!RelayLoses'
  BY DEF Relay!RelayLoses, Relay!Overwritten, Relay!Blocks

LEMMA RelayFailOK ==
  ASSUME RelayOK, Relay!Fail, pc # "failed", pc # "undefined"
  PROVE  RelayOK'
  <1>1. /\ heap' = heap \ held /\ held' = {} /\ pc' = "failed"
        /\ UNCHANGED <<left, devs, names, consts, fnames, slots>>
    BY DEF Relay!Fail, Relay!Freed
  <1>2. Relay!RelayLoses \subseteq Relay!RelayLoses'
    BY <1>1, LosesMore
  <1>3. RelayTypesOK'
    BY <1>1 DEF RelayOK, RelayTypesOK
  <1>4. RelayMemoryOK'
    BY <1>1, <1>2 DEF RelayOK, RelayMemoryOK
  <1> QED
    BY <1>1, <1>3, <1>4 DEF RelayOK, RelaySlotsOK, RelayConstsOK

(* A section that is read adds to the executable what it allocates, none   *)
(* of which is a function.                                                 *)
LEMMA AddsOK ==
  ASSUME RelayOK, NEW B, Relay!Adds(B), \A b \in B : b[1] # "function",
         pc \notin {"failed", "undefined"}, pc' # "undefined",
         pc' # "idle", fnames = <<>> \/ UNCHANGED names, UNCHANGED fnames
  PROVE  RelayMemoryOK'
  <1>1. heap' = heap \cup B /\ held' = held \cup B
    BY DEF Relay!Adds
  <1>2. Relay!RelayLoses \subseteq Relay!RelayLoses'
    <2>1. CASE UNCHANGED names
      BY <2>1, LosesMore
    <2>2. CASE fnames = <<>>
      BY <2>2 DEF Relay!RelayLoses, Relay!Blocks
    <2> QED
      BY <2>1, <2>2
  <1> QED
    BY <1>1, <1>2 DEF RelayOK, RelayMemoryOK

LEMMA RelayOpenOK ==
  ASSUME RelayOK, Relay!Open
  PROVE  RelayOK'
  <1>1. /\ pc = "idle" /\ pc' \in {"failed", "devices"}
        /\ UNCHANGED <<left, devs, names, consts, fnames, slots>>
    BY DEF Relay!Open
  <1>2. RelayMemoryOK'
    <2> DEFINE reader == IF source = "file" THEN {} ELSE {<<"reader", 0>>}
    <2>1. \/ heap' = heap \cup reader /\ held' = held
          \/ /\ heap' = heap \cup reader \cup {<<"exe", 0>>}
             /\ held' = {<<"exe", 0>>}
      BY DEF Relay!Open, Relay!Block
    <2>2. heap = {} /\ held = {}
      BY <1>1 DEF RelayOK, RelayMemoryOK
    <2>3. <<"reader", 0>> \in Relay!RelayLoses'
      BY DEF Relay!RelayLoses, Relay!Blocks
    <2> QED
      BY <1>1, <2>1, <2>2, <2>3 DEF RelayMemoryOK
  <1> QED
    BY <1>1, <1>2 DEF RelayOK, RelayTypesOK, RelaySlotsOK, RelayConstsOK
LEMMA SeqUpToOK ==
  ASSUME NEW S, NEW f \in Relay!SeqUpTo(S, MaxLen)
  PROVE  f \in Seq(S)
  <1>1. PICK n \in 0 .. MaxLen : f \in [1 .. n -> S]
    BY DEF Relay!SeqUpTo
  <1>2. n \in Nat
    BY LoadersAssumption
  <1> QED
    BY <1>1, <1>2, SeqDef

(* The sections before the constants.                                      *)
LEMMA RelayTablesOK ==
  ASSUME RelayOK, Relay!LoadVirtualDevices \/ Relay!LoadGlobals
  PROVE  RelayOK'
  <1>1. CASE Relay!Fail
    BY <1>1, RelayFailOK DEF Relay!LoadVirtualDevices, Relay!LoadGlobals
  <1>2. CASE Relay!LoadVirtualDevices /\ ~ Relay!Fail
    <2>1. /\ pc = "devices" /\ pc' = "globals"
          /\ devs' \in Relay!SeqUpTo({"cpu", "gpu"}, MaxLen)
          /\ Relay!Adds({<<"devices", 0>>})
          /\ UNCHANGED <<left, names, consts, fnames, slots>>
      BY <1>2 DEF Relay!LoadVirtualDevices, Relay!Block
    <2>2. RelayMemoryOK'
      BY <2>1, AddsOK
    <2>3. consts = <<>> /\ fnames = <<>>
      BY <2>1 DEF RelayOK, RelayTypesOK
    <2>4. RelayTypesOK'
      BY <2>1, <2>3, SeqUpToOK DEF RelayOK, RelayTypesOK
    <2> QED
      BY <2>1, <2>2, <2>4 DEF RelayOK, RelaySlotsOK, RelayConstsOK
  <1>3. CASE Relay!LoadGlobals /\ ~ Relay!Fail
    <2>1. /\ pc = "globals" /\ pc' = "constants"
          /\ names' \in Relay!SeqUpTo(Name, MaxLen)
          /\ Relay!Adds({<<"global_map", 0>>})
          /\ UNCHANGED <<left, devs, consts, fnames, slots>>
      BY <1>3 DEF Relay!LoadGlobals, Relay!Block
    <2>2. consts = <<>> /\ fnames = <<>>
      BY <2>1 DEF RelayOK, RelayTypesOK
    <2>3. RelayMemoryOK'
      BY <2>1, <2>2, AddsOK
    <2>4. RelayTypesOK'
      BY <2>1, <2>2, SeqUpToOK DEF RelayOK, RelayTypesOK
    <2> QED
      BY <2>1, <2>3, <2>4 DEF RelayOK, RelaySlotsOK, RelayConstsOK
  <1> QED
    BY <1>1, <1>2, <1>3

LEMMA RelayLoadConstantsOK ==
  ASSUME RelayOK, Relay!LoadConstants
  PROVE  RelayOK'
  <1>1. CASE Relay!Fail
    BY <1>1, RelayFailOK DEF Relay!LoadConstants
  <1>2. CASE ~ Relay!Fail
    <2> DEFINE late == {i \in DOMAIN consts' : consts'[i] = 0}
               read == DOMAIN consts' \ late
               B == {<<"constants", 0>>, <<"indices", 0>>}
                      \cup Relay!Blocks("shape", read)
                      \cup Relay!Blocks("data", read)
                      \cup Relay!Blocks("late", late)
    <2>1. /\ pc = "constants" /\ pc' = "names"
          /\ consts' \in Relay!SeqUpTo(DOMAIN devs \cup {0}, MaxLen)
          /\ Relay!Adds(B)
          /\ UNCHANGED <<left, devs, names, fnames, slots>>
      BY <1>2 DEF Relay!LoadConstants, Relay!Block, Relay!LateBound
    <2>2. \A b \in B : b[1] # "function"
      BY DEF Relay!Blocks
    <2>3. \A i \in read : <<"data", i>> \in B
      BY DEF Relay!Blocks
    <2> HIDE DEF B
    <2>4. RelayMemoryOK'
      BY <2>1, <2>2, AddsOK
    <2>5. RelayTypesOK'
      BY <2>1, SeqUpToOK DEF RelayOK, RelayTypesOK
    <2>6. RelayConstsOK'
      BY <2>1, <2>3 DEF RelayConstsOK, Ready, Relay!Adds
    <2> QED
      BY <2>1, <2>4, <2>5, <2>6 DEF RelayOK, RelaySlotsOK
  <1> QED
    BY <1>1, <1>2

LEMMA RelayLoadNamesOK ==
  ASSUME RelayOK, Relay!LoadPrimitiveNames
  PROVE  RelayOK'
  <1>1. CASE Relay!Fail
    BY <1>1, RelayFailOK DEF Relay!LoadPrimitiveNames
  <1>2. CASE ~ Relay!Fail
    <2>1. /\ pc = "names" /\ pc' = "functions" /\ Relay!Adds({<<"packed", 0>>})
          /\ UNCHANGED <<left, devs, names, consts, fnames, slots>>
      BY <1>2 DEF Relay!LoadPrimitiveNames, Relay!Block
    <2>2. RelayMemoryOK'
      BY <2>1, AddsOK
    <2>3. RelayConstsOK'
      BY <2>1 DEF RelayOK, RelayConstsOK, Ready, Relay!Adds
    <2> QED
      BY <2>1, <2>2, <2>3 DEF RelayOK, RelayTypesOK, RelaySlotsOK
  <1> QED
    BY <1>1, <1>2

LEMMA RelayLoadCodeOK ==
  ASSUME RelayOK, Relay!LoadCode
  PROVE  RelayOK'
  <1>1. CASE Relay!Fail
    BY <1>1, RelayFailOK DEF Relay!LoadCode
  <1>2. CASE ~ Relay!Fail
    <2>1. PICK n \in 0 .. MaxLen :
            /\ pc = "functions" /\ pc' = "code"
            /\ slots' = [i \in 1 .. n |-> Undefined]
            /\ Relay!Adds({<<"functions", 0>>})
            /\ UNCHANGED <<devs, names, consts, fnames>>
      BY <1>2 DEF Relay!LoadCode, Relay!Block
    <2>2. RelayMemoryOK'
      BY <2>1, AddsOK
    <2>3. RelayConstsOK'
      BY <2>1 DEF RelayOK, RelayConstsOK, Ready, Relay!Adds
    <2>4. RelaySlotsOK'
      BY <2>1 DEF RelaySlotsOK
    <2> QED
      BY <2>1, <2>2, <2>3, <2>4 DEF RelayOK, RelayTypesOK
  <1> QED
    BY <1>1, <1>2
(* An index belongs to one name, and a function to one index. *)
LEMMA PutOK ==
  ASSUME RelayOK, NEW n \in Name, NEW i \in DOMAIN names, pc = "code",
         Relay!IsIndex(i, n), fnames' = Append(fnames, n),
         Relay!Put(Len(fnames'), i),
         UNCHANGED <<devs, names, consts>>
  PROVE  RelayOK'
  <1> DEFINE k == Len(fnames) + 1
  <1>1. /\ fnames \in Seq(Name) /\ Len(fnames) \in Nat
        /\ fnames' \in Seq(Name) /\ Len(fnames') = k /\ fnames'[k] = n
        /\ DOMAIN fnames = 1 .. Len(fnames) /\ DOMAIN fnames' = 1 .. k
        /\ \A j \in DOMAIN fnames : fnames'[j] = fnames[j]
    BY AppendProperties DEF RelayOK, RelayTypesOK
  <1>2. k \in DOMAIN fnames' /\ k \notin DOMAIN fnames
    BY <1>1
  <1>3. Len(fnames') = k
    BY <1>1
  <1> HIDE DEF k
  <1>4. RelayTypesOK'
    <2>1. pc' \in {"code", "undefined"}
      BY DEF Relay!Put
    <2> QED
      BY <1>1, <2>1 DEF RelayOK, RelayTypesOK
  <1>5. CASE i \notin DOMAIN slots
    <2>1. pc' = "undefined" /\ UNCHANGED <<heap, held, slots>>
      BY <1>5 DEF Relay!Put
    <2> QED
      BY <1>4, <2>1
         DEF RelayOK, RelaySlotsOK, RelayConstsOK, RelayMemoryOK
  <1>6. CASE i \in DOMAIN slots
    <2> DEFINE old == <<"function", slots[i]>>
               new == <<"function", k>>
    <2>1. /\ slots' = [slots EXCEPT ![i] = k]
          /\ heap' = heap \cup {new} /\ held' = (held \cup {new}) \ {old}
          /\ pc' = "code"
      BY <1>3, <1>6 DEF Relay!Put
    <2>2. slots[i] = Undefined \/ slots[i] \in DOMAIN fnames
      BY <1>6 DEF RelayOK, RelaySlotsOK
    <2>3. k \in Nat /\ slots[i] # k
      BY <1>1, <1>2, <2>2, LoadersAssumption
    <2>4. \A b \in held : b[1] # "function" => b \in held'
      BY <2>1
    <2>5. RelayConstsOK'
      BY <2>1, <2>4 DEF RelayOK, RelayConstsOK, Ready
    <2>6. RelaySlotsOK'
      <3> SUFFICES ASSUME NEW j \in DOMAIN slots, slots'[j] # Undefined
                   PROVE  /\ slots'[j] \in DOMAIN fnames'
                          /\ <<"function", slots'[j]>> \in held'
                          /\ Relay!IsIndex(j, fnames'[slots'[j]])
        BY <2>1 DEF RelaySlotsOK, Relay!IsIndex
      <3>1. CASE j = i
        BY <1>1, <1>2, <1>6, <2>1, <2>3, <3>1
      <3>2. CASE j # i
        <4>1. slots'[j] = slots[j]
          BY <2>1, <3>2
        <4>2. /\ slots[j] \in DOMAIN fnames
              /\ <<"function", slots[j]>> \in held
              /\ Relay!IsIndex(j, fnames[slots[j]])
          BY <4>1 DEF RelayOK, RelaySlotsOK
        <4>3. slots[j] # slots[i]
          <5>1. slots[j] # Undefined
            BY <4>1
          <5>2. slots[i] # Undefined => Relay!IsIndex(i, fnames[slots[i]])
            BY <1>6 DEF RelayOK, RelaySlotsOK
          <5>3. \A x, y \in 1 .. Len(names) : x > y \/ y > x \/ x = y
            OBVIOUS
          <5>4. DOMAIN names = 1 .. Len(names)
            BY DEF RelayOK, RelayTypesOK
          <5> QED
            BY <3>2, <4>2, <5>1, <5>2, <5>3, <5>4 DEF Relay!IsIndex
        <4>4. fnames'[slots[j]] = fnames[slots[j]]
          BY <1>1, <4>2
        <4> QED
          BY <1>1, <1>2, <2>1, <4>1, <4>2, <4>3, <4>4, SMTT(60)
      <3> QED
        BY <3>1, <3>2
    <2>7. Relay!RelayLoses \subseteq Relay!RelayLoses'
      BY <1>1, <1>2, <2>1
         DEF Relay!RelayLoses, Relay!Overwritten, Relay!Blocks
    <2>8. old \in held => old \in Relay!RelayLoses'
      <3> SUFFICES ASSUME old \in held
                   PROVE  old \in Relay!RelayLoses'
        OBVIOUS
      <3>1. old[1] = "function" /\ old[2] = slots[i]
        OBVIOUS
      <3>2. slots[i] \in DOMAIN fnames /\ slots[i] # Undefined
        <4>1. slots[i] \in Nat
          BY <3>1 DEF RelayOK, RelayMemoryOK
        <4> QED
          BY <2>2, <4>1, LoadersAssumption
      <3>3. Relay!IsIndex(i, fnames[slots[i]])
        BY <1>6, <3>2 DEF RelayOK, RelaySlotsOK
      <3>4. /\ slots[i] \in DOMAIN fnames' /\ k > slots[i]
            /\ fnames'[k] = fnames'[slots[i]]
        BY <1>1, <1>2, <3>2, <3>3 DEF Relay!IsIndex
      <3> QED
        BY <1>2, <3>4 DEF Relay!RelayLoses, Relay!Overwritten, Relay!Blocks
    <2>9. RelayMemoryOK'
      BY <2>1, <2>3, <2>7, <2>8, SMTT(60) DEF RelayOK, RelayMemoryOK
    <2> QED
      BY <1>4, <2>5, <2>6, <2>9 DEF RelayOK
  <1> QED
    BY <1>5, <1>6

LEMMA RelayLoadFunctionOK ==
  ASSUME RelayOK, Relay!LoadFunction
  PROVE  RelayOK'
  <1>1. pc = "code"
    BY DEF Relay!LoadFunction
  <1>2. CASE Relay!FunctionRefused
    BY <1>1, <1>2, RelayFailOK DEF Relay!FunctionRefused
  <1>3. CASE Relay!FunctionTorn
    BY <1>1, <1>3
       DEF Relay!FunctionTorn, RelayOK, RelayTypesOK, RelaySlotsOK,
           RelayConstsOK, RelayMemoryOK
  <1>4. ASSUME NEW n \in Name, Relay!FunctionRead(n)
        PROVE  RelayOK'
    <2>1. fnames' = Append(fnames, n) /\ UNCHANGED <<devs, names, consts>>
      BY <1>4 DEF Relay!FunctionRead
    <2>2. ASSUME NEW i \in DOMAIN names,
                 Relay!IsIndex(i, n), Relay!Put(Len(fnames'), i)
          PROVE  RelayOK'
      BY <1>1, <2>1, <2>2, PutOK
    <2>3. ASSUME \A i \in DOMAIN names : names[i] # n,
                 heap' = (heap \ held) \cup {<<"function", Len(fnames')>>},
                 held' = {}, pc' = "failed", UNCHANGED left
          PROVE  RelayOK'
      <3>1. /\ fnames \in Seq(Name) /\ Len(fnames) \in Nat
            /\ fnames' \in Seq(Name) /\ Len(fnames') = Len(fnames) + 1
            /\ fnames'[Len(fnames')] = n
            /\ DOMAIN fnames = 1 .. Len(fnames)
            /\ DOMAIN fnames' = 1 .. Len(fnames')
            /\ \A j \in DOMAIN fnames : fnames'[j] = fnames[j]
        BY <2>1, AppendProperties DEF RelayOK, RelayTypesOK
      <3>2. Relay!RelayLoses \subseteq Relay!RelayLoses'
        BY <1>1, <2>1, <2>3, <3>1
           DEF Relay!RelayLoses, Relay!Overwritten, Relay!Blocks
      <3>3. <<"function", Len(fnames')>> \in Relay!RelayLoses'
        BY <2>1, <2>3, <3>1 DEF Relay!RelayLoses, Relay!Blocks
      <3>4. RelayMemoryOK'
        BY <1>1, <2>3, <3>1, <3>2, <3>3, SMTT(60) DEF RelayOK, RelayMemoryOK
      <3> QED
        BY <2>1, <2>3, <3>1, <3>4
           DEF RelayOK, RelayTypesOK, RelaySlotsOK, RelayConstsOK
    <2> QED
      BY <1>4, <2>2, <2>3 DEF Relay!FunctionRead
  <1> QED
    BY <1>2, <1>3, <1>4 DEF Relay!LoadFunction
LEMMA RelaySetupDevicesOK ==
  ASSUME RelayOK, Relay!SetupDevices
  PROVE  RelayOK'
  <1>1. CASE Relay!Fail
    BY <1>1, RelayFailOK DEF Relay!SetupDevices
  <1>2. CASE ~ Relay!Fail
    <2>1. /\ pc = "code" /\ pc' = "setup" /\ left' = Len(consts)
          /\ \A i \in DOMAIN consts : consts[i] # 0
          /\ UNCHANGED <<heap, held, devs, names, consts, fnames, slots>>
      BY <1>2 DEF Relay!SetupDevices, Relay!LateBound
    <2>2. Len(consts) \in Nat /\ DOMAIN consts = 1 .. Len(consts)
      BY DEF RelayOK, RelayTypesOK
    <2>3. \A i \in DOMAIN consts : ~ (Ready(i)')
      BY <2>1, <2>2 DEF Ready, Relay!Current
    <2>4. \A i \in DOMAIN consts : <<"data", i>> \in held
      BY <2>1 DEF RelayOK, RelayConstsOK, Ready
    <2>5. RelayConstsOK'
      <3>1. left' \in 0 .. Len(consts)
        BY <2>1, <2>2
      <3>2. \A i \in DOMAIN consts' : consts'[i] # 0 =>
              IF devs'[consts'[i]] = "gpu" /\ Ready(i)'
              THEN /\ <<"device data", i>> \in held'
                   /\ <<"data", i>> \notin heap'
              ELSE <<"data", i>> \in held'
        BY <2>1, <2>3, <2>4, Zenon
      <3> QED
        BY <2>1, <3>1, <3>2, Zenon DEF RelayConstsOK
    <2>6. RelayMemoryOK'
      BY <2>1, LosesMore DEF RelayOK, RelayMemoryOK
    <2> QED
      BY <2>1, <2>5, <2>6
         DEF RelayOK, RelayTypesOK, RelaySlotsOK, Relay!IsIndex
  <1> QED
    BY <1>1, <1>2

LEMMA RelaySetupConstantOK ==
  ASSUME RelayOK, Relay!SetupConstant
  PROVE  RelayOK'
  <1> DEFINE c == Relay!Current
  <1>0. /\ pc = "setup" /\ left \in 1 .. Len(consts) /\ Len(consts) \in Nat
        /\ DOMAIN consts = 1 .. Len(consts)
    <2>1. pc = "setup" /\ left > 0
      BY DEF Relay!SetupConstant
    <2>2. Len(consts) \in Nat /\ DOMAIN consts = 1 .. Len(consts)
      BY DEF RelayOK, RelayTypesOK
    <2>3. left \in 0 .. Len(consts)
      BY <2>1 DEF RelayOK, RelayConstsOK
    <2> QED
      BY <2>1, <2>2, <2>3
  <1>1. c = Len(consts) + 1 - left /\ c \in DOMAIN consts /\ consts[c] # 0
    <2>1. c = Len(consts) + 1 - left /\ c \in DOMAIN consts
      BY <1>0 DEF Relay!Current
    <2>2. \A i \in DOMAIN consts : consts[i] # 0
      BY <1>0 DEF RelayOK, RelayConstsOK
    <2> QED
      BY <2>1, <2>2
  <1>2. UNCHANGED <<devs, names, consts, fnames, slots>>
    BY DEF Relay!SetupConstant, Relay!Fail
  <1>3. CASE Relay!Fail
    BY <1>0, <1>3, RelayFailOK
  <1>4. ASSUME pc' = pc, left' = left - 1
        PROVE  /\ Relay!Current' = c + 1 /\ left' \in 0 .. Len(consts)
               /\ \A i \in DOMAIN consts : Ready(i)' <=> Ready(i) \/ i = c
    BY <1>0, <1>1, <1>2, <1>4 DEF Ready, Relay!Current
  <1>5. CASE /\ devs[consts[c]] = "cpu"
             /\ left' = left - 1 /\ UNCHANGED <<pc, heap, held>>
    <2>1. RelayConstsOK'
      BY <1>0, <1>1, <1>2, <1>4, <1>5 DEF RelayOK, RelayConstsOK
    <2>2. RelayMemoryOK'
      BY <1>0, <1>2, <1>5, LosesMore DEF RelayOK, RelayMemoryOK
    <2> QED
      BY <1>2, <1>5, <2>1, <2>2
         DEF RelayOK, RelayTypesOK, RelaySlotsOK, Relay!IsIndex
  <1>6. CASE /\ devs[consts[c]] = "gpu"
             /\ heap' = (heap \ {<<"data", c>>}) \cup {<<"device data", c>>}
             /\ held' = (held \ {<<"data", c>>}) \cup {<<"device data", c>>}
             /\ left' = left - 1 /\ pc' = pc
    <2>1. RelayConstsOK'
      <3> SUFFICES ASSUME NEW i \in DOMAIN consts
                   PROVE  IF devs[consts[i]] = "gpu" /\ Ready(i)'
                          THEN /\ <<"device data", i>> \in held'
                               /\ <<"data", i>> \notin heap'
                          ELSE <<"data", i>> \in held'
        BY <1>0, <1>2, <1>4, <1>6 DEF RelayOK, RelayConstsOK
      <3>1. IF devs[consts[i]] = "gpu" /\ Ready(i)
            THEN <<"device data", i>> \in held /\ <<"data", i>> \notin heap
            ELSE <<"data", i>> \in held
        BY <1>0 DEF RelayOK, RelayConstsOK
      <3> QED
        BY <1>4, <1>6, <3>1
    <2>0. <<"data", c>>[1] = "data" /\ <<"device data", c>>[1] = "device data"
      OBVIOUS
    <2>2. \A b \in held : b[1] = "function" => b \in held'
      BY <1>6, <2>0
    <2>3. RelaySlotsOK'
      BY <1>0, <1>2, <1>6, <2>2 DEF RelayOK, RelaySlotsOK, Relay!IsIndex
    <2>4. Relay!RelayLoses \subseteq Relay!RelayLoses'
      BY <1>0, <1>2, LosesMore
    <2>5. RelayMemoryOK'
      BY <1>0, <1>6, <2>0, <2>4 DEF RelayOK, RelayMemoryOK
    <2> QED
      BY <1>0, <1>2, <1>6, <2>1, <2>3, <2>5 DEF RelayOK, RelayTypesOK
  <1>7. CASE /\ devs[consts[c]] = "gpu"
             /\ heap' = heap \ (held \ {<<"data", c>>}) /\ held' = {}
             /\ pc' = "failed" /\ left' = left
    <2>1. Relay!RelayLoses \subseteq Relay!RelayLoses'
      BY <1>0, <1>2, LosesMore
    <2>2. <<"data", c>> \in Relay!RelayLoses'
      <3>1. Relay!Current' = c
        BY <1>2, <1>7 DEF Relay!Current
      <3> QED
        BY <1>1, <1>2, <1>7, <3>1
           DEF Relay!RelayLoses, Relay!Blocks, Relay!LateBound
    <2>3. RelayMemoryOK'
      BY <1>0, <1>7, <2>1, <2>2 DEF RelayOK, RelayMemoryOK
    <2> QED
      BY <1>2, <1>7, <2>3
         DEF RelayOK, RelayTypesOK, RelaySlotsOK, RelayConstsOK
  <1> QED
    BY <1>3, <1>5, <1>6, <1>7 DEF Relay!SetupConstant

LEMMA RelayCreateOK ==
  ASSUME RelayOK, Relay!Create
  PROVE  RelayOK'
  <1> DEFINE B == {<<"machine", 0>>, <<"machine functions", 0>>, <<"map", 0>>}
                    \cup Relay!Blocks("inputs", DOMAIN slots)
  <1>1. pc = "setup" /\ left = 0 /\ UNCHANGED <<left, devs, names, consts,
                                                fnames, slots>>
    BY DEF Relay!Create
  <1>2. CASE pc' = "undefined" /\ UNCHANGED <<heap, held>>
    BY <1>1, <1>2 DEF RelayOK, RelayTypesOK, RelaySlotsOK, RelayConstsOK,
                      RelayMemoryOK
  <1>3. CASE /\ \A i \in DOMAIN slots : slots[i] # Undefined
             /\ Relay!Adds(B) /\ pc' = "machine"
    <2>1. \A b \in B : b[1] # "function" /\ b[1] # "data"
      <3>1. \A b \in Relay!Blocks("inputs", DOMAIN slots) : b[1] = "inputs"
        BY DEF Relay!Blocks
      <3>2. /\ <<"machine", 0>>[1] = "machine" /\ <<"map", 0>>[1] = "map"
            /\ <<"machine functions", 0>>[1] = "machine functions"
        OBVIOUS
      <3> QED
        BY <3>1, <3>2
    <2> HIDE DEF B
    <2>2. RelayMemoryOK'
      BY <1>1, <1>3, <2>1, AddsOK
    <2>3. RelaySlotsOK'
      BY <1>1, <1>3 DEF RelayOK, RelaySlotsOK, Relay!Adds, Relay!IsIndex
    <2>4. \A i \in DOMAIN consts : Ready(i) /\ Ready(i)'
      <3>1. Len(consts) \in Nat /\ DOMAIN consts = 1 .. Len(consts)
        BY DEF RelayOK, RelayTypesOK
      <3> QED
        BY <1>1, <1>3, <3>1 DEF Ready, Relay!Current
    <2>5. RelayConstsOK'
      BY <1>1, <1>3, <2>1, <2>4 DEF RelayOK, RelayConstsOK, Relay!Adds
    <2> QED
      BY <1>1, <1>3, <2>2, <2>3, <2>5 DEF RelayOK, RelayTypesOK
  <1> QED
    BY <1>2, <1>3 DEF Relay!Create, Relay!Block

LEMMA RelayFreeOK ==
  ASSUME RelayOK, Relay!Free
  PROVE  RelayOK'
  <1>1. /\ pc = "machine" /\ pc' = "freed"
        /\ heap' = heap \ held /\ held' = {}
        /\ UNCHANGED <<left, devs, names, consts, fnames, slots>>
    BY DEF Relay!Free, Relay!Freed
  <1>2. RelayMemoryOK'
    BY <1>1, LosesMore DEF RelayOK, RelayMemoryOK
  <1> QED
    BY <1>1, <1>2 DEF RelayOK, RelayTypesOK, RelaySlotsOK, RelayConstsOK

LEMMA RelayNextOK ==
  ASSUME RelayOK, Relay!Next
  PROVE  RelayOK'
  BY RelayOpenOK, RelayTablesOK, RelayLoadConstantsOK, RelayLoadNamesOK,
     RelayLoadCodeOK, RelayLoadFunctionOK, RelaySetupDevicesOK,
     RelaySetupConstantOK, RelayCreateOK, RelayFreeOK, Zenon DEF Relay!Next

-----------------------------------------------------------------------------
(* The module changes hands when the machine is created, and only then.    *)
LEMMA OwnerStepOK ==
  ASSUME OwnerOK, Relax!Next \/ Relay!Next
  PROVE  OwnerOK'
  <1>1. ASSUME Relax!Next PROVE OwnerOK'
    BY <1>1
       DEF OwnerOK, Relax!Next, Relax!Open, Relax!LoadGlobals,
           Relax!LoadConstants, Relax!LoadCode, Relax!Lost, Relax!CreateBegin,
           Relax!SetupConstant, Relax!CreateEnd, Relax!Release
  <1>2. ASSUME Relay!Next PROVE OwnerOK'
    <2>1. Relay!LoadFunction => pc = "code" /\ UNCHANGED owner
                                  /\ pc' \in {"code", "failed", "undefined"}
      BY DEF Relay!LoadFunction, Relay!FunctionRead, Relay!FunctionRefused,
             Relay!FunctionTorn, Relay!Fail, Relay!Put
    <2> QED
      BY <1>2, <2>1
         DEF OwnerOK, Relay!Next, Relay!Open, Relay!LoadVirtualDevices,
             Relay!LoadGlobals, Relay!LoadConstants, Relay!LoadPrimitiveNames,
             Relay!LoadCode, Relay!SetupDevices, Relay!SetupConstant,
             Relay!Fail, Relay!Create, Relay!Free
  <1> QED
    BY <1>1, <1>2

THEOREM LoadersInductive == Spec => []IInv
  <1>1. Init => IInv
    <2> SUFFICES ASSUME Init
                 PROVE  IInv
      OBVIOUS
    <2>1. /\ pc = "idle" /\ heap = {} /\ held = {} /\ owner = "user"
          /\ consts = <<>> /\ devs = <<>> /\ names = <<>> /\ fnames = <<>>
          /\ kind \in {"relax", "relay"}
      BY DEF Init, Relax!Init, Relay!Init
    <2>2. RelaxOK
      BY <2>1 DEF RelaxOK, RelaxFuncsOK, RelaxConstsOK, RelaxCallsOK,
                  RelaxNamesOK, RelaxMemoryOK
    <2>3. RelayOK
      BY <2>1 DEF RelayOK, RelayTypesOK, RelaySlotsOK, RelayConstsOK,
                  RelayMemoryOK
    <2> QED
      BY <2>1, <2>2, <2>3 DEF IInv, OwnerOK
  <1>2. IInv /\ [Next]_vars => IInv'
    <2> SUFFICES ASSUME IInv, [Next]_vars
                 PROVE  IInv'
      OBVIOUS
    <2>1. CASE RelaxStep
      BY <2>1, RelaxNextOK, OwnerStepOK DEF IInv, RelaxStep
    <2>2. CASE RelayStep
      BY <2>2, RelayNextOK, OwnerStepOK DEF IInv, RelayStep
    <2>3. CASE UNCHANGED vars
      <3>1. UNCHANGED <<kind, pc, heap, held, owner, left, consts, funcs,
                        calls, limit, devs, names, fnames, slots>>
        BY <2>3 DEF vars, relax, relay
      <3>2. RelaxOK => RelaxOK'
        BY <3>1 DEF RelaxOK, RelaxFuncsOK, RelaxConstsOK, RelaxCallsOK,
                    RelaxNamesOK, RelaxMemoryOK, Tensors, Relax!Refused
      <3>3. RelayOK => RelayOK'
        <4>1. Relay!RelayLoses' = Relay!RelayLoses
          BY <3>1 DEF Relay!RelayLoses, Relay!Overwritten, Relay!Blocks,
                      Relay!Current, Relay!LateBound
        <4>2. RelayMemoryOK => RelayMemoryOK'
          BY <3>1, <4>1 DEF RelayMemoryOK
        <4>3. RelayConstsOK => RelayConstsOK'
          BY <3>1 DEF RelayConstsOK, Ready, Relay!Current
        <4> QED
          BY <3>1, <4>2, <4>3
             DEF RelayOK, RelayTypesOK, RelaySlotsOK, Relay!IsIndex
      <3> QED
        BY <3>1, <3>2, <3>3 DEF IInv, OwnerOK
    <2> QED
      BY <2>1, <2>2, <2>3 DEF Next
  <1> QED
    BY <1>1, <1>2, PTL DEF Spec

(* "The function will get ownership of this module_handle if create        *)
(* successfully" (relax_vm.h, relay_vm.h): for every executable, however   *)
(* far its load comes.                                                     *)
THEOREM MachinesOwnTheirModule == Spec => []MachineOwnsModule
  <1>1. IInv => MachineOwnsModule
    BY DEF IInv, OwnerOK, MachineOwnsModule
  <1> QED
    BY <1>1, LoadersInductive, PTL

(* Every machine that is created has its constants, room for the arguments *)
(* of its calls, and the function of each name at the index of the name.   *)
THEOREM MachinesAreComplete == Spec => []MachineIsComplete
  <1>1. ASSUME IInv, kind = "relax" PROVE Relax!RelaxMachineIsComplete
    BY <1>1 DEF IInv, RelaxOK, RelaxFuncsOK, RelaxConstsOK, RelaxCallsOK,
                RelaxNamesOK, Relax!RelaxMachineIsComplete, Relax!One,
                Relax!Cleared, Relax!NoConst
  <1>2. ASSUME IInv, kind = "relay" PROVE Relay!RelayMachineIsComplete
    <2> SUFFICES ASSUME pc = "machine"
                 PROVE  Relay!RelayMachineIsComplete
      BY DEF Relay!RelayMachineIsComplete
    <2>1. \A i \in DOMAIN slots : /\ <<"function", slots[i]>> \in held
                                 /\ Relay!IsIndex(i, fnames[slots[i]])
      BY <1>2 DEF IInv, RelayOK, RelaySlotsOK
    <2>2. \A i \in DOMAIN consts :
            /\ devs[consts[i]] \in {"cpu", "gpu"}
            /\ IF devs[consts[i]] = "gpu"
               THEN <<"device data", i>> \in held /\ <<"data", i>> \notin heap
               ELSE <<"data", i>> \in held
      <3>1. \A i \in DOMAIN consts : consts[i] # 0
        BY <1>2 DEF IInv, RelayOK, RelayConstsOK
      <3>2. \A i \in DOMAIN consts : consts[i] \in DOMAIN devs
        BY <1>2, <3>1 DEF IInv, RelayOK, RelayTypesOK
      <3>3. \A d \in DOMAIN devs : devs[d] \in {"cpu", "gpu"}
        BY <1>2 DEF IInv, RelayOK, RelayTypesOK
      <3> QED
        BY <1>2, <3>1, <3>2, <3>3 DEF IInv, RelayOK, RelayConstsOK, Ready
    <2> QED
      BY <2>1, <2>2 DEF Relay!RelayMachineIsComplete
  <1>3. IInv => MachineIsComplete
    BY <1>1, <1>2 DEF IInv, MachineIsComplete
  <1> QED
    BY <1>3, LoadersInductive, PTL

(* No pointer outlives its block, and the two loaders lose nothing but     *)
(* what they are known to lose.                                            *)
THEOREM LoadersLoseOnlyThis == Spec => []MemoryIsAccounted
  <1>1. ASSUME IInv, kind = "relax", pc # "undefined"
        PROVE  held \subseteq heap /\ heap \ held \subseteq Relax!RelaxLoses
    BY <1>1 DEF IInv, RelaxOK, RelaxMemoryOK, Tensors, Relax!RelaxLoses,
                Relax!Each
  <1>2. ASSUME IInv, kind = "relay", pc # "undefined"
        PROVE  held \subseteq heap /\ heap \ held \subseteq Relay!RelayLoses
    BY <1>2 DEF IInv, RelayOK, RelayMemoryOK
  <1>3. IInv => MemoryIsAccounted
    BY <1>1, <1>2 DEF IInv, MemoryIsAccounted
  <1> QED
    BY <1>3, LoadersInductive, PTL

-----------------------------------------------------------------------------
(* Tries.  What holds of names of every length is proved by taking the     *)
(* shortest name for which it would not (AllNames).                        *)

(* Every set of naturals has a least element. *)
LEMMA LeastExists ==
  ASSUME NEW S \in SUBSET Nat, S # {}
  PROVE  \E k \in S : \A l \in S : k <= l
<1>1. PICK k \in S : ~ \E l \in S : <<l, k>> \in OpToRel(<, Nat)
  BY WFMin, NatLessThanWellFounded, Zenon
<1>2. \A l \in S : ~ (l < k)
  BY <1>1, Zenon DEF OpToRel
<1> QED BY <1>2

(* G has with a name what is one byte longer.                              *)
Grows(G, S) == \A s \in G : \A c \in S : Append(s, c) \in G

(* A set of names that has the empty one, and with a name what is one byte *)
(* longer, has them all.                                                   *)
LEMMA AllNames ==
  ASSUME NEW S, NEW G \in SUBSET Seq(S), <<>> \in G, Grows(G, S)
  PROVE  \A s \in Seq(S) : s \in G
<1> DEFINE A == Seq(S)
<1>1. /\ \A w \in A : Len(w) \in Nat
      /\ \A w \in A : \A c \in S : Len(Append(w, c)) = Len(w) + 1
  BY AppendProperties, LenProperties
<1>2. \A w \in A : w # <<>> => \E v \in A : \E c \in S : w = Append(v, c)
  BY SequenceEmptyOrAppend
<1> HIDE DEF A
<1> DEFINE B == A \ G
           L == {Len(w) : w \in B}
<1>3. ASSUME B # {} PROVE FALSE
  <2>1. L \in SUBSET Nat /\ L # {}
    BY <1>1, <1>3
  <2>2. PICK l \in L : \A k \in L : l <= k
    BY <2>1, LeastExists
  <2>3. PICK w \in B : Len(w) = l
    BY <2>2
  <2>4. PICK v \in A, c \in S : w = Append(v, c)
    <3>1. w \in A /\ w # <<>>
      BY <2>3
    <3> QED BY <1>2, <3>1, Zenon
  <2>5. Len(w) = Len(v) + 1 /\ Len(v) \in Nat
    BY <1>1, <2>4
  <2>6. v \in G
    BY <2>2, <2>3, <2>5
  <2> QED BY <2>3, <2>4, <2>6 DEF Grows
<1> QED BY <1>3 DEF A

(* The empty name leads nowhere else. *)
LEMMA LeadsEmpty ==
  ASSUME NEW E, NEW n, NEW m
  PROVE  Leads(E, n, <<>>, m) <=> n \in Node /\ m = n
<1>1. Len(<<>>) = 0
  OBVIOUS
<1>2. ASSUME n \in Node PROVE [i \in 0 .. 0 |-> n] \in Walks(E, n, <<>>, 0)
  BY <1>2 DEF Walks
<1>3. ASSUME NEW p \in Walks(E, n, <<>>, 0)
      PROVE  n \in Node /\ p[0] = n
  BY <1>3 DEF Walks
<1> QED BY <1>1, <1>2, <1>3 DEF Leads

(* A name leads where its last byte leads from where the others do. *)
LEMMA LeadsAppend ==
  ASSUME NEW E, NEW S, NEW w \in Seq(S), NEW c \in S, NEW n, NEW m \in Node
  PROVE  Leads(E, n, Append(w, c), m)
           <=> \E x \in Node : Leads(E, n, w, x) /\ <<x, c, m>> \in E
<1> DEFINE v == Append(w, c)
           k == Len(w)
<1>1. /\ k \in Nat /\ Len(v) = k + 1 /\ v[k + 1] = c
      /\ \A i \in 1 .. k : v[i] = w[i]
  BY AppendProperties, LenProperties
<1> HIDE DEF v, k
<1>2. ASSUME NEW p \in Walks(E, n, v, k + 1), p[k + 1] = m
      PROVE  \E x \in Node : Leads(E, n, w, x) /\ <<x, c, m>> \in E
  <2> DEFINE q == [i \in 0 .. k |-> p[i]]
  <2>1. q \in Walks(E, n, w, k)
    BY <1>1 DEF Walks
  <2>2. p[k] \in Node /\ <<p[k], c, m>> \in E
    <3>1. <<p[(k + 1) - 1], v[k + 1], p[k + 1]>> \in E /\ (k + 1) - 1 = k
      BY <1>1 DEF Walks
    <3>2. p[k] \in Node
      BY <1>1 DEF Walks
    <3> QED BY <3>1, <3>2, <1>1, <1>2
  <2>3. q[k] = p[k]
    BY <1>1
  <2> QED BY <2>1, <2>2, <2>3 DEF Leads, k
<1>3. ASSUME NEW x \in Node, NEW p \in Walks(E, n, w, k), p[k] = x,
             <<x, c, m>> \in E
      PROVE  \E q \in Walks(E, n, v, k + 1) : q[k + 1] = m
  <2> DEFINE q == [i \in 0 .. k + 1 |-> IF i = k + 1 THEN m ELSE p[i]]
  <2>1. q \in [0 .. k + 1 -> Node] /\ q[0] = n /\ q[k + 1] = m
    BY <1>1 DEF Walks
  <2>2. ASSUME NEW i \in 1 .. k + 1 PROVE <<q[i - 1], v[i], q[i]>> \in E
    <3>1. CASE i = k + 1
      <4>1. q[i - 1] = x /\ v[i] = c /\ q[i] = m
        BY <1>1, <1>3, <3>1
      <4> QED BY <4>1, <1>3
    <3>2. CASE i # k + 1
      <4>1. i \in 1 .. k /\ q[i - 1] = p[i - 1] /\ q[i] = p[i] /\ v[i] = w[i]
        BY <1>1, <3>2
      <4>2. <<p[i - 1], w[i], p[i]>> \in E
        BY <4>1 DEF Walks
      <4> QED BY <4>1, <4>2
    <3> QED BY <3>1, <3>2
  <2>3. q \in Walks(E, n, v, k + 1)
    BY <2>1, <2>2 DEF Walks
  <2> QED BY <2>1, <2>3
<1> QED BY <1>1, <1>2, <1>3 DEF Leads, v, k

(* A name leads to a node. *)
LEMMA LeadsInto ==
  ASSUME NEW E, NEW n, NEW w, NEW m, Leads(E, n, w, m), Len(w) \in Nat
  PROVE  m \in Node
  BY DEF Leads, Walks

(* What an edge more leaves: every name leads where it did.                *)
LEMMA LeadsMore ==
  ASSUME NEW E, NEW F, E \subseteq F, NEW n, NEW w, NEW m, Leads(E, n, w, m)
  PROVE  Leads(F, n, w, m)
  BY DEF Leads, Walks

-----------------------------------------------------------------------------
(* A node has one son for a byte, and the place of a node is at one byte   *)
(* of one node; r is the son of none.                                      *)
OneSon(E) ==
  \A n, c, x, y : <<n, c, x>> \in E /\ <<n, c, y>> \in E => x = y

OnePlace(E) ==
  \A n, c, m, d, x : <<n, c, x>> \in E /\ <<m, d, x>> \in E => n = m /\ c = d

First(E, r) == \A n, c : <<n, c, r>> \notin E

(* From a node a name leads to one node at most. *)
LEMMA OneEnd ==
  ASSUME NEW E, OneSon(E), NEW n, NEW S, NEW w \in Seq(S),
         NEW x, NEW y, Leads(E, n, w, x), Leads(E, n, w, y)
  PROVE  x = y
<1> DEFINE Good(s) ==
      \A a, b \in Node : Leads(E, n, s, a) /\ Leads(E, n, s, b) => a = b
<1>1. Good(<<>>)
  BY LeadsEmpty
<1>2. ASSUME NEW s \in Seq(S), NEW c \in S, Good(s)
      PROVE  Good(Append(s, c))
  <2> SUFFICES ASSUME NEW a \in Node, NEW b \in Node,
                      Leads(E, n, Append(s, c), a), Leads(E, n, Append(s, c), b)
               PROVE  a = b
    OBVIOUS
  <2>1. PICK d \in Node : Leads(E, n, s, d) /\ <<d, c, a>> \in E
    BY LeadsAppend
  <2>2. PICK e \in Node : Leads(E, n, s, e) /\ <<e, c, b>> \in E
    BY LeadsAppend
  <2>3. d = e
    BY <1>2, <2>1, <2>2
  <2> QED BY <2>1, <2>2, <2>3 DEF OneSon
<1>3. \A s \in Seq(S) : Good(s)
  <2> DEFINE G == {s \in Seq(S) : Good(s)}
  <2> HIDE DEF Good
  <2>1. G \in SUBSET Seq(S) /\ <<>> \in G
    BY <1>1, EmptySeq
  <2>2. Grows(G, S)
    BY <1>2, AppendProperties DEF Grows
  <2> HIDE DEF G
  <2>3. \A s \in Seq(S) : s \in G
    BY <2>1, <2>2, AllNames
  <2> QED BY <2>3 DEF G
<1>4. x \in Node /\ y \in Node
  BY LeadsInto, LenProperties
<1> QED BY <1>3, <1>4

(* To a node one name leads at most, and from one first node. *)
LEMMA OneName ==
  ASSUME NEW E, OnePlace(E), NEW S, NEW w \in Seq(S), NEW v \in Seq(S),
         NEW a, NEW b, First(E, a), First(E, b),
         NEW x, Leads(E, a, w, x), Leads(E, b, v, x)
  PROVE  a = b /\ w = v
<1> DEFINE Good(s) ==
      \A t \in Seq(S), y \in Node :
        Leads(E, a, s, y) /\ Leads(E, b, t, y) => a = b /\ s = t
<1>1. Good(<<>>)
  <2> SUFFICES ASSUME NEW t \in Seq(S), NEW y \in Node,
                      Leads(E, a, <<>>, y), Leads(E, b, t, y)
               PROVE  a = b /\ <<>> = t
    OBVIOUS
  <2>1. y = a
    BY LeadsEmpty
  <2>2. CASE t = <<>>
    BY <2>1, <2>2, LeadsEmpty
  <2>3. CASE t # <<>>
    <3>1. PICK u \in Seq(S), c \in S : t = Append(u, c)
      BY <2>3, SequenceEmptyOrAppend
    <3>2. PICK d \in Node : <<d, c, y>> \in E
      BY <3>1, LeadsAppend
    <3> QED BY <2>1, <3>2 DEF First
  <2> QED BY <2>2, <2>3
<1>2. ASSUME NEW s \in Seq(S), NEW c \in S, Good(s)
      PROVE  Good(Append(s, c))
  <2> SUFFICES ASSUME NEW t \in Seq(S), NEW y \in Node,
                      Leads(E, a, Append(s, c), y), Leads(E, b, t, y)
               PROVE  a = b /\ Append(s, c) = t
    OBVIOUS
  <2>1. PICK d \in Node : Leads(E, a, s, d) /\ <<d, c, y>> \in E
    BY LeadsAppend
  <2>2. ASSUME t = <<>> PROVE FALSE
    <3>1. y = b
      BY <2>2, LeadsEmpty
    <3> QED BY <2>1, <3>1 DEF First
  <2>3. PICK u \in Seq(S), e \in S : t = Append(u, e)
    BY <2>2, SequenceEmptyOrAppend
  <2>4. PICK f \in Node : Leads(E, b, u, f) /\ <<f, e, y>> \in E
    BY <2>3, LeadsAppend
  <2>5. d = f /\ c = e
    BY <2>1, <2>4 DEF OnePlace
  <2>6. a = b /\ s = u
    BY <1>2, <2>1, <2>4, <2>5
  <2> QED BY <2>3, <2>5, <2>6
<1>3. \A s \in Seq(S) : Good(s)
  <2> DEFINE G == {s \in Seq(S) : Good(s)}
  <2> HIDE DEF Good
  <2>1. G \in SUBSET Seq(S) /\ <<>> \in G
    BY <1>1, EmptySeq
  <2>2. Grows(G, S)
    BY <1>2, AppendProperties DEF Grows
  <2> HIDE DEF G
  <2>3. \A s \in Seq(S) : s \in G
    BY <2>1, <2>2, AllNames
  <2> QED BY <2>3 DEF G
<1>4. x \in Node
  BY LeadsInto, LenProperties
<1> QED BY <1>3, <1>4

(* What leads to an old node in the edges F led there in the edges E, when *)
(* F adds no edge to an old node.                                          *)
LEMMA OldWay ==
  ASSUME NEW E, NEW F, NEW N \in SUBSET Node,
         \A n, c, m : <<n, c, m>> \in F /\ m \in N => <<n, c, m>> \in E /\ n \in N,
         NEW S, NEW w \in Seq(S), NEW n, NEW x \in N, Leads(F, n, w, x)
  PROVE  Leads(E, n, w, x)
<1> DEFINE Good(s) == \A y \in N : Leads(F, n, s, y) => Leads(E, n, s, y)
<1>1. Good(<<>>)
  BY LeadsEmpty
<1>2. ASSUME NEW s \in Seq(S), NEW c \in S, Good(s)
      PROVE  Good(Append(s, c))
  <2> SUFFICES ASSUME NEW y \in N, Leads(F, n, Append(s, c), y)
               PROVE  Leads(E, n, Append(s, c), y)
    OBVIOUS
  <2>1. PICK d \in Node : Leads(F, n, s, d) /\ <<d, c, y>> \in F
    BY LeadsAppend
  <2>2. d \in N /\ <<d, c, y>> \in E
    BY <2>1
  <2>3. Leads(E, n, s, d)
    BY <1>2, <2>1, <2>2
  <2> QED BY <2>2, <2>3, LeadsAppend
<1>3. \A s \in Seq(S) : Good(s)
  <2> DEFINE G == {s \in Seq(S) : Good(s)}
  <2> HIDE DEF Good
  <2>1. G \in SUBSET Seq(S) /\ <<>> \in G
    BY <1>1, EmptySeq
  <2>2. Grows(G, S)
    BY <1>2, AppendProperties DEF Grows
  <2> HIDE DEF G
  <2>3. \A s \in Seq(S) : s \in G
    BY <2>1, <2>2, AllNames
  <2> QED BY <2>3 DEF G
<1> QED BY <1>3

-----------------------------------------------------------------------------
(* The names of entries are made of bytes with an index.                   *)
LEMMA KeyIndexed == \A w \in Key : w \in Seq(Indexed)
  BY DEF Key

(* The entries of a trie: a name that leads to a value has it,             *)
LEMMA EntryAt ==
  ASSUME NEW E, OneSon(E), NEW V, NEW r, NEW w \in Key,
         NEW n \in DOMAIN V, Leads(E, r, w, n)
  PROVE  w \in DOMAIN Entries(E, V, r) /\ Entries(E, V, r)[w] = V[n]
<1> DEFINE x == CHOOSE x \in DOMAIN V : Leads(E, r, w, x)
<1>1. x \in DOMAIN V /\ Leads(E, r, w, x)
  OBVIOUS
<1> HIDE DEF x
<1>2. x = n
  BY <1>1, OneEnd, KeyIndexed
<1>3. w \in DOMAIN Entries(E, V, r) /\ Entries(E, V, r)[w] = V[x]
  BY DEF Entries, x
<1> QED BY <1>2, <1>3

(* and each entry is the value of a node that its name leads to.           *)
LEMMA EntryFrom ==
  ASSUME NEW E, OneSon(E), NEW V, NEW r, NEW w \in DOMAIN Entries(E, V, r)
  PROVE  /\ w \in Key
         /\ \E n \in DOMAIN V :
              Leads(E, r, w, n) /\ Entries(E, V, r)[w] = V[n]
<1>1. PICK n \in DOMAIN V : w \in Key /\ Leads(E, r, w, n)
  BY DEF Entries
<1> QED BY <1>1, EntryAt

(* A function is the entries if it has what the names lead to, and nothing *)
(* else.                                                                   *)
LEMMA EntriesAre ==
  ASSUME NEW E, OneSon(E), NEW V, NEW r, NEW M, M = [w \in DOMAIN M |-> M[w]],
         \A w \in DOMAIN M : w \in Key /\
           \E n \in DOMAIN V : Leads(E, r, w, n) /\ M[w] = V[n],
         \A w \in Key : \A n \in DOMAIN V :
           Leads(E, r, w, n) => w \in DOMAIN M
  PROVE  Entries(E, V, r) = M
<1>1. DOMAIN Entries(E, V, r) = DOMAIN M
  BY Zenon DEF Entries
<1>2. \A w \in DOMAIN M : Entries(E, V, r)[w] = M[w]
  BY EntryAt
<1>3. Entries(E, V, r) = [w \in DOMAIN Entries(E, V, r) |-> Entries(E, V, r)[w]]
  BY Zenon DEF Entries
<1> QED BY <1>1, <1>2, <1>3, Zenon

-----------------------------------------------------------------------------
(* Trees on the heap: each node is reached from the first one of a trie.   *)
Reached(N, E, R) ==
  \A n \in N : \E h \in DOMAIN R, w \in Seq(Indexed) : Leads(E, R[h], w, n)

(* A node has one son for a byte and is the son of one node at most; each  *)
(* node is reached from the first node of a trie, whose son it is of none. *)
Forest(N, E, R) ==
  /\ N \in SUBSET Node
  /\ E \subseteq N \X Indexed \X N
  /\ OneSon(E) /\ OnePlace(E)
  /\ \A h \in DOMAIN R : R[h] \in N /\ First(E, R[h])
  /\ \A h, t \in DOMAIN R : R[h] = R[t] => h = t
  /\ Reached(N, E, R)

(* The invariant: the allocated nodes are a forest, and only they have     *)
(* values.                                                                 *)
TrieInv ==
  /\ Forest(nodes, edges, root)
  /\ root = [h \in DOMAIN root |-> root[h]] /\ DOMAIN root \subseteq Holder
  /\ value = [n \in DOMAIN value |-> value[n]] /\ DOMAIN value \subseteq nodes

(* What is at the ends of an edge of a forest.                             *)
LEMMA ForestEdge ==
  ASSUME NEW N, NEW E, NEW R, Forest(N, E, R), NEW n, NEW c, NEW m, <<n, c, m>> \in E
  PROVE  n \in N /\ c \in Indexed /\ m \in N
  BY DEF Forest

(* One name leads to a node of a forest. *)
LEMMA ForestOneName ==
  ASSUME NEW N, NEW E, NEW R, Forest(N, E, R), NEW h \in DOMAIN R, NEW t \in DOMAIN R,
         NEW S, NEW w \in Seq(S), NEW v \in Seq(S), NEW n,
         Leads(E, R[h], w, n), Leads(E, R[t], v, n)
  PROVE  h = t /\ w = v
<1>1. First(E, R[h]) /\ First(E, R[t]) /\ OnePlace(E)
  BY DEF Forest
<1>2. R[h] = R[t] /\ w = v
  BY <1>1, OneName
<1> QED BY <1>2 DEF Forest

(* A walk from a node of a forest stays in it and reads what has an index. *)
LEMMA WalkStays ==
  ASSUME NEW N, NEW E, NEW R, Forest(N, E, R), NEW n \in N, NEW w, NEW k \in Nat,
         NEW p \in Walks(E, n, w, k)
  PROVE  /\ \A i \in 0 .. k : p[i] \in N
         /\ \A i \in 1 .. k : w[i] \in Indexed
<1>1. p[0] = n /\ \A i \in 1 .. k : <<p[i - 1], w[i], p[i]>> \in E
  BY DEF Walks
<1>2. ASSUME NEW i \in 1 .. k PROVE p[i] \in N /\ w[i] \in Indexed
  <2>1. <<p[i - 1], w[i], p[i]>> \in E
    BY <1>1
  <2> QED BY <2>1, ForestEdge
<1> QED BY <1>1, <1>2

(* Each node of a walk is where a beginning of the name leads.             *)
LEMMA WalkLeads ==
  ASSUME NEW E, NEW n, NEW w \in Seq(Byte), NEW k \in 0 .. Len(w),
         NEW p \in Walks(E, n, w, k), \A i \in 1 .. k : w[i] \in Indexed,
         NEW i \in 0 .. k
  PROVE  /\ SubSeq(w, 1, i) \in Seq(Indexed)
         /\ Leads(E, n, SubSeq(w, 1, i), p[i])
<1> DEFINE v == SubSeq(w, 1, i)
           q == [j \in 0 .. i |-> p[j]]
<1>1. Len(v) = i /\ \A j \in 1 .. i : v[j] = w[j]
  BY LenProperties
<1>2. v \in Seq(Indexed)
  BY LenProperties
<1>3. q \in Walks(E, n, v, i) /\ q[i] = p[i]
  <2>1. q \in [0 .. i -> Node] /\ q[0] = n
    BY DEF Walks
  <2>2. ASSUME NEW j \in 1 .. i PROVE <<q[j - 1], v[j], q[j]>> \in E
    <3>1. j \in 1 .. k /\ q[j - 1] = p[j - 1] /\ q[j] = p[j] /\ v[j] = w[j]
      BY <1>1
    <3>2. <<p[j - 1], w[j], p[j]>> \in E
      BY <3>1 DEF Walks
    <3> QED BY <3>1, <3>2
  <2> HIDE DEF v, q
  <2>3. q \in Walks(E, n, v, i)
    BY <2>1, <2>2 DEF Walks
  <2> QED BY <2>3 DEF q
<1> HIDE DEF v, q
<1> QED BY <1>1, <1>2, <1>3 DEF Leads, v

-----------------------------------------------------------------------------
(* Insertion: k nodes of the walk at are there, the others up to m new.    *)

Trail(N, E, R, h, w, k, m, at) ==
  /\ h \in DOMAIN R /\ w \in Seq(Byte)
  /\ m \in 0 .. Len(w) /\ k \in 0 .. m
  /\ at \in [0 .. m -> Node] /\ at[0] = R[h]
  /\ \A i \in 1 .. k : <<at[i - 1], w[i], at[i]>> \in E
  /\ \A i \in 1 .. m : w[i] \in Indexed
  /\ \A i \in k + 1 .. m : at[i] \notin N
  /\ \A i, j \in k + 1 .. m : at[i] = at[j] => i = j
  /\ k < m => \A x : <<at[k], w[k + 1], x>> \notin E

(* The edges insertion makes.                                              *)
Made(w, k, m, at) == {<<at[i - 1], w[i], at[i]>> : i \in k + 1 .. m}

(* The nodes of a trail differ, but for the old ones before the last of    *)
(* them.                                                                   *)
LEMMA TrailOld ==
  ASSUME NEW N, NEW E, NEW R, Forest(N, E, R),
         NEW h, NEW w, NEW k, NEW m, NEW at, Trail(N, E, R, h, w, k, m, at)
  PROVE  /\ k \in Nat /\ m \in Nat /\ k <= m /\ m <= Len(w) /\ Len(w) \in Nat
         /\ \A i \in 0 .. k : at[i] \in N
         /\ \A i, j \in k .. m : at[i] = at[j] => i = j
<1>1. k \in Nat /\ m \in Nat /\ k <= m /\ m <= Len(w) /\ Len(w) \in Nat
  BY LenProperties DEF Trail
<1>2. at[0] \in N
  BY DEF Trail, Forest
<1>3. ASSUME NEW i \in 1 .. k PROVE at[i] \in N
  <2>1. <<at[i - 1], w[i], at[i]>> \in E
    BY DEF Trail
  <2> QED BY <2>1, ForestEdge
<1>4. \A i \in 0 .. k : at[i] \in N
  BY <1>1, <1>2, <1>3
<1>5. ASSUME NEW i \in k .. m, NEW j \in k .. m, at[i] = at[j] PROVE i = j
  <2>1. /\ \A x \in k + 1 .. m : at[x] \notin N
        /\ \A x, y \in k + 1 .. m : at[x] = at[y] => x = y
    BY DEF Trail
  <2>2. i = k \/ i \in k + 1 .. m
    BY <1>1
  <2>3. j = k \/ j \in k + 1 .. m
    BY <1>1
  <2>4. at[k] \in N
    BY <1>1, <1>4
  <2> QED BY <1>5, <2>1, <2>2, <2>3, <2>4
<1> QED BY <1>1, <1>4, <1>5

(* Along the trail each beginning of the name leads to its node.           *)
LEMMA TrailLeads ==
  ASSUME NEW N, NEW E, NEW R, Forest(N, E, R),
         NEW h, NEW w, NEW k, NEW m, NEW at, Trail(N, E, R, h, w, k, m, at),
         NEW i \in 0 .. m
  PROVE  /\ SubSeq(w, 1, i) \in Seq(Indexed)
         /\ Leads(E \cup Made(w, k, m, at), R[h], SubSeq(w, 1, i), at[i])
<1> DEFINE F == E \cup Made(w, k, m, at)
<1>1. k \in Nat /\ m \in Nat /\ k <= m /\ m \in 0 .. Len(w) /\ w \in Seq(Byte)
  BY TrailOld DEF Trail
<1>2. ASSUME NEW j \in 1 .. m PROVE <<at[j - 1], w[j], at[j]>> \in F
  <2>1. CASE j \in 1 .. k
    BY <2>1 DEF Trail
  <2>2. CASE j \in k + 1 .. m
    BY <2>2 DEF Made
  <2> QED BY <1>1, <2>1, <2>2
<1>3. at \in [0 .. m -> Node] /\ at[0] = R[h] /\ \A j \in 1 .. m : w[j] \in Indexed
  BY DEF Trail
<1> HIDE DEF F
<1>4. at \in Walks(F, R[h], w, m)
  BY <1>2, <1>3 DEF Walks
<1>5. Leads(F, R[h], SubSeq(w, 1, i), at[i])
  BY <1>1, <1>3, <1>4, WalkLeads
<1>6. SubSeq(w, 1, i) \in Seq(Indexed)
  BY <1>1, <1>3, <1>4, WalkLeads
<1> QED BY <1>5, <1>6 DEF F

(* Each edge that insertion makes is between two nodes of its trail.       *)
LEMMA MadeEdge ==
  ASSUME NEW w, NEW k, NEW m, NEW at, NEW n, NEW c, NEW x,
         <<n, c, x>> \in Made(w, k, m, at)
  PROVE  \E i \in k + 1 .. m : n = at[i - 1] /\ c = w[i] /\ x = at[i]
  BY DEF Made

(* The new nodes hang in the forest: each has one place, at the end of a   *)
(* beginning of the name.                                                  *)
LEMMA InsertForest ==
  ASSUME NEW N, NEW E, NEW R, Forest(N, E, R),
         NEW h, NEW w, NEW k, NEW m, NEW at, Trail(N, E, R, h, w, k, m, at)
  PROVE  Forest(N \cup {at[i] : i \in k + 1 .. m}, E \cup Made(w, k, m, at), R)
<1> DEFINE F == E \cup Made(w, k, m, at)
           M == N \cup {at[i] : i \in k + 1 .. m}
<1>1. /\ k \in Nat /\ m \in Nat /\ k <= m
      /\ \A i \in 0 .. k : at[i] \in N
      /\ \A i, j \in k .. m : at[i] = at[j] => i = j
  BY TrailOld
<1>2. /\ \A i \in 0 .. m : at[i] \in Node
      /\ \A i \in 1 .. m : w[i] \in Indexed
      /\ \A i \in k + 1 .. m : at[i] \notin N
      /\ k < m => \A x : <<at[k], w[k + 1], x>> \notin E
  BY DEF Trail
<1>3. M \in SUBSET Node
  BY <1>1, <1>2 DEF Forest
<1>4. F \subseteq M \X Indexed \X M
  <2>1. ASSUME NEW i \in k + 1 .. m
        PROVE  <<at[i - 1], w[i], at[i]>> \in M \X Indexed \X M
    <3>1. at[i] \in M /\ w[i] \in Indexed
      BY <1>1, <1>2
    <3>2. at[i - 1] \in M
      BY <1>1
    <3> QED BY <3>1, <3>2
  <2>2. E \subseteq M \X Indexed \X M
    BY DEF Forest
  <2> QED BY <2>1, <2>2 DEF Made
<1>5. OneSon(F)
  <2> SUFFICES ASSUME NEW n, NEW c, NEW x, NEW y,
                      <<n, c, x>> \in F, <<n, c, y>> \in F
               PROVE  x = y
    BY DEF OneSon
  <2>1. ASSUME NEW i \in k + 1 .. m, n = at[i - 1], c = w[i], NEW z, <<n, c, z>> \in E
        PROVE  FALSE
    <3>1. n \in N
      BY <2>1, ForestEdge
    <3>2. i - 1 = k
      BY <1>1, <1>2, <2>1, <3>1
    <3>3. i = k + 1 /\ k < m
      BY <1>1, <3>2
    <3> QED BY <1>2, <2>1, <3>2, <3>3
  <2>2. CASE <<n, c, x>> \in E /\ <<n, c, y>> \in E
    BY <2>2 DEF Forest, OneSon
  <2>3. CASE <<n, c, x>> \in Made(w, k, m, at) /\ <<n, c, y>> \in Made(w, k, m, at)
    <3>1. PICK i \in k + 1 .. m : n = at[i - 1] /\ x = at[i]
      BY <2>3, MadeEdge
    <3>2. PICK j \in k + 1 .. m : n = at[j - 1] /\ y = at[j]
      BY <2>3, MadeEdge
    <3>3. i - 1 \in k .. m /\ j - 1 \in k .. m
      BY <1>1
    <3>4. i - 1 = j - 1
      BY <1>1, <3>1, <3>2, <3>3
    <3>5. i = j
      BY <1>1, <3>4
    <3> QED BY <3>1, <3>2, <3>5
  <2>4. CASE <<n, c, x>> \in Made(w, k, m, at) /\ <<n, c, y>> \in E
    BY <2>1, <2>4, MadeEdge
  <2>5. CASE <<n, c, y>> \in Made(w, k, m, at) /\ <<n, c, x>> \in E
    BY <2>1, <2>5, MadeEdge
  <2> QED BY <2>2, <2>3, <2>4, <2>5
<1>6. OnePlace(F)
  <2> SUFFICES ASSUME NEW n, NEW c, NEW o, NEW d, NEW x,
                      <<n, c, x>> \in F, <<o, d, x>> \in F
               PROVE  n = o /\ c = d
    BY DEF OnePlace
  <2>1. CASE <<n, c, x>> \in E /\ <<o, d, x>> \in E
    BY <2>1 DEF Forest, OnePlace
  <2>2. CASE <<n, c, x>> \in Made(w, k, m, at) /\ <<o, d, x>> \in Made(w, k, m, at)
    <3>1. PICK i \in k + 1 .. m : n = at[i - 1] /\ c = w[i] /\ x = at[i]
      BY <2>2, MadeEdge
    <3>2. PICK j \in k + 1 .. m : o = at[j - 1] /\ d = w[j] /\ x = at[j]
      BY <2>2, MadeEdge
    <3>3. i \in k .. m /\ j \in k .. m
      BY <1>1
    <3>4. i = j
      BY <1>1, <3>1, <3>2, <3>3
    <3> QED BY <3>1, <3>2, <3>4
  <2>3. ASSUME NEW a, NEW b, <<a, b, x>> \in Made(w, k, m, at) PROVE x \notin N
    BY <1>2, <2>3, MadeEdge
  <2>4. ASSUME NEW a, NEW b, <<a, b, x>> \in E PROVE x \in N
    BY <2>4, ForestEdge
  <2> QED BY <2>1, <2>2, <2>3, <2>4
<1>7. ASSUME NEW t \in DOMAIN R PROVE R[t] \in M /\ First(F, R[t])
  <2>1. R[t] \in N /\ First(E, R[t])
    BY DEF Forest
  <2>2. ASSUME NEW n, NEW c, <<n, c, R[t]>> \in Made(w, k, m, at) PROVE FALSE
    <3>1. PICK i \in k + 1 .. m : R[t] = at[i]
      BY <2>2, MadeEdge
    <3> QED BY <1>2, <2>1, <3>1
  <2> QED BY <2>1, <2>2 DEF First
<1>8. Reached(M, F, R)
  <2> SUFFICES ASSUME NEW n \in M
               PROVE  \E t \in DOMAIN R, v \in Seq(Indexed) : Leads(F, R[t], v, n)
    BY DEF Reached
  <2>1. CASE n \in N
    <3>1. PICK t \in DOMAIN R, v \in Seq(Indexed) : Leads(E, R[t], v, n)
      BY <2>1 DEF Forest, Reached
    <3> QED BY <3>1, LeadsMore
  <2>2. CASE n \notin N
    <3>1. PICK i \in k + 1 .. m : n = at[i]
      BY <2>2
    <3>2. i \in 0 .. m
      BY <1>1
    <3>3. SubSeq(w, 1, i) \in Seq(Indexed) /\ Leads(F, R[h], SubSeq(w, 1, i), at[i])
      BY <3>2, TrailLeads
    <3>4. h \in DOMAIN R
      BY DEF Trail
    <3> QED BY <3>1, <3>3, <3>4
  <2> QED BY <2>1, <2>2
<1> HIDE DEF F, M
<1>9. \A t, u \in DOMAIN R : R[t] = R[u] => t = u
  BY DEF Forest
<1>10. Forest(M, F, R)
  BY <1>3, <1>4, <1>5, <1>6, <1>7, <1>8, <1>9 DEF Forest
<1> QED BY <1>10 DEF F, M

-----------------------------------------------------------------------------
(* New edges to new nodes: where old nodes are reached from stays as it    *)
(* was, and so do the entries of a trie none of whose names leads to a new *)
(* value.                                                                  *)

Extends(N, E, F) ==
  E \subseteq F /\ \A n, c, m : <<n, c, m>> \in F /\ m \in N => <<n, c, m>> \in E

(* A name leads to an old node by the old edges, or not at all.            *)
LEMMA OldEnds ==
  ASSUME NEW N, NEW E, NEW R, Forest(N, E, R), NEW F, Extends(N, E, F),
         NEW r, NEW w \in Seq(Indexed), NEW x \in N
  PROVE  Leads(F, r, w, x) <=> Leads(E, r, w, x)
<1>1. Leads(E, r, w, x) => Leads(F, r, w, x)
  BY LeadsMore DEF Extends
<1>2. ASSUME Leads(F, r, w, x) PROVE Leads(E, r, w, x)
  <2>1. N \in SUBSET Node
    BY DEF Forest
  <2>2. \A n, c, m : <<n, c, m>> \in F /\ m \in N => <<n, c, m>> \in E /\ n \in N
    BY ForestEdge DEF Extends
  <2> QED BY <1>2, <2>1, <2>2, OldWay
<1> QED BY <1>1, <1>2

(* The entries of a trie stay, whatever else was added, if its names lead  *)
(* to no other value.                                                      *)
LEMMA KeepsEntries ==
  ASSUME NEW N, NEW E, NEW R, Forest(N, E, R), NEW F, Extends(N, E, F), OneSon(F),
         NEW V, DOMAIN V \subseteq N, NEW U, DOMAIN V \subseteq DOMAIN U, NEW r,
         \A w \in Key : \A x \in DOMAIN U : Leads(F, r, w, x) =>
           x \in DOMAIN V /\ U[x] = V[x]
  PROVE  Entries(F, U, r) = Entries(E, V, r)
<1> DEFINE M == Entries(E, V, r)
<1>1. OneSon(E)
  BY DEF Forest
<1>2. M = [w \in DOMAIN M |-> M[w]]
  BY Zenon DEF Entries
<1>3. ASSUME NEW w \in DOMAIN M
      PROVE  /\ w \in Key
             /\ \E n \in DOMAIN U : Leads(F, r, w, n) /\ M[w] = U[n]
  <2>1. w \in Key /\ \E n \in DOMAIN V : Leads(E, r, w, n) /\ M[w] = V[n]
    BY <1>1, EntryFrom
  <2>2. PICK n \in DOMAIN V : Leads(E, r, w, n) /\ M[w] = V[n]
    BY <2>1
  <2>3. Leads(F, r, w, n) /\ n \in DOMAIN U
    BY <2>2, LeadsMore DEF Extends
  <2>4. U[n] = V[n]
    BY <2>1, <2>3
  <2> QED BY <2>1, <2>2, <2>3, <2>4
<1>4. ASSUME NEW w \in Key, NEW n \in DOMAIN U, Leads(F, r, w, n)
      PROVE  w \in DOMAIN M
  <2>1. n \in DOMAIN V
    BY <1>4
  <2>2. Leads(E, r, w, n)
    BY <1>4, <2>1, OldEnds, KeyIndexed
  <2> QED BY <1>1, <2>1, <2>2, EntryAt
<1> HIDE DEF M
<1> QED BY <1>2, <1>3, <1>4, EntriesAre DEF M

(* Insertion adds no edge to an old node.                                  *)
LEMMA InsertExtends ==
  ASSUME NEW N, NEW E, NEW R, Forest(N, E, R),
         NEW h, NEW w, NEW k, NEW m, NEW at, Trail(N, E, R, h, w, k, m, at)
  PROVE  Extends(N, E, E \cup Made(w, k, m, at))
<1>1. ASSUME NEW n, NEW c, NEW x, <<n, c, x>> \in Made(w, k, m, at)
      PROVE  x \notin N
  BY <1>1, MadeEdge DEF Trail
<1> QED BY <1>1 DEF Extends

(* An insertion that ends early changes the entries of no trie.            *)
LEMMA InsertRefused ==
  ASSUME NEW N, NEW E, NEW R, Forest(N, E, R), NEW V, DOMAIN V \subseteq N,
         NEW h, NEW w, NEW k, NEW m, NEW at, Trail(N, E, R, h, w, k, m, at), NEW r
  PROVE  Entries(E \cup Made(w, k, m, at), V, r) = Entries(E, V, r)
<1>1. OneSon(E \cup Made(w, k, m, at))
  BY InsertForest DEF Forest
<1> QED BY <1>1, InsertExtends, KeepsEntries

(* Of the entries of all tries, only that of w in the one of h is set.     *)
SetsOnly(F, U, E, V, R, h, w, d) ==
  /\ w \in Key
  /\ Entries(F, U, R[h]) = With(Entries(E, V, R[h]), w, d)
  /\ \A t \in DOMAIN R : t # h => Entries(F, U, R[t]) = Entries(E, V, R[t])

(* One that comes to its end sets the value of its name in its trie, and   *)
(* nothing else.                                                           *)
LEMMA InsertDone ==
  ASSUME NEW N, NEW E, NEW R, Forest(N, E, R), NEW V, DOMAIN V \subseteq N,
         NEW h, NEW w \in Names, NEW k, NEW m, NEW at, Trail(N, E, R, h, w, k, m, at),
         m = Len(w), NEW d
  PROVE  SetsOnly(E \cup Made(w, k, m, at), With(V, at[m], d), E, V, R, h, w, d)
<1> DEFINE F == E \cup Made(w, k, m, at)
           U == With(V, at[m], d)
           N2 == N \cup {at[i] : i \in k + 1 .. m}
<1>1. m \in 0 .. m /\ w \in Seq(Byte) /\ h \in DOMAIN R
  BY TrailOld DEF Trail
<1>2. SubSeq(w, 1, m) = w
  BY <1>1, LenProperties
<1>3. w \in Seq(Indexed) /\ Leads(F, R[h], w, at[m])
  <2>1. /\ SubSeq(w, 1, m) \in Seq(Indexed)
        /\ Leads(F, R[h], SubSeq(w, 1, m), at[m])
    BY <1>1, TrailLeads, Zenon
  <2> QED BY <1>2, <2>1, Zenon
<1>4. w \in Key
  BY <1>3 DEF Key
<1>5. Forest(N2, F, R) /\ Extends(N, E, F)
  BY InsertForest, InsertExtends
<1>6. OneSon(F) /\ OneSon(E)
  BY <1>5 DEF Forest
<1>7. DOMAIN U = DOMAIN V \cup {at[m]} /\ \A x \in DOMAIN U : U[x] = IF x = at[m] THEN d ELSE V[x]
  BY DEF With
<1>8. ASSUME NEW u \in DOMAIN R, NEW v \in Seq(Indexed), Leads(F, R[u], v, at[m])
      PROVE  u = h /\ v = w
  BY <1>1, <1>3, <1>5, <1>8, ForestOneName
<1> HIDE DEF F, U, N2
<1>9. ASSUME NEW t \in DOMAIN R, t # h
      PROVE  Entries(F, U, R[t]) = Entries(E, V, R[t])
  <2>1. \A v \in Key : \A x \in DOMAIN U : Leads(F, R[t], v, x) =>
          x \in DOMAIN V /\ U[x] = V[x]
    BY <1>7, <1>8, <1>9, KeyIndexed
  <2> QED BY <1>5, <1>6, <1>7, <2>1, KeepsEntries
<1>10. Entries(F, U, R[h]) = With(Entries(E, V, R[h]), w, d)
  <2> DEFINE D == Entries(E, V, R[h])
             M == With(D, w, d)
  <2>1. /\ M = [v \in DOMAIN M |-> M[v]]
        /\ DOMAIN M = DOMAIN D \cup {w}
        /\ M[w] = d
        /\ \A v \in DOMAIN D : v # w => M[v] = D[v]
    BY Zenon DEF With
  <2> HIDE DEF M, D
  <2>2. ASSUME NEW v \in DOMAIN M
        PROVE  /\ v \in Key
               /\ \E n \in DOMAIN U : Leads(F, R[h], v, n) /\ M[v] = U[n]
    <3>1. CASE v = w
      <4>1. at[m] \in DOMAIN U /\ U[at[m]] = d
        BY <1>7
      <4> QED BY <1>3, <1>4, <2>1, <3>1, <4>1
    <3>2. CASE v # w
      <4>1. v \in Key /\ \E n \in DOMAIN V : Leads(E, R[h], v, n) /\ D[v] = V[n]
        BY <1>6, <2>1, <3>2, EntryFrom DEF D
      <4>2. PICK n \in DOMAIN V : Leads(E, R[h], v, n) /\ D[v] = V[n]
        BY <4>1
      <4>3. Leads(F, R[h], v, n)
        BY <1>5, <4>2, LeadsMore DEF Extends
      <4>4. n # at[m]
        BY <1>1, <1>8, <3>2, <4>1, <4>3, KeyIndexed
      <4>5. n \in DOMAIN U /\ U[n] = V[n]
        BY <1>7, <4>4
      <4> QED BY <2>1, <3>2, <4>1, <4>2, <4>3, <4>5
    <3> QED BY <3>1, <3>2
  <2>3. ASSUME NEW v \in Key, NEW n \in DOMAIN U, Leads(F, R[h], v, n)
        PROVE  v \in DOMAIN M
    <3>1. CASE n = at[m]
      BY <1>1, <1>8, <2>1, <2>3, <3>1, KeyIndexed
    <3>2. CASE n # at[m]
      <4>1. n \in DOMAIN V
        BY <1>7, <3>2
      <4>2. Leads(E, R[h], v, n)
        BY <1>5, <2>3, <4>1, OldEnds, KeyIndexed
      <4>3. v \in DOMAIN D
        BY <1>6, <4>1, <4>2, EntryAt DEF D
      <4> QED BY <2>1, <4>3
    <3> QED BY <3>1, <3>2
  <2>4. Entries(F, U, R[h]) = M
    BY <1>6, <2>1, <2>2, <2>3, EntriesAre
  <2> QED BY <2>4 DEF M, D
<1>11. SetsOnly(F, U, E, V, R, h, w, d)
  BY <1>4, <1>9, <1>10, Zenon DEF SetsOnly
<1> QED BY <1>11, Zenon DEF F, U

(* The entries of all tries. *)
MapOf(E, V, R) == [h \in DOMAIN R |-> Entries(E, V, R[h])]

(* The empty name leads to the first node.                                 *)
LEMMA EmptyNameLeads ==
  ASSUME NEW E, NEW n \in Node
  PROVE  <<>> \in Seq(Indexed) /\ Leads(E, n, <<>>, n)
  BY LeadsEmpty, EmptySeq

(* A new first node.                                                       *)
LEMMA CreateForest ==
  ASSUME NEW N, NEW E, NEW R, Forest(N, E, R), NEW h, h \notin DOMAIN R,
         NEW n \in Node \ N
  PROVE  Forest(N \cup {n}, E, With(R, h, n))
<1> DEFINE Q == With(R, h, n)
           M == N \cup {n}
<1>1. /\ DOMAIN Q = DOMAIN R \cup {h} /\ Q[h] = n
      /\ \A t \in DOMAIN R : Q[t] = R[t]
  BY Zenon DEF With
<1> HIDE DEF Q
<1>2. M \in SUBSET Node /\ E \subseteq M \X Indexed \X M /\ OneSon(E) /\ OnePlace(E)
  BY DEF Forest
<1>3. First(E, n)
  BY ForestEdge DEF First
<1>4. ASSUME NEW t \in DOMAIN Q PROVE Q[t] \in M /\ First(E, Q[t])
  <2>1. CASE t = h
    BY <1>1, <1>3, <2>1
  <2>2. CASE t \in DOMAIN R
    BY <1>1, <2>2 DEF Forest
  <2> QED BY <1>1, <2>1, <2>2
<1>5. ASSUME NEW t \in DOMAIN Q, NEW u \in DOMAIN Q, Q[t] = Q[u] PROVE t = u
  <2>1. \A v \in DOMAIN R : R[v] \in N
    BY DEF Forest
  <2>2. \A v, x \in DOMAIN R : R[v] = R[x] => v = x
    BY DEF Forest
  <2> QED BY <1>1, <1>5, <2>1, <2>2
<1>6. Reached(M, E, Q)
  <2> SUFFICES ASSUME NEW x \in M
               PROVE  \E t \in DOMAIN Q, w \in Seq(Indexed) : Leads(E, Q[t], w, x)
    BY DEF Reached
  <2>1. CASE x \in N
    <3>1. PICK t \in DOMAIN R, w \in Seq(Indexed) : Leads(E, R[t], w, x)
      BY <2>1 DEF Forest, Reached
    <3> QED BY <1>1, <3>1
  <2>2. CASE x = n
    BY <1>1, <2>2, EmptyNameLeads
  <2> QED BY <2>1, <2>2
<1> HIDE DEF M
<1> QED BY <1>2, <1>4, <1>5, <1>6 DEF Forest, Q, M

(* A new trie has no entries: each node with a value is in another one.    *)
LEMMA CreateEmpty ==
  ASSUME NEW N, NEW E, NEW R, Forest(N, E, R), NEW V, DOMAIN V \subseteq N,
         NEW h, h \notin DOMAIN R, NEW n \in Node \ N
  PROVE  Entries(E, V, n) = <<>>
<1> DEFINE Q == With(R, h, n)
<1>1. /\ DOMAIN Q = DOMAIN R \cup {h} /\ Q[h] = n
      /\ \A t \in DOMAIN R : Q[t] = R[t]
  BY Zenon DEF With
<1>2. Forest(N \cup {n}, E, Q)
  BY CreateForest, Zenon
<1> HIDE DEF Q
<1>3. ASSUME NEW w \in Key, NEW x \in DOMAIN V, Leads(E, n, w, x)
      PROVE  FALSE
  <2>1. PICK t \in DOMAIN R, v \in Seq(Indexed) : Leads(E, R[t], v, x)
    BY DEF Forest, Reached
  <2>2. t = h
    BY <1>1, <1>2, <1>3, <2>1, ForestOneName, KeyIndexed
  <2> QED BY <2>2
<1>4. OneSon(E)
  BY DEF Forest
<1>5. DOMAIN <<>> = {} /\ <<>> = [w \in DOMAIN <<>> |-> <<>>[w]]
  OBVIOUS
<1> QED BY <1>3, <1>4, <1>5, EntriesAre

(* Creation: a forest again, and a map without entries.                    *)
LEMMA CreateStep ==
  ASSUME TrieInv, NEW h \in Holder, TrieCreate(h)
  PROVE  TrieInv' /\ Map!Create(h)
<1>1. /\ h \notin DOMAIN root
      /\ edges' = edges /\ value' = value /\ answer' = answer /\ out' = out
  BY Zenon DEF TrieCreate
<1>2. PICK n \in Node \ nodes : nodes' = nodes \cup {n} /\ root' = With(root, h, n)
  BY Zenon DEF TrieCreate
<1>3. /\ Forest(nodes, edges, root) /\ DOMAIN root \subseteq Holder
      /\ value = [x \in DOMAIN value |-> value[x]] /\ DOMAIN value \subseteq nodes
  BY DEF TrieInv
<1>4. Forest(nodes', edges', root')
  BY <1>1, <1>2, <1>3, CreateForest
<1>5. /\ root' = [t \in DOMAIN root' |-> root'[t]]
      /\ DOMAIN root' = DOMAIN root \cup {h} /\ root'[h] = n
      /\ \A t \in DOMAIN root : root'[t] = root[t]
  BY <1>1, <1>2, Zenon DEF With
<1>6. TrieInv'
  BY <1>1, <1>2, <1>3, <1>4, <1>5 DEF TrieInv
<1> DEFINE A == MapOf(edges, value, root)
           B == MapOf(edges', value', root')
<1>7. Entries(edges, value, n) = <<>>
  BY <1>1, <1>3, CreateEmpty
<1>8. B = With(A, h, <<>>)
  <2> DEFINE C == With(A, h, <<>>)
  <2>1. /\ B = [t \in DOMAIN B |-> B[t]] /\ C = [t \in DOMAIN C |-> C[t]]
        /\ DOMAIN C = DOMAIN root \cup {h} /\ DOMAIN B = DOMAIN root'
        /\ C[h] = <<>> /\ \A t \in DOMAIN root : t # h => C[t] = Entries(edges, value, root[t])
        /\ \A t \in DOMAIN root' : B[t] = Entries(edges', value', root'[t])
    BY Zenon DEF With, MapOf
  <2> HIDE DEF B, C
  <2>2. ASSUME NEW t \in DOMAIN B PROVE B[t] = C[t]
    BY <1>1, <1>5, <1>7, <2>1
  <2> QED BY <1>5, <2>1, <2>2, Zenon DEF C
<1>9. h \notin DOMAIN A
  BY <1>1, Zenon DEF MapOf
<1> QED BY <1>1, <1>6, <1>8, <1>9, Zenon DEF Map!Create, Map!With, With, MapOf

(* What an insertion may do, in one description of its way. *)
LEMMA InsertTrail ==
  ASSUME TrieInv, NEW h \in Holder, NEW w \in Seq(Byte), NEW d, TrieInsert(h, w, d)
  PROVE  \E m, k, at :
           /\ Trail(nodes, edges, root, h, w, k, m, at)
           /\ nodes' = nodes \cup {at[i] : i \in k + 1 .. m}
           /\ edges' = edges \cup Made(w, k, m, at)
           /\ m < Len(w) => w[m + 1] \notin Indexed
           /\ IF m = Len(w)
              THEN value' = With(value, at[m], d) /\ answer' = "success"
              ELSE value' = value /\ answer' = "invalid_charset"
<1>1. h \in DOMAIN root /\ Forest(nodes, edges, root)
  BY Zenon DEF TrieInsert, TrieInv
<1> DEFINE Does(m, k, p, new) ==
      LET at(i) == IF i <= k THEN p[i] ELSE new[i]
      IN /\ ReadUpTo(w, m)
         /\ k < m => ~ HasSon(p[k], w[k + 1])
         /\ \A i, j \in k + 1 .. m : new[i] = new[j] => i = j
         /\ nodes' = nodes \cup {new[i] : i \in k + 1 .. m}
         /\ edges' = edges \cup {<<at(i - 1), w[i], at(i)>> : i \in k + 1 .. m}
         /\ IF m = Len(w)
            THEN value' = With(value, at(m), d) /\ answer' = "success"
            ELSE value' = value /\ answer' = "invalid_charset"
<1>2. PICK m \in 0 .. Len(w) : \E k \in 0 .. m :
        \E p \in Walks(edges, root[h], w, k), new \in [k + 1 .. m -> Node \ nodes] :
          Does(m, k, p, new)
  BY Zenon DEF TrieInsert
<1>3. PICK k \in 0 .. m :
        \E p \in Walks(edges, root[h], w, k), new \in [k + 1 .. m -> Node \ nodes] :
          Does(m, k, p, new)
  BY <1>2, Zenon
<1>4. PICK p \in Walks(edges, root[h], w, k), new \in [k + 1 .. m -> Node \ nodes] :
        Does(m, k, p, new)
  BY <1>3, Zenon
<1> DEFINE a(i) == IF i <= k THEN p[i] ELSE new[i]
           at == [i \in 0 .. m |-> a(i)]
<1>5. /\ ReadUpTo(w, m)
      /\ k < m => ~ HasSon(p[k], w[k + 1])
      /\ \A i, j \in k + 1 .. m : new[i] = new[j] => i = j
      /\ nodes' = nodes \cup {new[i] : i \in k + 1 .. m}
      /\ edges' = edges \cup {<<a(i - 1), w[i], a(i)>> : i \in k + 1 .. m}
      /\ IF m = Len(w)
         THEN value' = With(value, a(m), d) /\ answer' = "success"
         ELSE value' = value /\ answer' = "invalid_charset"
  BY <1>4, Zenon
<1>6. /\ Len(w) \in Nat /\ m \in Nat /\ k \in Nat /\ k <= m /\ m <= Len(w)
      /\ k \in 0 .. m /\ m \in 0 .. Len(w) /\ m \in 0 .. m
  BY LenProperties
<1>7. \A i \in 0 .. k : at[i] = p[i]
  BY <1>6
<1>8. \A i \in k + 1 .. m : at[i] = new[i]
  BY <1>6
<1>9. \A i \in 0 .. m : at[i] = a(i)
  OBVIOUS
<1>10. DOMAIN at = 0 .. m /\ at = [i \in 0 .. m |-> at[i]]
  OBVIOUS
<1>11. \A i \in k + 1 .. m : new[i] \in Node /\ new[i] \notin nodes
  OBVIOUS
<1>12. root[h] \in nodes /\ nodes \in SUBSET Node
  BY <1>1 DEF Forest
<1>13. /\ \A i \in 0 .. k : p[i] \in nodes
       /\ \A i \in 1 .. k : w[i] \in Indexed
  BY <1>1, <1>6, <1>12, WalkStays
<1>14. p[0] = root[h] /\ \A i \in 1 .. k : <<p[i - 1], w[i], p[i]>> \in edges
  BY DEF Walks
<1> HIDE DEF at, a
<1>15. Trail(nodes, edges, root, h, w, k, m, at)
  <2>1. at \in [0 .. m -> Node] /\ at[0] = root[h]
    <3>1. ASSUME NEW i \in 0 .. m PROVE at[i] \in Node
      <4>1. CASE i \in 0 .. k
        BY <1>7, <1>12, <1>13, <4>1
      <4>2. CASE i \in k + 1 .. m
        BY <1>8, <1>11, <4>2
      <4> QED BY <1>6, <4>1, <4>2
    <3>2. at[0] = root[h]
      BY <1>6, <1>7, <1>14
    <3> QED BY <1>10, <3>1, <3>2, Zenon
  <2>2. \A i \in 1 .. k : <<at[i - 1], w[i], at[i]>> \in edges
    <3> SUFFICES ASSUME NEW i \in 1 .. k PROVE <<at[i - 1], w[i], at[i]>> \in edges
      OBVIOUS
    <3>1. at[i] = p[i] /\ at[i - 1] = p[i - 1]
      BY <1>6, <1>7
    <3> QED BY <1>14, <3>1
  <2>3. \A i \in 1 .. m : w[i] \in Indexed
    BY <1>5, Zenon DEF ReadUpTo
  <2>4. \A i \in k + 1 .. m : at[i] \notin nodes
    BY <1>8, <1>11
  <2>5. \A i, j \in k + 1 .. m : at[i] = at[j] => i = j
    BY <1>5, <1>8
  <2>6. k < m => \A x : <<at[k], w[k + 1], x>> \notin edges
    <3> SUFFICES ASSUME k < m, NEW x, <<at[k], w[k + 1], x>> \in edges PROVE FALSE
      OBVIOUS
    <3>1. x \in nodes
      BY <1>1, ForestEdge
    <3>2. at[k] = p[k] /\ ~ HasSon(p[k], w[k + 1])
      BY <1>5, <1>6, <1>7
    <3> QED BY <3>1, <3>2 DEF HasSon
  <2> QED BY <1>1, <1>6, <2>1, <2>2, <2>3, <2>4, <2>5, <2>6, Zenon DEF Trail
<1>16. nodes' = nodes \cup {at[i] : i \in k + 1 .. m}
  BY <1>5, <1>8
<1>17. edges' = edges \cup Made(w, k, m, at)
  <2>1. ASSUME NEW i \in k + 1 .. m PROVE at[i - 1] = a(i - 1) /\ at[i] = a(i)
    <3>1. i \in 0 .. m /\ i - 1 \in 0 .. m
      BY <1>6
    <3> QED BY <1>9, <3>1
  <2>2. Made(w, k, m, at) = {<<a(i - 1), w[i], a(i)>> : i \in k + 1 .. m}
    BY <2>1 DEF Made
  <2> QED BY <1>5, <2>2
<1>18. at[m] = a(m)
  BY <1>6, <1>9
<1>19. m < Len(w) => w[m + 1] \notin Indexed
  BY <1>5, Zenon DEF ReadUpTo
<1>20. IF m = Len(w)
       THEN value' = With(value, at[m], d) /\ answer' = "success"
       ELSE value' = value /\ answer' = "invalid_charset"
  BY <1>5, <1>18, Zenon
<1> QED BY <1>15, <1>16, <1>17, <1>19, <1>20, Zenon

(* Insertion: a forest again, and in the map of its trie the name has the  *)
(* value, or nothing has changed.                                          *)
LEMMA InsertStep ==
  ASSUME TrieInv, NEW h \in Holder, NEW w \in Names, w \in Seq(Byte), NEW d,
         TrieInsert(h, w, d)
  PROVE  TrieInv' /\ Map!Insert(h, w, d)
<1>1. h \in DOMAIN root /\ root' = root /\ out' = out
  BY Zenon DEF TrieInsert
<1>2. /\ Forest(nodes, edges, root) /\ DOMAIN root \subseteq Holder
      /\ root = [t \in DOMAIN root |-> root[t]]
      /\ value = [x \in DOMAIN value |-> value[x]] /\ DOMAIN value \subseteq nodes
  BY DEF TrieInv
<1>3. PICK m, k, at :
        /\ Trail(nodes, edges, root, h, w, k, m, at)
        /\ nodes' = nodes \cup {at[i] : i \in k + 1 .. m}
        /\ edges' = edges \cup Made(w, k, m, at)
        /\ m < Len(w) => w[m + 1] \notin Indexed
        /\ IF m = Len(w)
           THEN value' = With(value, at[m], d) /\ answer' = "success"
           ELSE value' = value /\ answer' = "invalid_charset"
  BY InsertTrail, Zenon
<1>4. Trail(nodes, edges, root, h, w, k, m, at)
  BY <1>3, Zenon
<1>5. Forest(nodes, edges, root) /\ DOMAIN value \subseteq nodes
  BY <1>2
<1>6. Forest(nodes', edges', root')
  <2>1. Forest(nodes \cup {at[i] : i \in k + 1 .. m}, edges \cup Made(w, k, m, at), root)
    BY <1>2, <1>4, InsertForest
  <2> QED BY <1>1, <1>3, <2>1, Zenon
<1>7. /\ k \in Nat /\ m \in Nat /\ k <= m /\ m <= Len(w) /\ Len(w) \in Nat
      /\ \A i \in 0 .. k : at[i] \in nodes
  BY <1>2, <1>4, TrailOld
<1> DEFINE A == MapOf(edges, value, root)
           B == MapOf(edges', value', root')
<1>8. /\ DOMAIN A = DOMAIN root /\ A = [t \in DOMAIN A |-> A[t]]
      /\ DOMAIN B = DOMAIN root /\ B = [t \in DOMAIN B |-> B[t]]
      /\ \A t \in DOMAIN root : A[t] = Entries(edges, value, root[t])
      /\ \A t \in DOMAIN root : B[t] = Entries(edges', value', root[t])
  BY <1>1, Zenon DEF MapOf
<1> HIDE DEF A, B
<1>9. CASE m = Len(w)
  <2>1. value' = With(value, at[m], d) /\ answer' = "success"
    BY <1>3, <1>9, Zenon
  <2>2. /\ value' = [x \in DOMAIN value' |-> value'[x]]
        /\ DOMAIN value' = DOMAIN value \cup {at[m]}
    BY <2>1, Zenon DEF With
  <2>3. at[m] \in nodes'
    <3>1. CASE m = k
      BY <1>3, <1>7, <3>1
    <3>2. CASE m # k
      <4>1. m \in k + 1 .. m
        BY <1>7, <3>2
      <4> QED BY <1>3, <4>1
    <3> QED BY <3>1, <3>2
  <2>4. TrieInv'
    <3>1. DOMAIN value' \subseteq nodes'
      BY <1>2, <1>3, <2>2, <2>3
    <3> QED BY <1>1, <1>2, <1>6, <2>2, <3>1 DEF TrieInv
  <2>5. /\ w \in Seq(Indexed)
        /\ B[h] = With(A[h], w, d)
        /\ \A t \in DOMAIN root : t # h => B[t] = A[t]
    <3>1. SetsOnly(edges \cup Made(w, k, m, at), With(value, at[m], d),
                   edges, value, root, h, w, d)
      BY <1>9, <1>4, <1>5, InsertDone
    <3>2. SetsOnly(edges', value', edges, value, root, h, w, d)
      BY <1>3, <2>1, <3>1, Zenon
    <3> QED BY <1>1, <1>8, <3>2, KeyIndexed, Zenon DEF SetsOnly
  <2>7. B = With(A, h, With(A[h], w, d))
    <3> DEFINE C == With(A, h, With(A[h], w, d))
    <3>1. /\ C = [t \in DOMAIN C |-> C[t]]
          /\ DOMAIN C = DOMAIN A \cup {h}
          /\ \A t \in DOMAIN C : C[t] = IF t = h THEN With(A[h], w, d) ELSE A[t]
      BY Zenon DEF With
    <3> HIDE DEF C
    <3>2. DOMAIN C = DOMAIN root
      BY <1>1, <1>8, <3>1
    <3>3. \A t \in DOMAIN root : B[t] = C[t]
      BY <2>5, <3>1, <3>2, Zenon
    <3> QED BY <1>8, <3>1, <3>2, <3>3, Zenon DEF C
  <2> QED BY <1>1, <1>8, <2>1, <2>4, <2>5, <2>7, Zenon
          DEF A, B, Map!Insert, Map!With, With, MapOf
<1>10. CASE m # Len(w)
  <2>1. value' = value /\ answer' = "invalid_charset"
    BY <1>3, <1>10, Zenon
  <2>2. m + 1 \in 1 .. Len(w) /\ w[m + 1] \notin Indexed
    BY <1>3, <1>7, <1>10
  <2>3. w \notin Seq(Indexed)
    BY <2>2, ElementOfSeq
  <2>4. TrieInv'
    <3>1. DOMAIN value \subseteq nodes'
      BY <1>2, <1>3
    <3> QED BY <1>1, <1>2, <1>6, <2>1, <3>1 DEF TrieInv
  <2>5. ASSUME NEW t \in DOMAIN root PROVE B[t] = A[t]
    <3>1. Entries(edges \cup Made(w, k, m, at), value, root[t])
            = Entries(edges, value, root[t])
      BY <1>2, <1>4, InsertRefused
    <3> QED BY <1>3, <1>8, <2>1, <3>1, Zenon
  <2>6. B = A
    BY <1>8, <2>5, Zenon
  <2> QED BY <1>1, <1>8, <2>1, <2>3, <2>4, <2>6, Zenon
          DEF A, B, Map!Insert, MapOf
<1> QED BY <1>9, <1>10

(* The walk of a name, from its end.                                       *)
LEMMA NameWalk ==
  ASSUME NEW E, OneSon(E), NEW r, NEW w \in Seq(Byte), NEW n, Leads(E, r, w, n),
         \A i \in 1 .. Len(w) : w[i] \in Indexed,
         NEW k \in 0 .. Len(w), NEW p \in Walks(E, r, w, k)
  PROVE  /\ k = Len(w) => n = p[k]
         /\ k < Len(w) => \E m : <<p[k], w[k + 1], m>> \in E
<1>1. PICK q \in Walks(E, r, w, Len(w)) : q[Len(w)] = n
  BY DEF Leads
<1>2. Len(w) \in Nat /\ Len(w) \in 0 .. Len(w) /\ k \in 0 .. k
  BY LenProperties
<1>3. ASSUME NEW l \in 0 .. Len(w), k \in 0 .. l, NEW x \in Walks(E, r, w, l)
      PROVE  SubSeq(w, 1, k) \in Seq(Indexed) /\ Leads(E, r, SubSeq(w, 1, k), x[k])
  <2>1. \A i \in 1 .. l : w[i] \in Indexed
    BY <1>2
  <2> HIDE <1>2
  <2> QED BY <1>3, <2>1, WalkLeads, ZenonT(60)
<1> DEFINE v == SubSeq(w, 1, k)
<1>4. v \in Seq(Indexed) /\ Leads(E, r, v, q[k]) /\ Leads(E, r, v, p[k])
  <2>1. k \in 0 .. Len(w)
    OBVIOUS
  <2> QED BY <1>2, <1>3, <2>1, Zenon
<1> HIDE DEF v
<1>5. q[k] = p[k]
  BY <1>4, OneEnd
<1>6. ASSUME k < Len(w) PROVE <<q[k], w[k + 1], q[k + 1]>> \in E
  <2>1. k + 1 \in 1 .. Len(w) /\ (k + 1) - 1 = k
    BY <1>2, <1>6
  <2>2. <<q[(k + 1) - 1], w[k + 1], q[k + 1]>> \in E
    BY <2>1 DEF Walks
  <2> QED BY <2>1, <2>2
<1> QED BY <1>1, <1>5, <1>6

(* A query answers as the map does, because the name has one walk.         *)
LEMMA QueryStep ==
  ASSUME TrieInv, NEW h \in Holder, NEW w \in Names, w \in Seq(Byte), NEW o,
         TrieQuery(h, w, o)
  PROVE  TrieInv' /\ Map!Query(h, w, o)
<1>1. /\ h \in DOMAIN root
      /\ nodes' = nodes /\ edges' = edges /\ value' = value /\ root' = root
  BY Zenon DEF TrieQuery, treeVars
<1>2. TrieInv'
  BY <1>1, Zenon DEF TrieInv, Forest, Reached
<1>3. Forest(nodes, edges, root) /\ OneSon(edges) /\ root[h] \in nodes
  BY <1>1, Zenon DEF TrieInv, Forest
<1> DEFINE D == Entries(edges, value, root[h])
           Ends(k, p) ==
             \/ /\ k < Len(w) /\ w[k + 1] \notin Indexed
                /\ answer' = "invalid_charset"
                /\ out' = o
             \/ /\ k < Len(w) /\ w[k + 1] \in Indexed /\ ~ HasSon(p[k], w[k + 1])
                /\ answer' = "not_found"
                /\ out' = Null
             \/ /\ k = Len(w) /\ p[k] \in DOMAIN value
                /\ answer' = "success"
                /\ out' = value[p[k]]
             \/ /\ k = Len(w) /\ p[k] \notin DOMAIN value
                /\ answer' = "not_found"
                /\ out' = o
<1>4. PICK k \in 0 .. Len(w) : \E p \in Walks(edges, root[h], w, k) : Ends(k, p)
  BY Zenon DEF TrieQuery
<1>5. PICK p \in Walks(edges, root[h], w, k) : Ends(k, p)
  BY <1>4, Zenon
<1>6. ASSUME w \in DOMAIN D
      PROVE  /\ k = Len(w) => p[k] \in DOMAIN value
             /\ k < Len(w) => w[k + 1] \in Indexed /\ HasSon(p[k], w[k + 1])
  <2>1. PICK n \in DOMAIN value : w \in Seq(Indexed) /\ Leads(edges, root[h], w, n)
    BY <1>3, <1>6, EntryFrom, KeyIndexed
  <2>2. \A i \in 1 .. Len(w) : w[i] \in Indexed
    BY <2>1, ElementOfSeq
  <2>3. /\ k = Len(w) => n = p[k]
        /\ k < Len(w) => \E m : <<p[k], w[k + 1], m>> \in edges
    BY <1>3, <2>1, <2>2, NameWalk
  <2>4. ASSUME k < Len(w) PROVE w[k + 1] \in Indexed /\ HasSon(p[k], w[k + 1])
    <3>1. PICK m : <<p[k], w[k + 1], m>> \in edges
      BY <2>3, <2>4
    <3>2. m \in nodes /\ w[k + 1] \in Indexed
      BY <1>3, <3>1, ForestEdge
    <3> QED BY <3>1, <3>2 DEF HasSon
  <2> QED BY <2>1, <2>3, <2>4
<1>7. ASSUME k = Len(w), p[k] \in DOMAIN value
      PROVE  w \in DOMAIN D /\ D[w] = value[p[k]]
  <2>1. Len(w) \in Nat
    BY LenProperties
  <2>2. \A i \in 1 .. Len(w) : w[i] \in Indexed
    BY <1>3, <1>7, <2>1, WalkStays
  <2>3. w \in Key
    <3>1. w \in Seq(Indexed)
      BY <2>1, <2>2, LenProperties
    <3> QED BY <3>1 DEF Key
  <2>4. Leads(edges, root[h], w, p[k])
    BY <1>7 DEF Leads
  <2> QED BY <1>3, <1>7, <2>3, <2>4, EntryAt
<1>8. k < Len(w) /\ w[k + 1] \notin Indexed => w \notin Seq(Indexed)
  <2> SUFFICES ASSUME k < Len(w), w \in Seq(Indexed) PROVE w[k + 1] \in Indexed
    OBVIOUS
  <2>1. k + 1 \in 1 .. Len(w)
    BY LenProperties
  <2> QED BY <2>1, ElementOfSeq
<1> HIDE DEF D
<1>9. \/ /\ w \in DOMAIN D
         /\ answer' = "success"
         /\ out' = D[w]
      \/ /\ w \notin DOMAIN D
         /\ answer' \in {"not_found", "invalid_charset"}
         /\ answer' = "invalid_charset" => w \notin Seq(Indexed)
         /\ out' \in {o, Null}
  BY <1>5, <1>6, <1>7, <1>8
<1> DEFINE A == MapOf(edges, value, root)
<1>10. h \in DOMAIN A /\ A[h] = D
  BY <1>1, Zenon DEF MapOf, D
<1>11. MapOf(edges', value', root') = A
  BY <1>1, Zenon
<1> QED BY <1>2, <1>9, <1>10, <1>11, Zenon DEF Map!Query, MapOf

-----------------------------------------------------------------------------
(* The nodes that names lead to from r.                                     *)
EndsOf(E, r) == {m \in Node : \E w \in Seq(Indexed) : Leads(E, r, w, m)}

(* A tree has the sons of its nodes.                                       *)
LEMMA TreeSon ==
  ASSUME NEW E, NEW r, NEW n \in EndsOf(E, r), NEW c \in Indexed, NEW m \in Node,
         <<n, c, m>> \in E
  PROVE  m \in EndsOf(E, r)
<1>1. PICK w \in Seq(Indexed) : n \in Node /\ Leads(E, r, w, n)
  BY DEF EndsOf
<1>2. Append(w, c) \in Seq(Indexed) /\ Leads(E, r, Append(w, c), m)
  BY <1>1, LeadsAppend, AppendProperties
<1> QED BY <1>2 DEF EndsOf

(* Trees without their names: their nodes, and that they share none.       *)
LEMMA ForestTrees ==
  ASSUME NEW N, NEW E, NEW R, Forest(N, E, R)
  PROVE  /\ \A h \in DOMAIN R : EndsOf(E, R[h]) \in SUBSET N /\ R[h] \in EndsOf(E, R[h])
         /\ \A n \in N : \E h \in DOMAIN R : n \in EndsOf(E, R[h])
         /\ \A h, t \in DOMAIN R : \A n \in EndsOf(E, R[h]) : n \in EndsOf(E, R[t]) => h = t
         /\ \A h \in DOMAIN R : \A n, c, m : <<n, c, m>> \in E =>
              (n \in EndsOf(E, R[h]) <=> m \in EndsOf(E, R[h]))
<1>1. N \in SUBSET Node /\ \A h \in DOMAIN R : R[h] \in N
  BY DEF Forest
<1>2. ASSUME NEW h \in DOMAIN R PROVE R[h] \in EndsOf(E, R[h])
  BY <1>1, EmptyNameLeads DEF EndsOf
<1>3. ASSUME NEW n \in N PROVE \E h \in DOMAIN R : n \in EndsOf(E, R[h])
  <2>1. PICK h \in DOMAIN R, w \in Seq(Indexed) : Leads(E, R[h], w, n)
    BY DEF Forest, Reached
  <2> QED BY <1>1, <2>1 DEF EndsOf
<1>4. ASSUME NEW h \in DOMAIN R, NEW t \in DOMAIN R,
             NEW n \in EndsOf(E, R[h]), n \in EndsOf(E, R[t])
      PROVE  h = t
  <2>1. PICK w \in Seq(Indexed) : Leads(E, R[h], w, n)
    BY DEF EndsOf
  <2>2. PICK v \in Seq(Indexed) : Leads(E, R[t], v, n)
    BY <1>4 DEF EndsOf
  <2> QED BY <2>1, <2>2, ForestOneName
<1>5. ASSUME NEW h \in DOMAIN R, NEW n \in EndsOf(E, R[h]) PROVE n \in N
  <2>1. PICK w \in Seq(Indexed) : Leads(E, R[h], w, n)
    BY DEF EndsOf
  <2>2. CASE w = <<>>
    BY <1>1, <2>1, <2>2, LeadsEmpty
  <2>3. CASE w # <<>>
    <3>1. PICK v \in Seq(Indexed), c \in Indexed : w = Append(v, c)
      BY <2>3, SequenceEmptyOrAppend
    <3>2. n \in Node
      BY DEF EndsOf
    <3>3. PICK x \in Node : <<x, c, n>> \in E
      BY <2>1, <3>1, <3>2, LeadsAppend
    <3> QED BY <3>3, ForestEdge
  <2> QED BY <2>2, <2>3
<1>6. ASSUME NEW h \in DOMAIN R, NEW n, NEW c, NEW m, <<n, c, m>> \in E
      PROVE  n \in EndsOf(E, R[h]) <=> m \in EndsOf(E, R[h])
  <2>1. n \in N /\ c \in Indexed /\ m \in N /\ m \in Node
    BY <1>1, <1>6, ForestEdge
  <2>2. \A t \in DOMAIN R : n \in EndsOf(E, R[t]) => m \in EndsOf(E, R[t])
    BY <1>6, <2>1, TreeSon
  <2>3. PICK t \in DOMAIN R : n \in EndsOf(E, R[t])
    BY <1>3, <2>1
  <2>4. m \in EndsOf(E, R[t])
    BY <2>2, <2>3
  <2>5. m \in EndsOf(E, R[h]) => h = t
    BY <1>4, <2>4
  <2> QED BY <2>2, <2>3, <2>5
<1> HIDE DEF EndsOf
<1> QED BY <1>2, <1>3, <1>4, <1>5, <1>6

(* The nodes that names lead to are those of the tree: what the edges      *)
(* reach is closed under the edges, and the least set that is.             *)
LEMMA TreeIsEnds ==
  ASSUME NEW N, NEW E, NEW R, Forest(N, E, R), NEW h \in DOMAIN R
  PROVE  Tree(E, R[h]) = EndsOf(E, R[h])
<1> DEFINE r == R[h]
           Shut(S) == \A e \in E : e[1] \in S => e[3] \in S
<1>1. /\ EndsOf(E, r) \in SUBSET N /\ r \in EndsOf(E, r) /\ N \in SUBSET Node
      /\ \A n, c, m : <<n, c, m>> \in E => (n \in EndsOf(E, r) <=> m \in EndsOf(E, r))
      /\ E \subseteq N \X Indexed \X N
  BY ForestTrees DEF Forest
<1>2. \A e \in E : e = <<e[1], e[2], e[3]>>
  BY <1>1
<1> HIDE DEF r
<1>3. Shut(EndsOf(E, r)) /\ EndsOf(E, r) \in SUBSET Node
  BY <1>1, <1>2
<1>4. ASSUME NEW S \in SUBSET Node, r \in S, Shut(S), NEW w \in Seq(Indexed), NEW m \in Node,
             Leads(E, r, w, m)
      PROVE  m \in S
  <2> DEFINE Good(s) == \A x \in Node : Leads(E, r, s, x) => x \in S
             G == {s \in Seq(Indexed) : Good(s)}
  <2>1. Good(<<>>)
    BY <1>4, LeadsEmpty
  <2>2. ASSUME NEW s \in Seq(Indexed), NEW c \in Indexed, Good(s) PROVE Good(Append(s, c))
    <3> SUFFICES ASSUME NEW x \in Node, Leads(E, r, Append(s, c), x) PROVE x \in S
      OBVIOUS
    <3>1. PICK y \in Node : Leads(E, r, s, y) /\ <<y, c, x>> \in E
      BY LeadsAppend
    <3>2. y \in S
      BY <2>2, <3>1
    <3> QED BY <1>4, <3>1, <3>2
  <2> HIDE DEF Good
  <2>3. G \in SUBSET Seq(Indexed) /\ <<>> \in G
    BY <2>1, EmptySeq
  <2>4. Grows(G, Indexed)
    BY <2>2, AppendProperties DEF Grows
  <2> HIDE DEF G
  <2>5. w \in G
    BY <2>3, <2>4, AllNames
  <2> QED BY <1>4, <2>5 DEF G, Good
<1> HIDE DEF Shut
<1>5. Tree(E, r) = {m \in Node : \A S \in SUBSET Node : r \in S /\ Shut(S) => m \in S}
  BY Zenon DEF Tree, Shut
<1>6. ASSUME NEW m \in Tree(E, r) PROVE m \in EndsOf(E, r)
  BY <1>1, <1>3, <1>5
<1>7. ASSUME NEW m \in EndsOf(E, r) PROVE m \in Tree(E, r)
  <2>1. m \in Node /\ \E w \in Seq(Indexed) : Leads(E, r, w, m)
    BY DEF EndsOf
  <2>2. \A S \in SUBSET Node : r \in S /\ Shut(S) => m \in S
    BY <1>4, <2>1
  <2> QED BY <1>5, <2>1, <2>2
<1> QED BY <1>6, <1>7 DEF r

LEMMA TreeOfTrie ==
  TrieInv => \A h \in DOMAIN root : Tree(edges, root[h]) = EndsOf(edges, root[h])
  BY TreeIsEnds DEF TrieInv

(* Only the empty name leads to the first node.                            *)
LEMMA FirstEmpty ==
  ASSUME NEW N, NEW E, NEW R, Forest(N, E, R), NEW h \in DOMAIN R,
         NEW w \in Seq(Indexed), Leads(E, R[h], w, R[h])
  PROVE  w = <<>>
<1>1. First(E, R[h]) /\ R[h] \in Node
  BY DEF Forest
<1> SUFFICES ASSUME w # <<>> PROVE FALSE
  OBVIOUS
<1>2. PICK v \in Seq(Indexed), c \in Indexed : w = Append(v, c)
  BY SequenceEmptyOrAppend
<1>3. PICK x \in Node : <<x, c, R[h]>> \in E
  BY <1>1, <1>2, LeadsAppend
<1> QED BY <1>1, <1>3 DEF First

(* The entries after a visit.                                              *)
LEMMA VisitEntries ==
  ASSUME NEW N, NEW E, NEW R, Forest(N, E, R), NEW V, DOMAIN V \subseteq N,
         NEW h \in DOMAIN R, NEW g, NEW U, DOMAIN U = DOMAIN V,
         \A n \in DOMAIN V : U[n] = IF n \in EndsOf(E, R[h]) \ {R[h]}
                                    THEN g[V[n]] ELSE V[n],
         NEW t \in DOMAIN R
  PROVE  /\ DOMAIN Entries(E, U, R[t]) = DOMAIN Entries(E, V, R[t])
         /\ \A w \in DOMAIN Entries(E, V, R[t]) :
              Entries(E, U, R[t])[w] = IF t = h /\ w # <<>>
                                       THEN g[Entries(E, V, R[t])[w]]
                                       ELSE Entries(E, V, R[t])[w]
<1>1. DOMAIN Entries(E, U, R[t]) = DOMAIN Entries(E, V, R[t])
  BY Zenon DEF Entries
<1>2. OneSon(E) /\ N \in SUBSET Node /\ R[h] \in N
  BY DEF Forest
<1>3. ASSUME NEW w \in DOMAIN Entries(E, V, R[t])
      PROVE  Entries(E, U, R[t])[w] = IF t = h /\ w # <<>>
                                      THEN g[Entries(E, V, R[t])[w]]
                                      ELSE Entries(E, V, R[t])[w]
  <2>1. w \in Key /\ w \in Seq(Indexed) /\ \E n \in DOMAIN V :
          Leads(E, R[t], w, n) /\ Entries(E, V, R[t])[w] = V[n]
    BY <1>2, EntryFrom, KeyIndexed
  <2>2. PICK n \in DOMAIN V : Leads(E, R[t], w, n) /\ Entries(E, V, R[t])[w] = V[n]
    BY <2>1
  <2>3. Entries(E, U, R[t])[w] = U[n]
    BY <1>2, <2>1, <2>2, EntryAt
  <2>4. n \in EndsOf(E, R[h]) \ {R[h]} <=> t = h /\ w # <<>>
    <3>1. ASSUME t = h, w # <<>> PROVE n \in EndsOf(E, R[h]) /\ n # R[h]
      <4>1. n \in Node /\ n \in EndsOf(E, R[h])
        BY <1>2, <2>1, <2>2, <3>1 DEF EndsOf
      <4>2. ASSUME n = R[h] PROVE FALSE
        <5>1. w \in Seq(Indexed) /\ Leads(E, R[h], w, R[h])
          BY <2>1, <2>2, <3>1, <4>2, Zenon
        <5>2. w = <<>>
          BY <5>1, FirstEmpty
        <5> QED BY <3>1, <5>2
      <4> QED BY <4>1, <4>2
    <3>2. ASSUME n \in EndsOf(E, R[h]) PROVE t = h
      <4>1. PICK v \in Seq(Indexed) : Leads(E, R[h], v, n)
        BY <3>2 DEF EndsOf
      <4> QED BY <2>1, <2>2, <4>1, ForestOneName
    <3>3. ASSUME t = h, w = <<>> PROVE n = R[h]
      BY <2>2, <3>3, LeadsEmpty
    <3> QED BY <3>1, <3>2, <3>3
  <2> HIDE DEF EndsOf
  <2>5. U[n] = IF n \in EndsOf(E, R[h]) \ {R[h]} THEN g[V[n]] ELSE V[n]
    OBVIOUS
  <2>6. CASE n \in EndsOf(E, R[h]) \ {R[h]}
    BY <2>2, <2>3, <2>4, <2>5, <2>6, Zenon
  <2>7. CASE n \notin EndsOf(E, R[h]) \ {R[h]}
    BY <2>2, <2>3, <2>4, <2>5, <2>7, Zenon
  <2> QED BY <2>6, <2>7
<1> QED BY <1>1, <1>3, Zenon

(* A visit changes the values of all names of one trie but the empty one.  *)
LEMMA VisitStep ==
  ASSUME TrieInv, NEW h \in Holder, NEW g, TrieVisit(h, g)
  PROVE  TrieInv' /\ Map!Visit(h, g)
<1>1. /\ h \in DOMAIN root
      /\ nodes' = nodes /\ edges' = edges /\ root' = root
      /\ answer' = answer /\ out' = out
  BY Zenon DEF TrieVisit
<1>2. /\ value' = [n \in DOMAIN value' |-> value'[n]]
      /\ DOMAIN value' = DOMAIN value
      /\ \A n \in DOMAIN value :
           value'[n] = IF n \in EndsOf(edges, root[h]) \ {root[h]}
                       THEN g[value[n]] ELSE value[n]
  BY TreeOfTrie, Zenon DEF TrieVisit
<1>3. /\ Forest(nodes, edges, root)
      /\ root = [t \in DOMAIN root |-> root[t]] /\ DOMAIN root \subseteq Holder
      /\ DOMAIN value \subseteq nodes
  BY Zenon DEF TrieInv
<1>4. TrieInv'
  <2>1. Forest(nodes', edges', root')
    BY <1>1, <1>3, Zenon
  <2> QED BY <1>1, <1>2, <1>3, <2>1, Zenon DEF TrieInv
<1> DEFINE A == MapOf(edges, value, root)
           B == MapOf(edges', value', root')
           X == [w \in DOMAIN A[h] |-> IF w = <<>> THEN A[h][w] ELSE g[A[h][w]]]
           C == With(A, h, X)
<1>5. /\ DOMAIN A = DOMAIN root /\ DOMAIN B = DOMAIN root
      /\ B = [t \in DOMAIN B |-> B[t]]
      /\ \A t \in DOMAIN root : A[t] = Entries(edges, value, root[t])
      /\ \A t \in DOMAIN root : B[t] = Entries(edges, value', root[t])
  BY <1>1, Zenon DEF MapOf
<1>6. \A t \in DOMAIN root :
        /\ A[t] = [w \in DOMAIN A[t] |-> A[t][w]]
        /\ B[t] = [w \in DOMAIN B[t] |-> B[t][w]]
  <2> SUFFICES ASSUME NEW t \in DOMAIN root
               PROVE  /\ Entries(edges, value, root[t])
                           = [w \in DOMAIN Entries(edges, value, root[t]) |->
                                Entries(edges, value, root[t])[w]]
                      /\ Entries(edges, value', root[t])
                           = [w \in DOMAIN Entries(edges, value', root[t]) |->
                                Entries(edges, value', root[t])[w]]
    BY <1>5, Zenon
  <2> QED BY Zenon DEF Entries
<1>7. /\ DOMAIN X = DOMAIN A[h] /\ X = [w \in DOMAIN X |-> X[w]]
      /\ \A w \in DOMAIN X : X[w] = IF w = <<>> THEN A[h][w] ELSE g[A[h][w]]
  BY Zenon
<1> HIDE DEF X
<1>8. /\ C = [t \in DOMAIN C |-> C[t]] /\ DOMAIN C = DOMAIN A \cup {h} /\ C[h] = X
      /\ \A t \in DOMAIN A : t # h => C[t] = A[t]
  BY Zenon DEF With
<1> HIDE DEF A, B, C
<1>9. ASSUME NEW t \in DOMAIN root
      PROVE  /\ DOMAIN B[t] = DOMAIN A[t]
             /\ \A w \in DOMAIN A[t] :
                  B[t][w] = IF t = h /\ w # <<>> THEN g[A[t][w]] ELSE A[t][w]
  <2>1. /\ DOMAIN Entries(edges, value', root[t]) = DOMAIN Entries(edges, value, root[t])
        /\ \A w \in DOMAIN Entries(edges, value, root[t]) :
             Entries(edges, value', root[t])[w]
               = IF t = h /\ w # <<>>
                 THEN g[Entries(edges, value, root[t])[w]]
                 ELSE Entries(edges, value, root[t])[w]
    BY <1>1, <1>2, <1>3, VisitEntries
  <2> QED BY <1>5, <2>1, Zenon
<1>10. ASSUME NEW t \in DOMAIN root PROVE B[t] = C[t]
  <2>1. CASE t = h
    <3>1. DOMAIN B[h] = DOMAIN X
      BY <1>7, <1>9, <2>1
    <3>2. ASSUME NEW w \in DOMAIN X PROVE B[h][w] = X[w]
      <4>1. B[h][w] = IF w # <<>> THEN g[A[h][w]] ELSE A[h][w]
        BY <1>7, <1>9, <2>1, Zenon
      <4> QED BY <1>7, <4>1, Zenon
    <3>3. B[h] = X
      <4>1. B[h] = [w \in DOMAIN B[h] |-> B[h][w]] /\ X = [w \in DOMAIN X |-> X[w]]
        BY <1>6, <1>7, <2>1, Zenon
      <4> QED BY <3>1, <3>2, <4>1, Zenon
    <3> QED BY <1>8, <2>1, <3>3
  <2>2. CASE t # h
    <3>1. \A w \in DOMAIN A[t] : B[t][w] = A[t][w]
      BY <1>9, <2>2, Zenon
    <3>2. B[t] = A[t]
      <4>1. B[t] = [w \in DOMAIN B[t] |-> B[t][w]] /\ A[t] = [w \in DOMAIN A[t] |-> A[t][w]]
        BY <1>6, Zenon
      <4>2. DOMAIN B[t] = DOMAIN A[t]
        BY <1>9, Zenon
      <4> QED BY <3>1, <4>1, <4>2, Zenon
    <3> QED BY <1>5, <1>8, <2>2, <3>2
  <2> QED BY <2>1, <2>2
<1>11. DOMAIN C = DOMAIN root
  BY <1>1, <1>5, <1>8
<1>12. B = C
  BY <1>5, <1>8, <1>10, <1>11, Zenon
<1> QED BY <1>1, <1>4, <1>5, <1>12, Zenon DEF A, B, C, X, Map!Visit, Map!With, With, MapOf

(* f has the sons of what it has, and F the images of their edges.         *)
Image(E, F, T, f) ==
  /\ \A n \in T : f[n] \in Node
  /\ \A n, c, m : n \in T /\ <<n, c, m>> \in E => m \in T /\ <<f[n], c, f[m]>> \in F

(* The image of a tree: what a name leads to in it, it leads to there.     *)
LEMMA ImageLeads ==
  ASSUME NEW E, NEW F, NEW T, NEW f, NEW r \in T, NEW S,
         Image(E, F, T, f), NEW w \in Seq(S), NEW x, Leads(E, r, w, x)
  PROVE  x \in T /\ Leads(F, f[r], w, f[x])
<1> DEFINE Good(s) ==
      \A y \in Node : Leads(E, r, s, y) => y \in T /\ Leads(F, f[r], s, f[y])
<1>1. Good(<<>>)
  <2>1. f[r] \in Node
    BY DEF Image
  <2> QED BY <2>1, LeadsEmpty
<1>2. ASSUME NEW s \in Seq(S), NEW c \in S, Good(s)
      PROVE  Good(Append(s, c))
  <2> SUFFICES ASSUME NEW y \in Node, Leads(E, r, Append(s, c), y)
               PROVE  y \in T /\ Leads(F, f[r], Append(s, c), f[y])
    OBVIOUS
  <2>1. PICK d \in Node : Leads(E, r, s, d) /\ <<d, c, y>> \in E
    BY LeadsAppend
  <2>2. d \in T /\ Leads(F, f[r], s, f[d])
    BY <1>2, <2>1
  <2>3. y \in T /\ <<f[d], c, f[y]>> \in F /\ f[d] \in Node /\ f[y] \in Node
    BY <2>1, <2>2 DEF Image
  <2> QED BY <2>2, <2>3, LeadsAppend
<1>3. \A s \in Seq(S) : Good(s)
  <2> DEFINE G == {s \in Seq(S) : Good(s)}
  <2> HIDE DEF Good
  <2>1. G \in SUBSET Seq(S) /\ <<>> \in G
    BY <1>1, EmptySeq
  <2>2. Grows(G, S)
    BY <1>2, AppendProperties DEF Grows
  <2> HIDE DEF G
  <2>3. \A s \in Seq(S) : s \in G
    BY <2>1, <2>2, AllNames
  <2> QED BY <2>3 DEF G
<1>4. x \in Node
  BY LeadsInto, LenProperties
<1> QED BY <1>3, <1>4

-----------------------------------------------------------------------------
(* Two trees have the same entries if what the names lead to has the same  *)
(* values, whatever the nodes are.                                         *)
LEMMA SameEntries ==
  ASSUME NEW E, OneSon(E), NEW F, OneSon(F), NEW V, NEW U, NEW a, NEW b,
         \A w \in Key : \A x \in DOMAIN V : Leads(E, a, w, x) =>
           \E y \in DOMAIN U : Leads(F, b, w, y) /\ U[y] = V[x],
         \A w \in Key : \A y \in DOMAIN U : Leads(F, b, w, y) =>
           \E x \in DOMAIN V : Leads(E, a, w, x)
  PROVE  Entries(F, U, b) = Entries(E, V, a)
<1> DEFINE M == Entries(E, V, a)
<1>1. M = [w \in DOMAIN M |-> M[w]]
  BY Zenon DEF Entries
<1>2. ASSUME NEW w \in DOMAIN M
      PROVE  /\ w \in Key
             /\ \E n \in DOMAIN U : Leads(F, b, w, n) /\ M[w] = U[n]
  <2>1. w \in Key /\ \E x \in DOMAIN V : Leads(E, a, w, x) /\ M[w] = V[x]
    BY EntryFrom
  <2>2. PICK x \in DOMAIN V : Leads(E, a, w, x) /\ M[w] = V[x]
    BY <2>1
  <2>3. PICK y \in DOMAIN U : Leads(F, b, w, y) /\ U[y] = V[x]
    BY <2>1, <2>2
  <2> QED BY <2>1, <2>2, <2>3
<1>3. ASSUME NEW w \in Key, NEW n \in DOMAIN U, Leads(F, b, w, n)
      PROVE  w \in DOMAIN M
  <2>1. PICK x \in DOMAIN V : Leads(E, a, w, x)
    BY <1>3
  <2> QED BY <2>1, EntryAt
<1> HIDE DEF M
<1> QED BY <1>1, <1>2, <1>3, EntriesAre DEF M

-----------------------------------------------------------------------------
(* Release: the nodes of one tree go.                                      *)

Without(E, T) == {e \in E : e[1] \notin T}

(* The edges that stay when the nodes T go.                                *)
LEMMA WithoutEdge ==
  ASSUME NEW E, NEW T
  PROVE  \A n, c, m : <<n, c, m>> \in Without(E, T) <=> <<n, c, m>> \in E /\ n \notin T
  BY DEF Without

(* In the tries that stay every name leads where it did: none of their     *)
(* nodes is in the tree that goes.                                         *)
LEMMA ReleaseLeads ==
  ASSUME NEW N, NEW E, NEW R, Forest(N, E, R), NEW h \in DOMAIN R,
         NEW t \in DOMAIN R, t # h, NEW w \in Seq(Indexed), NEW x
  PROVE  /\ Leads(E, R[t], w, x)
              => x \notin EndsOf(E, R[h]) /\ Leads(Without(E, EndsOf(E, R[h])), R[t], w, x)
         /\ Leads(Without(E, EndsOf(E, R[h])), R[t], w, x) => Leads(E, R[t], w, x)
<1> DEFINE H == EndsOf(E, R[h])
           T == EndsOf(E, R[t])
           F == Without(E, H)
           f == [n \in T |-> n]
<1>1. /\ R[t] \in T
      /\ \A n \in T : n \in Node /\ n \notin H
      /\ \A n, c, m : <<n, c, m>> \in E => (n \in T <=> m \in T)
  <2>1. N \in SUBSET Node
    BY DEF Forest
  <2> QED BY <2>1, ForestTrees
<1> HIDE DEF H, T, f
<1>2. \A n, c, m : <<n, c, m>> \in F <=> <<n, c, m>> \in E /\ n \notin H
  BY WithoutEdge, ZenonT(60)
<1>3. \A n \in T : f[n] = n
  BY DEF f
<1>4. F \subseteq E
  BY DEF Without
<1> HIDE DEF F
<1>5. ASSUME Leads(E, R[t], w, x)
      PROVE  x \notin H /\ Leads(F, R[t], w, x)
  <2>1. Image(E, F, T, f)
    BY <1>1, <1>2, <1>3 DEF Image
  <2>2. x \in T /\ Leads(F, f[R[t]], w, f[x])
    BY <1>1, <1>5, <2>1, ImageLeads
  <2> QED BY <1>1, <1>3, <2>2
<1>6. Leads(F, R[t], w, x) => Leads(E, R[t], w, x)
  BY <1>4, LeadsMore
<1> QED BY <1>5, <1>6 DEF H, F

(* What stays is a forest.                                                 *)
LEMMA ReleaseForest ==
  ASSUME NEW N, NEW E, NEW R, Forest(N, E, R), NEW h \in DOMAIN R,
         NEW Q, DOMAIN Q = DOMAIN R \ {h}, \A t \in DOMAIN Q : Q[t] = R[t]
  PROVE  Forest(N \ EndsOf(E, R[h]), Without(E, EndsOf(E, R[h])), Q)
<1> DEFINE T == EndsOf(E, R[h])
           F == Without(E, T)
           M == N \ T
<1>1. /\ N \in SUBSET Node /\ OneSon(E) /\ OnePlace(E)
      /\ E \subseteq N \X Indexed \X N
      /\ \A t \in DOMAIN R : R[t] \in N /\ First(E, R[t])
      /\ \A t, u \in DOMAIN R : R[t] = R[u] => t = u
      /\ Reached(N, E, R)
  BY DEF Forest
<1>2. /\ \A t \in DOMAIN R : R[t] \in T => t = h
      /\ \A n, c, m : <<n, c, m>> \in E => (n \in T <=> m \in T)
  BY ForestTrees
<1> HIDE DEF T, M
<1>3. \A n, c, m : <<n, c, m>> \in F <=> <<n, c, m>> \in E /\ n \notin T
  BY WithoutEdge, ZenonT(60)
<1>4. F \subseteq E
  BY DEF Without
<1>5. ASSUME NEW t \in DOMAIN Q, NEW w \in Seq(Indexed), NEW x, Leads(E, R[t], w, x)
      PROVE  Leads(F, Q[t], w, x)
  BY <1>5, ReleaseLeads DEF T
<1> HIDE DEF F
<1> USE DEF M
<1>6. F \subseteq M \X Indexed \X M
  <2> SUFFICES ASSUME NEW e \in F PROVE e \in M \X Indexed \X M
    OBVIOUS
  <2>1. PICK n \in N, c \in Indexed, m \in N : e = <<n, c, m>>
    BY <1>1, <1>4
  <2> QED BY <1>2, <1>3, <2>1
<1>7. OneSon(F) /\ OnePlace(F)
  BY <1>1, <1>4 DEF OneSon, OnePlace
<1>8. ASSUME NEW t \in DOMAIN Q PROVE Q[t] \in M /\ First(F, Q[t])
  BY <1>1, <1>2, <1>4 DEF First
<1>9. Reached(M, F, Q)
  <2> SUFFICES ASSUME NEW x \in M
               PROVE  \E t \in DOMAIN Q, w \in Seq(Indexed) : Leads(F, Q[t], w, x)
    BY DEF Reached
  <2>1. PICK t \in DOMAIN R, w \in Seq(Indexed) : Leads(E, R[t], w, x)
    BY <1>1 DEF Reached
  <2>2. t # h
    BY <1>1, <2>1 DEF T, EndsOf
  <2> QED BY <1>5, <2>1, <2>2
<1>10. \A t, u \in DOMAIN Q : Q[t] = Q[u] => t = u
  BY <1>1
<1>11. M \in SUBSET Node
  BY <1>1
<1> HIDE DEF M
<1>12. Forest(M, F, Q)
  BY <1>6, <1>7, <1>8, <1>9, <1>10, <1>11 DEF Forest
<1> QED BY <1>12 DEF T, F, M

(* Release: a forest again, and the map of the trie is gone, the others as *)
(* they were.                                                              *)
LEMMA ReleaseStep ==
  ASSUME TrieInv, NEW h \in Holder, TrieRelease(h)
  PROVE  TrieInv' /\ Map!Free(h)
<1> DEFINE T == EndsOf(edges, root[h])
<1>1. /\ h \in DOMAIN root
      /\ answer' = answer /\ out' = out
      /\ nodes' = nodes \ T
      /\ edges' = Without(edges, T)
      /\ value' = [n \in DOMAIN value \ T |-> value[n]]
      /\ root' = [t \in DOMAIN root \ {h} |-> root[t]]
  BY TreeOfTrie, Zenon DEF TrieRelease, Without
<1>2. /\ DOMAIN value' = DOMAIN value \ T
      /\ value' = [n \in DOMAIN value' |-> value'[n]]
      /\ \A n \in DOMAIN value' : value'[n] = value[n]
      /\ DOMAIN root' = DOMAIN root \ {h}
      /\ root' = [t \in DOMAIN root' |-> root'[t]]
      /\ \A t \in DOMAIN root' : root'[t] = root[t]
  BY <1>1, Zenon
<1>3. /\ Forest(nodes, edges, root) /\ DOMAIN root \subseteq Holder
      /\ DOMAIN value \subseteq nodes
  BY Zenon DEF TrieInv
<1>4. Forest(nodes', edges', root')
  <2>1. Forest(nodes \ T, Without(edges, T), root')
    BY <1>1, <1>2, <1>3, ReleaseForest
  <2> QED BY <1>1, <2>1, Zenon
<1> HIDE DEF T
<1>5. TrieInv'
  <2>1. DOMAIN root' \subseteq Holder /\ DOMAIN value' \subseteq nodes'
    BY <1>1, <1>2, <1>3
  <2> QED BY <1>2, <1>4, <2>1, Zenon DEF TrieInv
<1>6. ASSUME NEW t \in DOMAIN root'
      PROVE  Entries(edges', value', root'[t]) = Entries(edges, value, root[t])
  <2>1. t \in DOMAIN root /\ t # h /\ root'[t] = root[t]
    BY <1>2
  <2>2. OneSon(edges) /\ OneSon(edges')
    BY <1>3, <1>4 DEF Forest
  <2>3. \A w \in Seq(Indexed) : \A x :
          /\ Leads(edges, root[t], w, x) => x \notin T /\ Leads(edges', root[t], w, x)
          /\ Leads(edges', root[t], w, x) => Leads(edges, root[t], w, x)
    BY <1>1, <1>3, <2>1, ReleaseLeads DEF T
  <2>4. \A w \in Key : \A x \in DOMAIN value : Leads(edges, root[t], w, x) =>
          \E y \in DOMAIN value' : Leads(edges', root[t], w, y) /\ value'[y] = value[x]
    BY <1>2, <2>3, KeyIndexed
  <2>5. \A w \in Key : \A y \in DOMAIN value' : Leads(edges', root[t], w, y) =>
          \E x \in DOMAIN value : Leads(edges, root[t], w, x)
    BY <1>2, <2>3, KeyIndexed
  <2> QED BY <2>1, <2>2, <2>4, <2>5, SameEntries
<1> DEFINE A == MapOf(edges, value, root)
           B == MapOf(edges', value', root')
           C == [t \in DOMAIN A \ {h} |-> A[t]]
<1>7. /\ DOMAIN A = DOMAIN root /\ DOMAIN B = DOMAIN root'
      /\ B = [t \in DOMAIN B |-> B[t]] /\ C = [t \in DOMAIN C |-> C[t]]
      /\ DOMAIN C = DOMAIN A \ {h} /\ \A t \in DOMAIN C : C[t] = A[t]
      /\ \A t \in DOMAIN root : A[t] = Entries(edges, value, root[t])
      /\ \A t \in DOMAIN root' : B[t] = Entries(edges', value', root'[t])
  BY Zenon DEF MapOf
<1> HIDE DEF A, B, C
<1>8. DOMAIN B = DOMAIN C /\ \A t \in DOMAIN B : B[t] = C[t]
  BY <1>2, <1>6, <1>7
<1>9. B = C
  BY <1>7, <1>8, Zenon
<1> QED BY <1>1, <1>5, <1>7, <1>9, Zenon DEF A, B, C, Map!Free, MapOf

(* Cloning: n is the copy of the node x. *)
Twin(f, x, n) == x \in DOMAIN f /\ n = f[x]

(* The copies of the edges of the nodes in T.                              *)
Copies(E, T, f) == {<<f[e[1]], e[2], f[e[3]]>> : e \in {e \in E : e[1] \in T}}

(* The edge from n to m is the copy of one of E.                           *)
TwinEdge(E, f, n, c, m) ==
  \E x, y : Twin(f, x, n) /\ Twin(f, y, m) /\ <<x, c, y>> \in E

(* T has the sons of what it has. *)
Closed(E, T) == \A n, c, m : <<n, c, m>> \in E /\ n \in T => m \in T

(* An edge that was made is the copy of one,                               *)
LEMMA CopyOf ==
  ASSUME NEW N, NEW E, E \subseteq N \X Indexed \X N, NEW T, Closed(E, T),
         NEW f, DOMAIN f = T, NEW n, NEW c, NEW m, <<n, c, m>> \in Copies(E, T, f)
  PROVE  TwinEdge(E, f, n, c, m)
<1>1. PICK e \in E : e[1] \in T /\ <<n, c, m>> = <<f[e[1]], e[2], f[e[3]]>>
  BY Zenon DEF Copies
<1>2. PICK x \in N, d \in Indexed, y \in N : e = <<x, d, y>>
  OBVIOUS
<1>3. e[1] = x /\ e[2] = d /\ e[3] = y
  BY <1>2
<1>4. n = f[x] /\ c = d /\ m = f[y] /\ x \in T /\ <<x, d, y>> \in E
  BY <1>1, <1>2, <1>3
<1>5. y \in T
  BY <1>4 DEF Closed
<1>6. Twin(f, x, n) /\ Twin(f, y, m) /\ <<x, c, y>> \in E
  BY <1>4, <1>5 DEF Twin
<1> QED BY <1>6, Zenon DEF TwinEdge

(* and each edge has a copy.                                               *)
LEMMA CopyIn ==
  ASSUME NEW E, NEW T, NEW f, DOMAIN f = T, NEW x, NEW y, NEW n, NEW c, NEW m,
         Twin(f, x, n), Twin(f, y, m), <<x, c, y>> \in E
  PROVE  <<n, c, m>> \in Copies(E, T, f)
<1> DEFINE e == <<x, c, y>>
<1>1. e[1] = x /\ e[2] = c /\ e[3] = y
  OBVIOUS
<1>2. e \in {g \in E : g[1] \in T} /\ <<n, c, m>> = <<f[e[1]], e[2], f[e[3]]>>
  BY <1>1 DEF Twin
<1> HIDE DEF e
<1> QED BY <1>2, Zenon DEF Copies

(* What a clone of the trie at h in u is.                                  *)
Cloned(N, E, R, h, u, f, F, Q) ==
  /\ Forest(N, E, R)
  /\ h \in DOMAIN R /\ u \notin DOMAIN R
  /\ f \in [EndsOf(E, R[h]) -> Node \ N]
  /\ \A m, n \in EndsOf(E, R[h]) : f[m] = f[n] => m = n
  /\ F = E \cup Copies(E, EndsOf(E, R[h]), f)
  /\ DOMAIN Q = DOMAIN R \cup {u} /\ Q[u] = f[R[h]]
  /\ \A t \in DOMAIN R : Q[t] = R[t]

(* Copies are new, and each is that of one node.                           *)
Twins(N, T, f) ==
  /\ \A x, n : Twin(f, x, n) => x \in T /\ x \in N /\ n \in Node /\ n \notin N
  /\ \A x, y, n : Twin(f, x, n) /\ Twin(f, y, n) => x = y
  /\ \A x, n, m : Twin(f, x, n) /\ Twin(f, x, m) => n = m
  /\ \A x \in T : \E n : Twin(f, x, n)

(* The nodes and edges of a clone, by what they are copies of.             *)
LEMMA CloneParts ==
  ASSUME NEW N, NEW E, NEW R, NEW h, NEW u, NEW f, NEW F, NEW Q,
         Cloned(N, E, R, h, u, f, F, Q)
  PROVE  /\ Twins(N, EndsOf(E, R[h]), f)
         /\ Twin(f, R[h], Q[u])
         /\ \A n, c, m : <<n, c, m>> \in F =>
              \/ <<n, c, m>> \in E
              \/ TwinEdge(E, f, n, c, m)
         /\ \A x, c, y, n, m :
              Twin(f, x, n) /\ Twin(f, y, m) /\ <<x, c, y>> \in E => <<n, c, m>> \in F
         /\ E \subseteq F /\ F \subseteq E \cup (Node \X Indexed \X Node)
<1> DEFINE T == EndsOf(E, R[h])
<1>1. /\ Forest(N, E, R) /\ h \in DOMAIN R
      /\ f \in [T -> Node \ N] /\ F = E \cup Copies(E, T, f)
      /\ \A m, n \in T : f[m] = f[n] => m = n
      /\ Q[u] = f[R[h]]
  BY Zenon DEF Cloned
<1>2. N \in SUBSET Node /\ E \subseteq N \X Indexed \X N
  BY <1>1 DEF Forest
<1>3. /\ R[h] \in T /\ T \in SUBSET N
      /\ \A n, c, m : <<n, c, m>> \in E => (n \in T <=> m \in T)
  BY <1>1, ForestTrees
<1> HIDE DEF T
<1>4. DOMAIN f = T /\ Closed(E, T)
  BY <1>1, <1>3 DEF Closed
<1>5. Twins(N, T, f)
  <2>1. \A x, n : Twin(f, x, n) => x \in T /\ x \in N /\ n \in Node /\ n \notin N
    BY <1>1, <1>3 DEF Twin
  <2>2. \A x, y, n : Twin(f, x, n) /\ Twin(f, y, n) => x = y
    BY <1>1, <1>4 DEF Twin
  <2>3. \A x, n, m : Twin(f, x, n) /\ Twin(f, x, m) => n = m
    BY Zenon DEF Twin
  <2>4. \A x \in T : \E n : Twin(f, x, n)
    BY <1>4, Zenon DEF Twin
  <2> QED BY <2>1, <2>2, <2>3, <2>4, Zenon DEF Twins
<1>6. Twin(f, R[h], Q[u])
  BY <1>1, <1>3, <1>4, Zenon DEF Twin
<1>7. ASSUME NEW n, NEW c, NEW m, <<n, c, m>> \in Copies(E, T, f)
      PROVE  TwinEdge(E, f, n, c, m)
  BY <1>2, <1>4, <1>7, CopyOf
<1>8. ASSUME NEW x, NEW c, NEW y, NEW n, NEW m,
             Twin(f, x, n), Twin(f, y, m), <<x, c, y>> \in E
      PROVE  <<n, c, m>> \in F
  <2>1. <<n, c, m>> \in Copies(E, T, f)
    BY <1>4, <1>8, CopyIn
  <2> QED BY <1>1, <2>1
<1>9. ASSUME NEW e \in Copies(E, T, f) PROVE e \in Node \X Indexed \X Node
  <2>1. PICK g \in E : e = <<f[g[1]], g[2], f[g[3]]>> /\ g[1] \in T
    BY Zenon DEF Copies
  <2>2. PICK x \in N, c \in Indexed, y \in N : g = <<x, c, y>>
    BY <1>2
  <2>3. g[1] = x /\ g[2] = c /\ g[3] = y
    BY <2>2
  <2>4. x \in T /\ y \in T
    BY <1>3, <2>1, <2>2, <2>3
  <2>5. f[x] \in Node /\ f[y] \in Node
    BY <1>1, <2>4
  <2> QED BY <2>1, <2>3, <2>5
<1>10. E \subseteq F /\ F \subseteq E \cup (Node \X Indexed \X Node)
  BY <1>1, <1>9
<1>11. \A n, c, m : <<n, c, m>> \in F =>
         \/ <<n, c, m>> \in E
         \/ TwinEdge(E, f, n, c, m)
  <2>1. \A e \in F : e \in E \/ e \in Copies(E, T, f)
    BY <1>1
  <2> QED BY <1>7, <2>1, Zenon
<1> QED BY <1>5, <1>6, <1>8, <1>10, <1>11, Zenon DEF T

(* C has A and the copies of what is in X.                                 *)
WithTwins(f, A, X, C) ==
  /\ A \subseteq C
  /\ \A x \in X : \A n : Twin(f, x, n) => n \in C
  /\ \A n \in C : n \in A \/ \E x \in X : Twin(f, x, n)

(* A name leads in the copy to the copy of what it leads to.               *)
LEMMA TwinLeads ==
  ASSUME NEW N, NEW E, NEW R, NEW h, NEW u, NEW f, NEW F, NEW Q,
         Cloned(N, E, R, h, u, f, F, Q)
  PROVE  \A w \in Seq(Indexed) : \A x : Leads(E, R[h], w, x) =>
           \E n : Twin(f, x, n) /\ Leads(F, Q[u], w, n)
<1> DEFINE T == EndsOf(E, R[h])
<1>1. /\ Forest(N, E, R) /\ h \in DOMAIN R
      /\ f \in [T -> Node \ N] /\ Q[u] = f[R[h]]
  BY Zenon DEF Cloned
<1>2. /\ R[h] \in T
      /\ \A n, c, m : <<n, c, m>> \in E => (n \in T <=> m \in T)
  BY <1>1, ForestTrees
<1>3. \A a, c, b, n, m :
         Twin(f, a, n) /\ Twin(f, b, m) /\ <<a, c, b>> \in E => <<n, c, m>> \in F
  BY CloneParts
<1> HIDE DEF T
<1>4. \A a \in T : Twin(f, a, f[a])
  BY <1>1 DEF Twin
<1>5. ASSUME NEW n, NEW c, NEW m, n \in T, <<n, c, m>> \in E
      PROVE  m \in T /\ <<f[n], c, f[m]>> \in F
  <2>1. m \in T
    BY <1>2, <1>5
  <2> QED BY <1>3, <1>4, <1>5, <2>1, Zenon
<1>6. Image(E, F, T, f)
  <2>1. \A n \in T : f[n] \in Node
    BY <1>1
  <2> QED BY <1>5, <2>1, Zenon DEF Image
<1>7. ASSUME NEW w \in Seq(Indexed), NEW x, Leads(E, R[h], w, x)
      PROVE  x \in T /\ Leads(F, f[R[h]], w, f[x])
  BY <1>2, <1>6, <1>7, ImageLeads
<1> QED BY <1>1, <1>4, <1>7, Zenon

(* With the copies there is a forest again.                                *)
LEMMA CloneForest ==
  ASSUME NEW N, NEW E, NEW R, NEW h, NEW u, NEW f, NEW F, NEW Q,
         Cloned(N, E, R, h, u, f, F, Q),
         NEW M, WithTwins(f, N, EndsOf(E, R[h]), M)
  PROVE  Forest(M, F, Q)
<1>1. /\ \A x, n : Twin(f, x, n) =>
           x \in EndsOf(E, R[h]) /\ x \in N /\ n \in Node /\ n \notin N
      /\ \A x, y, n : Twin(f, x, n) /\ Twin(f, y, n) => x = y
      /\ \A x, n, m : Twin(f, x, n) /\ Twin(f, x, m) => n = m
      /\ \A x \in EndsOf(E, R[h]) : \E n : Twin(f, x, n)
  BY CloneParts DEF Twins
<1>2. /\ Twin(f, R[h], Q[u])
      /\ \A n, c, m : <<n, c, m>> \in F =>
              \/ <<n, c, m>> \in E
              \/ TwinEdge(E, f, n, c, m)
      /\ E \subseteq F /\ F \subseteq E \cup (Node \X Indexed \X Node)
  BY CloneParts
<1>3. /\ Forest(N, E, R) /\ h \in DOMAIN R /\ u \notin DOMAIN R
      /\ DOMAIN Q = DOMAIN R \cup {u}
      /\ \A t \in DOMAIN R : Q[t] = R[t]
  BY Zenon DEF Cloned
<1>4. /\ N \in SUBSET Node /\ OneSon(E) /\ OnePlace(E)
      /\ E \subseteq N \X Indexed \X N
      /\ \A t \in DOMAIN R : R[t] \in N /\ First(E, R[t])
      /\ \A t, v \in DOMAIN R : R[t] = R[v] => t = v
      /\ Reached(N, E, R)
  BY <1>3 DEF Forest
<1>5. /\ \A n \in N : n \in M
      /\ \A x, n : Twin(f, x, n) => n \in M
      /\ \A n \in M : n \in N \/ \E x : Twin(f, x, n)
  BY <1>1, Zenon DEF WithTwins
<1>6. M \in SUBSET Node
  BY <1>5, <1>1, <1>4
<1>7. ASSUME NEW n, NEW c, NEW m, TwinEdge(E, f, n, c, m)
      PROVE  n \notin N /\ m \notin N /\ n \in M /\ m \in M /\ c \in Indexed
  <2>1. PICK x, y : Twin(f, x, n) /\ Twin(f, y, m) /\ <<x, c, y>> \in E
    BY <1>7, Zenon DEF TwinEdge
  <2>2. c \in Indexed
    BY <1>3, <2>1, ForestEdge
  <2> QED BY <1>5, <1>1, <2>1, <2>2
<1>8. \A n, c, m : <<n, c, m>> \in E => n \in N /\ m \in N /\ c \in Indexed
  BY <1>3, ForestEdge
<1>9. \A n, c, m : <<n, c, m>> \in F /\ (n \in N \/ m \in N) => <<n, c, m>> \in E
  BY <1>2, <1>7
<1>10. \A n, c, m : <<n, c, m>> \in F /\ (n \notin N \/ m \notin N) =>
         TwinEdge(E, f, n, c, m)
  BY <1>2, <1>8
<1>11. \A n, c, m : <<n, c, m>> \in F => n \in M /\ m \in M /\ c \in Indexed
  BY <1>5, <1>2, <1>7, <1>8
<1>12. F \subseteq M \X Indexed \X M
  <2> SUFFICES ASSUME NEW e \in F PROVE e \in M \X Indexed \X M
    OBVIOUS
  <2>1. PICK n, c, m : e = <<n, c, m>>
    BY <1>2, <1>4
  <2> QED BY <1>11, <2>1
<1>13. OneSon(F)
  <2> SUFFICES ASSUME NEW n, NEW c, NEW x, NEW y, <<n, c, x>> \in F, <<n, c, y>> \in F
               PROVE  x = y
    BY DEF OneSon
  <2>1. CASE n \in N
    BY <1>4, <1>9, <2>1 DEF OneSon
  <2>2. CASE n \notin N
    <3> TwinEdge(E, f, n, c, x) /\ TwinEdge(E, f, n, c, y)
      BY <1>10, <2>2
    <3>1. PICK a, b : Twin(f, a, n) /\ Twin(f, b, x) /\ <<a, c, b>> \in E
      BY Zenon DEF TwinEdge
    <3>2. PICK d, e : Twin(f, d, n) /\ Twin(f, e, y) /\ <<d, c, e>> \in E
      BY Zenon DEF TwinEdge
    <3>3. a = d
      BY <1>1, <3>1, <3>2, Zenon
    <3>4. b = e
      BY <1>4, <3>1, <3>2, <3>3 DEF OneSon
    <3> QED BY <1>1, <3>1, <3>2, <3>4
  <2> QED BY <2>1, <2>2
<1>14. OnePlace(F)
  <2> SUFFICES ASSUME NEW n, NEW c, NEW m, NEW d, NEW x,
                      <<n, c, x>> \in F, <<m, d, x>> \in F
               PROVE  n = m /\ c = d
    BY DEF OnePlace
  <2>1. CASE x \in N
    BY <1>4, <1>9, <2>1 DEF OnePlace
  <2>2. CASE x \notin N
    <3> TwinEdge(E, f, n, c, x) /\ TwinEdge(E, f, m, d, x)
      BY <1>10, <2>2
    <3>1. PICK a, b : Twin(f, a, n) /\ Twin(f, b, x) /\ <<a, c, b>> \in E
      BY Zenon DEF TwinEdge
    <3>2. PICK o, e : Twin(f, o, m) /\ Twin(f, e, x) /\ <<o, d, e>> \in E
      BY Zenon DEF TwinEdge
    <3>3. b = e
      BY <1>1, <3>1, <3>2, Zenon
    <3>4. a = o /\ c = d
      BY <1>4, <3>1, <3>2, <3>3 DEF OnePlace
    <3> QED BY <1>1, <3>1, <3>2, <3>4
  <2> QED BY <2>1, <2>2
<1>15. ASSUME NEW t \in DOMAIN Q PROVE Q[t] \in M /\ First(F, Q[t])
  <2>1. CASE t = u
    <3>1. Q[t] \in M /\ Q[t] \notin N
      BY <1>5, <1>1, <1>2, <2>1
    <3>2. ASSUME NEW n, NEW c, <<n, c, Q[t]>> \in F PROVE FALSE
      <4> TwinEdge(E, f, n, c, Q[t])
        BY <1>10, <3>1, <3>2
      <4>1. PICK a, b : Twin(f, b, Q[t]) /\ <<a, c, b>> \in E
        BY Zenon DEF TwinEdge
      <4>2. b = R[h]
        BY <1>1, <1>2, <2>1, <4>1
      <4> QED BY <1>3, <1>4, <4>1, <4>2 DEF First
    <3> QED BY <3>1, <3>2 DEF First
  <2>2. CASE t \in DOMAIN R
    <3>1. Q[t] = R[t] /\ R[t] \in N /\ First(E, R[t])
      BY <1>3, <1>4, <2>2
    <3>2. ASSUME NEW n, NEW c, <<n, c, R[t]>> \in F PROVE FALSE
      <4>1. <<n, c, R[t]>> \in E
        BY <1>9, <3>1, <3>2
      <4> QED BY <3>1, <4>1 DEF First
    <3> QED BY <1>5, <3>1, <3>2 DEF First
  <2> QED BY <1>3, <2>1, <2>2
<1>16. ASSUME NEW t \in DOMAIN Q, NEW v \in DOMAIN Q, Q[t] = Q[v] PROVE t = v
  <2>1. Q[u] \notin N
    BY <1>1, <1>2
  <2> QED BY <1>3, <1>4, <1>16, <2>1
<1>17. \A w \in Seq(Indexed) : \A x : Leads(E, R[h], w, x) =>
         \E n : Twin(f, x, n) /\ Leads(F, Q[u], w, n)
  BY TwinLeads
<1>18. Reached(M, F, Q)
  <2> SUFFICES ASSUME NEW x \in M
               PROVE  \E t \in DOMAIN Q, w \in Seq(Indexed) : Leads(F, Q[t], w, x)
    BY DEF Reached
  <2>1. CASE x \in N
    <3>1. PICK t \in DOMAIN R, w \in Seq(Indexed) : Leads(E, R[t], w, x)
      BY <1>4, <2>1 DEF Reached
    <3>2. Leads(F, R[t], w, x)
      BY <1>2, <3>1, LeadsMore
    <3> QED BY <1>3, <3>1, <3>2
  <2>2. CASE x \notin N
    <3>1. PICK n : Twin(f, n, x)
      BY <1>5, <2>2
    <3>2. n \in EndsOf(E, R[h])
      BY <3>1, CloneParts DEF Twins
    <3>3. PICK w \in Seq(Indexed) : Leads(E, R[h], w, n)
      BY <3>2 DEF EndsOf
    <3>4. PICK m : Twin(f, n, m) /\ Leads(F, Q[u], w, m)
      BY <1>17, <3>3
    <3>5. m = x
      BY <1>1, <3>1, <3>4
    <3> QED BY <1>3, <3>4, <3>5
  <2> QED BY <2>1, <2>2
<1> QED BY <1>6, <1>12, <1>13, <1>14, <1>15, <1>16, <1>18 DEF Forest

(* U has the values of V, and those of the copies.                         *)
Copied(f, V, U) ==
  /\ WithTwins(f, DOMAIN V, DOMAIN V, DOMAIN U)
  /\ \A n \in DOMAIN V : U[n] = V[n]
  /\ \A x \in DOMAIN V : \A n : Twin(f, x, n) => U[n] = V[x]

(* The entries of the copy are those of what was copied, those of the      *)
(* other tries as they were.                                               *)
LEMMA CloneEntries ==
  ASSUME NEW N, NEW E, NEW R, NEW h, NEW u, NEW f, NEW F, NEW Q,
         Cloned(N, E, R, h, u, f, F, Q),
         NEW M, WithTwins(f, N, EndsOf(E, R[h]), M),
         NEW V, DOMAIN V \subseteq N, NEW U,
         Copied(f, V, U)
  PROVE  /\ Entries(F, U, Q[u]) = Entries(E, V, R[h])
         /\ \A t \in DOMAIN R : Entries(F, U, Q[t]) = Entries(E, V, R[t])
<1>1. Forest(M, F, Q)
  BY CloneForest, ZenonT(60)
<1>2. /\ Forest(N, E, R) /\ h \in DOMAIN R /\ u \notin DOMAIN R
      /\ DOMAIN Q = DOMAIN R \cup {u}
      /\ \A t \in DOMAIN R : Q[t] = R[t]
  BY Zenon DEF Cloned
<1>3. /\ \A x, n : Twin(f, x, n) => x \in EndsOf(E, R[h]) /\ x \in N /\ n \notin N
      /\ \A x, y, n : Twin(f, x, n) /\ Twin(f, y, n) => x = y
      /\ E \subseteq F
  BY CloneParts DEF Twins
<1>4. /\ \A n \in DOMAIN V : n \in DOMAIN U
      /\ \A x \in DOMAIN V : \A n : Twin(f, x, n) => n \in DOMAIN U
      /\ \A n \in DOMAIN U : n \in DOMAIN V \/ \E x \in DOMAIN V : Twin(f, x, n)
  BY Zenon DEF WithTwins, Copied
<1>5. /\ \A n \in DOMAIN V : U[n] = V[n]
      /\ \A x \in DOMAIN V : \A n : Twin(f, x, n) => U[n] = V[x]
  BY Zenon DEF Copied
<1>6. OneSon(E) /\ OneSon(F) /\ Reached(N, E, R)
  BY <1>1, <1>2 DEF Forest
<1>7. \A w \in Seq(Indexed) : \A x : Leads(E, R[h], w, x) =>
        \E n : Twin(f, x, n) /\ Leads(F, Q[u], w, n)
  BY TwinLeads
<1>8. ASSUME NEW x \in N
      PROVE  \E t \in DOMAIN R, v \in Seq(Indexed) : Leads(E, R[t], v, x) /\ Leads(F, Q[t], v, x)
  <2>1. PICK t \in DOMAIN R, v \in Seq(Indexed) : Leads(E, R[t], v, x)
    BY <1>6 DEF Reached
  <2>2. Leads(F, Q[t], v, x)
    BY <1>2, <1>3, <2>1, LeadsMore
  <2> QED BY <2>1, <2>2
<1>9. ASSUME NEW x, NEW n, Twin(f, x, n)
      PROVE  \E v \in Seq(Indexed) : Leads(E, R[h], v, x) /\ Leads(F, Q[u], v, n)
  <2>1. PICK v \in Seq(Indexed) : Leads(E, R[h], v, x)
    BY <1>3, <1>9 DEF EndsOf
  <2>2. PICK m : Twin(f, x, m) /\ Leads(F, Q[u], v, m)
    BY <1>7, <2>1
  <2>3. m = n
    BY <1>9, <2>2 DEF Twin
  <2> QED BY <2>1, <2>2, <2>3
<1>10. Entries(F, U, Q[u]) = Entries(E, V, R[h])
  <2>1. ASSUME NEW w \in Key, NEW x \in DOMAIN V, Leads(E, R[h], w, x)
        PROVE  \E y \in DOMAIN U : Leads(F, Q[u], w, y) /\ U[y] = V[x]
    <3>1. PICK n : Twin(f, x, n) /\ Leads(F, Q[u], w, n)
      BY <1>7, <2>1, KeyIndexed
    <3> QED BY <1>4, <1>5, <2>1, <3>1, Zenon
  <2>2. ASSUME NEW w \in Key, NEW y \in DOMAIN U, Leads(F, Q[u], w, y)
        PROVE  \E x \in DOMAIN V : Leads(E, R[h], w, x)
    <3>1. CASE y \in N
      <4>1. PICK t \in DOMAIN R, v \in Seq(Indexed) : Leads(F, Q[t], v, y)
        BY <1>8, <3>1
      <4>2. t = u
        BY <1>1, <1>2, <2>2, <4>1, KeyIndexed, ForestOneName
      <4> QED BY <1>2, <4>2
    <3>2. CASE y \notin N
      <4>1. PICK x \in DOMAIN V : Twin(f, x, y)
        BY <1>4, <3>2, Zenon
      <4>2. PICK v \in Seq(Indexed) : Leads(E, R[h], v, x) /\ Leads(F, Q[u], v, y)
        BY <1>9, <4>1
      <4>3. v = w
        BY <1>1, <1>2, <2>2, <4>2, KeyIndexed, ForestOneName
      <4> QED BY <4>1, <4>2, <4>3
    <3> QED BY <3>1, <3>2
  <2> QED BY <1>6, <2>1, <2>2, SameEntries
<1>11. ASSUME NEW t \in DOMAIN R
       PROVE  Entries(F, U, Q[t]) = Entries(E, V, R[t])
  <2>1. ASSUME NEW w \in Key, NEW x \in DOMAIN V, Leads(E, R[t], w, x)
        PROVE  \E y \in DOMAIN U : Leads(F, Q[t], w, y) /\ U[y] = V[x]
    <3>1. Leads(F, Q[t], w, x)
      BY <1>2, <1>3, <2>1, LeadsMore
    <3> QED BY <1>4, <1>5, <2>1, <3>1, Zenon
  <2>2. ASSUME NEW w \in Key, NEW y \in DOMAIN U, Leads(F, Q[t], w, y)
        PROVE  \E x \in DOMAIN V : Leads(E, R[t], w, x)
    <3>1. CASE y \in DOMAIN V
      <4>1. PICK s \in DOMAIN R, v \in Seq(Indexed) : Leads(E, R[s], v, y) /\ Leads(F, Q[s], v, y)
        BY <1>8, <3>1
      <4>2. s = t /\ v = w
        BY <1>1, <1>2, <2>2, <4>1, KeyIndexed, ForestOneName
      <4> QED BY <3>1, <4>1, <4>2
    <3>2. CASE y \notin DOMAIN V
      <4>1. PICK x \in DOMAIN V : Twin(f, x, y)
        BY <1>4, <3>2, Zenon
      <4>2. PICK v \in Seq(Indexed) : Leads(F, Q[u], v, y)
        BY <1>9, <4>1
      <4>3. t = u
        BY <1>1, <1>2, <2>2, <4>2, KeyIndexed, ForestOneName
      <4> QED BY <1>2, <4>3
    <3> QED BY <3>1, <3>2
  <2> QED BY <1>6, <2>1, <2>2, SameEntries
<1> QED BY <1>10, <1>11

(* What a clone does is of this kind.                                      *)
LEMMA CloneParticular ==
  ASSUME TrieInv, NEW h \in Holder, NEW u \in Holder, TrieClone(h, u)
  PROVE  \E f : /\ Cloned(nodes, edges, root, h, u, f, edges', root')
                /\ WithTwins(f, nodes, EndsOf(edges, root[h]), nodes')
                /\ Copied(f, value, value')
<1> DEFINE T == EndsOf(edges, root[h])
<1>1. h \in DOMAIN root /\ u \notin DOMAIN root
  BY Zenon DEF TrieClone
<1> DEFINE P(X, f) ==
      /\ \A m, n \in X : f[m] = f[n] => m = n
      /\ nodes' = nodes \cup {f[n] : n \in X}
      /\ edges' = edges \cup Copies(edges, X, f)
      /\ value' = [n \in DOMAIN value \cup {f[m] : m \in X \cap DOMAIN value} |->
                     IF n \in nodes THEN value[n]
                     ELSE value[CHOOSE m \in X : f[m] = n]]
      /\ root' = With(root, u, f[root[h]])
<1>2. \E f \in [Tree(edges, root[h]) -> Node \ nodes] : P(Tree(edges, root[h]), f)
  BY Zenon DEF TrieClone, Copies
<1>3. Tree(edges, root[h]) = T
  BY <1>1, TreeOfTrie
<1> HIDE DEF P, T
<1>4. PICK f \in [T -> Node \ nodes] : P(T, f)
  BY <1>2, <1>3
<1> USE DEF T
<1>5. /\ \A m, n \in T : f[m] = f[n] => m = n
      /\ nodes' = nodes \cup {f[n] : n \in T}
      /\ edges' = edges \cup Copies(edges, T, f)
      /\ value' = [n \in DOMAIN value \cup {f[m] : m \in T \cap DOMAIN value} |->
                     IF n \in nodes THEN value[n]
                     ELSE value[CHOOSE m \in T : f[m] = n]]
      /\ root' = With(root, u, f[root[h]])
  BY <1>4, Zenon DEF P
<1>6. Forest(nodes, edges, root) /\ DOMAIN value \subseteq nodes
  BY Zenon DEF TrieInv
<1>7. /\ DOMAIN root' = DOMAIN root \cup {u} /\ root'[u] = f[root[h]]
      /\ \A t \in DOMAIN root : root'[t] = root[t]
  BY <1>1, <1>5, Zenon DEF With
<1>8. DOMAIN f = T /\ \A x, y \in T : f[x] = f[y] => x = y
  BY <1>5, <1>4, Zenon
<1>9. Cloned(nodes, edges, root, h, u, f, edges', root')
  BY <1>1, <1>5, <1>6, <1>7, Zenon DEF Cloned
<1>10. /\ DOMAIN value' = DOMAIN value \cup {f[m] : m \in T \cap DOMAIN value}
       /\ \A n \in DOMAIN value' : value'[n] =
            IF n \in nodes THEN value[n] ELSE value[CHOOSE m \in T : f[m] = n]
       /\ nodes' = nodes \cup {f[n] : n \in T}
  BY <1>5, Zenon
<1>11. T \in SUBSET nodes
  BY <1>1, <1>6, ForestTrees
<1>12. \A m \in T : f[m] \notin nodes
  BY <1>4
<1> HIDE DEF T
<1>13. WithTwins(f, nodes, T, nodes')
  <2>1. /\ nodes \subseteq nodes'
        /\ \A x \in T : \A n : Twin(f, x, n) => n \in nodes'
        /\ \A n \in nodes' : n \in nodes \/ \E x \in T : n = f[x]
    BY <1>10 DEF Twin
  <2> QED BY <1>8, <2>1, Zenon DEF WithTwins, Twin
<1>14. WithTwins(f, DOMAIN value, DOMAIN value, DOMAIN value')
  <2>1. DOMAIN value \subseteq DOMAIN value'
    BY <1>10
  <2>2. ASSUME NEW x \in DOMAIN value, NEW n, Twin(f, x, n) PROVE n \in DOMAIN value'
    BY <1>8, <1>10, <2>2, Zenon DEF Twin
  <2>3. ASSUME NEW n \in DOMAIN value', n \notin DOMAIN value
        PROVE  \E x \in DOMAIN value : Twin(f, x, n)
    <3>1. PICK x \in T \cap DOMAIN value : n = f[x]
      BY <1>10, <2>3, Zenon
    <3> QED BY <1>8, <3>1 DEF Twin
  <2> QED BY <2>1, <2>2, <2>3, Zenon DEF WithTwins
<1>15. \A n \in DOMAIN value : value'[n] = value[n]
  <2>1. \A n \in DOMAIN value : n \in nodes /\ n \in DOMAIN value'
    BY <1>6, <1>10
  <2> QED BY <1>10, <2>1, Zenon
<1>16. ASSUME NEW x \in DOMAIN value, NEW n, Twin(f, x, n)
       PROVE  value'[n] = value[x]
  <2> DEFINE m == CHOOSE m \in T : f[m] = n
  <2>1. x \in T /\ f[x] = n /\ n \notin nodes /\ n \in DOMAIN value'
    BY <1>8, <1>10, <1>12, <1>16, Zenon DEF Twin
  <2>2. m \in T /\ f[m] = n
    BY <2>1, Zenon
  <2>3. value'[n] = value[m]
    BY <1>10, <2>1, Zenon
  <2> HIDE DEF m
  <2>4. m = x
    BY <1>8, <2>1, <2>2
  <2> QED BY <2>3, <2>4
<1> QED BY <1>9, <1>13, <1>14, <1>15, <1>16, Zenon DEF Copied, T

(* Cloning: a forest again, and a second map with the same entries.        *)
LEMMA CloneStep ==
  ASSUME TrieInv, NEW h \in Holder, NEW u \in Holder, TrieClone(h, u)
  PROVE  TrieInv' /\ Map!Clone(h, u)
<1>1. /\ h \in DOMAIN root /\ u \notin DOMAIN root
      /\ answer' = "success" /\ out' = out
      /\ root' = [t \in DOMAIN root' |-> root'[t]]
      /\ value' = [n \in DOMAIN value' |-> value'[n]]
  BY Zenon DEF TrieClone, With
<1>2. /\ Forest(nodes, edges, root) /\ DOMAIN root \subseteq Holder
      /\ DOMAIN value \subseteq nodes
  BY Zenon DEF TrieInv
<1>3. PICK f : /\ Cloned(nodes, edges, root, h, u, f, edges', root')
               /\ WithTwins(f, nodes, EndsOf(edges, root[h]), nodes')
               /\ Copied(f, value, value')
  BY CloneParticular, Zenon
<1>4. Forest(nodes', edges', root')
  BY <1>3, CloneForest
<1>5. DOMAIN root' = DOMAIN root \cup {u}
  BY <1>3, Zenon DEF Cloned
<1>6. DOMAIN value' \subseteq nodes'
  <2>1. /\ nodes \subseteq nodes'
        /\ \A x \in EndsOf(edges, root[h]) : \A n : Twin(f, x, n) => n \in nodes'
        /\ \A n \in DOMAIN value' : n \in DOMAIN value \/ \E x \in DOMAIN value : Twin(f, x, n)
    BY <1>3, Zenon DEF WithTwins, Copied
  <2>2. \A x, n : Twin(f, x, n) => x \in EndsOf(edges, root[h])
    BY <1>3, CloneParts DEF Twins
  <2> QED BY <1>2, <2>1, <2>2
<1>7. TrieInv'
  BY <1>1, <1>2, <1>4, <1>5, <1>6 DEF TrieInv
<1> DEFINE A == MapOf(edges, value, root)
           B == MapOf(edges', value', root')
           C == With(A, u, A[h])
<1>8. /\ DOMAIN A = DOMAIN root /\ DOMAIN B = DOMAIN root'
      /\ B = [t \in DOMAIN B |-> B[t]]
      /\ \A t \in DOMAIN root : A[t] = Entries(edges, value, root[t])
      /\ \A t \in DOMAIN root' : B[t] = Entries(edges', value', root'[t])
  BY Zenon DEF MapOf
<1> HIDE DEF A, B
<1>9. /\ C = [t \in DOMAIN C |-> C[t]]
      /\ DOMAIN C = DOMAIN A \cup {u} /\ C[u] = A[h]
      /\ \A t \in DOMAIN A : t # u => C[t] = A[t]
  BY Zenon DEF With
<1> HIDE DEF C
<1>10. /\ Entries(edges', value', root'[u]) = Entries(edges, value, root[h])
       /\ \A t \in DOMAIN root :
            Entries(edges', value', root'[t]) = Entries(edges, value, root[t])
  BY <1>2, <1>3, CloneEntries
<1>11. DOMAIN B = DOMAIN C /\ \A t \in DOMAIN B : B[t] = C[t]
  BY <1>1, <1>5, <1>8, <1>10, <1>9
<1>12. B = C
  BY <1>8, <1>11, <1>9, Zenon
<1> QED BY <1>1, <1>7, <1>8, <1>12, Zenon DEF A, B, C, Map!Clone, Map!With, With, MapOf

-----------------------------------------------------------------------------
(* At the start there is no trie and no map.                               *)
LEMMA TrieInvInit == TrieInit => TrieInv /\ Map!MapInit
<1> SUFFICES ASSUME TrieInit PROVE TrieInv /\ Map!MapInit
  OBVIOUS
<1>1. /\ nodes = {} /\ edges = {} /\ value = <<>> /\ root = <<>>
      /\ answer = "success" /\ out = Null
  BY Zenon DEF TrieInit
<1>2. DOMAIN <<>> = {} /\ <<>> = [x \in DOMAIN <<>> |-> <<>>[x]]
  OBVIOUS
<1>3. DOMAIN root = {} /\ DOMAIN value = {}
  BY <1>1, <1>2, Zenon
<1>4. Forest(nodes, edges, root)
  BY <1>1, <1>3 DEF Forest, OneSon, OnePlace, First, Reached
<1>5. TrieInv
  <2>1. /\ root = [x \in DOMAIN root |-> root[x]] /\ value = [x \in DOMAIN value |-> value[x]]
    BY <1>1, <1>2, Zenon
  <2>2. DOMAIN root \subseteq Holder /\ DOMAIN value \subseteq nodes
    BY <1>3
  <2> QED BY <1>4, <2>1, <2>2, Zenon DEF TrieInv
<1>6. MapOf(edges, value, root) = <<>>
  BY <1>3 DEF MapOf
<1> QED BY <1>1, <1>5, <1>6, Zenon DEF Map!MapInit, MapOf

(* Each step keeps the forest and is a step of the maps.                   *)
LEMMA TrieInvStep ==
  TrieInv /\ [TrieNext]_trieVars => TrieInv' /\ [Map!MapNext]_(Map!mapVars)
<1> SUFFICES ASSUME TrieInv, [TrieNext]_trieVars
             PROVE  TrieInv' /\ [Map!MapNext]_(Map!mapVars)
  OBVIOUS
<1>1. CASE UNCHANGED trieVars
  <2>1. /\ nodes' = nodes /\ edges' = edges /\ value' = value /\ root' = root
        /\ answer' = answer /\ out' = out
    BY <1>1, Zenon DEF trieVars
  <2>2. TrieInv'
    BY <2>1, Zenon DEF TrieInv, Forest, Reached
  <2> QED BY <2>1, <2>2, Zenon DEF Map!mapVars
<1>2. ASSUME NEW h \in Holder, TrieCreate(h)
      PROVE  TrieInv' /\ Map!MapNext
  BY <1>2, CreateStep, Zenon DEF Map!MapNext
<1>3. ASSUME NEW h \in Holder, NEW w \in Names \cap Seq(Byte), NEW d \in Data, TrieInsert(h, w, d)
      PROVE  TrieInv' /\ Map!MapNext
  <2>1. w \in Names /\ w \in Seq(Byte)
    OBVIOUS
  <2> QED BY <1>3, <2>1, InsertStep, Zenon DEF Map!MapNext
<1>4. ASSUME NEW h \in Holder, NEW w \in Names \cap Seq(Byte), NEW o \in Data \cup {Null},
             TrieQuery(h, w, o)
      PROVE  TrieInv' /\ Map!MapNext
  <2>1. w \in Names /\ w \in Seq(Byte)
    OBVIOUS
  <2> QED BY <1>4, <2>1, QueryStep, Zenon DEF Map!MapNext
<1>5. ASSUME NEW h \in Holder, NEW g \in [Data -> Data], TrieVisit(h, g)
      PROVE  TrieInv' /\ Map!MapNext
  BY <1>5, VisitStep, Zenon DEF Map!MapNext
<1>6. ASSUME NEW h \in Holder, NEW u \in Holder, TrieClone(h, u)
      PROVE  TrieInv' /\ Map!MapNext
  BY <1>6, CloneStep, Zenon DEF Map!MapNext
<1>7. ASSUME NEW h \in Holder, TrieRelease(h)
      PROVE  TrieInv' /\ Map!MapNext
  BY <1>7, ReleaseStep, Zenon DEF Map!MapNext
<1>8. CASE TrieNext
  BY <1>2, <1>3, <1>4, <1>5, <1>6, <1>7, <1>8, Zenon DEF TrieNext
<1> QED BY <1>1, <1>8, Zenon

(* In every reachable state the nodes on the heap are a forest of the      *)
(* tries in use, whatever was inserted, cloned and released before.        *)
THEOREM TrieSafe == TrieSpec => []TrieInv
<1>1. TrieInit => TrieInv
  BY TrieInvInit, Zenon
<1>2. TrieInv /\ [TrieNext]_trieVars => TrieInv'
  BY TrieInvStep, Zenon
<1> QED BY <1>1, <1>2, PTL DEF TrieSpec

(* Each allocated node is in one tree and has one place there: the         *)
(* recursive release (trie.c:49) frees a node once and those of no other   *)
(* trie, and when the last trie is released nothing is left.               *)
THEOREM NodesHaveOnePlaceAlways == TrieSpec => []NodesHaveOnePlace
<1>1. TrieInv => NodesHaveOnePlace
  <2> SUFFICES ASSUME TrieInv PROVE NodesHaveOnePlace
    OBVIOUS
  <2>1. Forest(nodes, edges, root)
    BY Zenon DEF TrieInv
  <2>2. \A h \in DOMAIN root : Tree(edges, root[h]) = EndsOf(edges, root[h])
    BY TreeOfTrie
  <2>3. /\ \A n \in nodes : \E h \in DOMAIN root : n \in EndsOf(edges, root[h])
        /\ \A h, t \in DOMAIN root : \A n \in EndsOf(edges, root[h]) :
             n \in EndsOf(edges, root[t]) => h = t
    BY <2>1, ForestTrees
  <2>4. \A e \in edges : e = <<e[1], e[2], e[3]>>
    BY <2>1 DEF Forest
  <2>5. ASSUME NEW n \in nodes, NEW h \in DOMAIN root, n = root[h], NEW e \in edges
        PROVE  e[3] # n
    BY <2>1, <2>4, <2>5 DEF Forest, First
  <2>6. ASSUME NEW n \in nodes, NEW e \in edges, NEW f \in edges, e[3] = n, f[3] = n
        PROVE  e = f
    BY <2>1, <2>4, <2>6 DEF Forest, OnePlace
  <2>7. ASSUME NEW n \in nodes
        PROVE  \E h \in DOMAIN root :
                 /\ n \in Tree(edges, root[h])
                 /\ \A t \in DOMAIN root : n \in Tree(edges, root[t]) => t = h
                 /\ n = root[h] => \A e \in edges : e[3] # n
    <3>1. PICK h \in DOMAIN root : n \in EndsOf(edges, root[h])
      BY <2>3
    <3>2. \A t \in DOMAIN root : n \in Tree(edges, root[t]) => t = h
      BY <2>2, <2>3, <3>1
    <3> QED BY <2>2, <2>5, <3>1, <3>2, Zenon
  <2> QED BY <2>6, <2>7, Zenon DEF NodesHaveOnePlace
<1> QED BY <1>1, TrieSafe, PTL

(* The tries of trie.c implement the maps that trie.h promises: a query    *)
(* finds what was inserted last under exactly that name, whatever else was *)
(* inserted, visited, cloned or released between, and whatever the names   *)
(* share.                                                                  *)
THEOREM TriesImplementMaps == TrieSpec => TriesAreMaps
<1>1. TrieInit => Map!MapInit
  BY TrieInvInit, Zenon
<1>2. TrieInv /\ [TrieNext]_trieVars => [Map!MapNext]_(Map!mapVars)
  BY TrieInvStep, Zenon
<1> QED BY <1>1, <1>2, TrieSafe, PTL DEF TrieSpec, TriesAreMaps, Map!MapSpec
=============================================================================
