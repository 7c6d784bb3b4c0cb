-------------------------- MODULE RelaxExecutable --------------------------
(***************************************************************************)
(* Loading a Relax executable from the blob of a library                   *)
(* (relax_executable_module.c) and creating a virtual machine over it      *)
(* (relax_vm.c).                                                           *)
(*                                                                         *)
(* A section is drawn as it is read; every read may fail.  What the code   *)
(* does is RelaxVM's; here a function is a kind, a constant is a kind, and *)
(* a call is the number of its arguments and the constant it names.        *)
(* Memory is a set of blocks <<what, index>>.                              *)
(***************************************************************************)
EXTENDS Naturals, Sequences

CONSTANTS
  MaxFuncs, MaxConsts, MaxCalls, MaxArgs     \* bounds

VARIABLES
  pc,         \* the section that is next, or what became of the load
  heap,       \* blocks that are allocated
  held,       \* blocks the module, or the machine, points at
  owner,      \* of the module: "user" or "machine"
  left,       \* constants the machine that is created still has to make
  funcs,      \* relax_functions: kinds
  consts,     \* constants: kinds
  calls,      \* call instructions: [args, const], NoConst if there is none
  limit,      \* max_num_call_args
  device      \* devices[0] of the machine that is created

vars == <<pc, heap, held, owner, left, funcs, consts, calls, limit, device>>

NoConst == 0

(* Functions of the virtual machine; packed ones: the null value, those    *)
(* the module or the global table knows, others; kinds that are refused.   *)
Refused == {"tir", "big"}
Named   == {"null value", "known", "unknown"}
FuncKind == {"vm"} \cup Named \cup Refused

(* A slot that was cleared and never filled: packed, with no name.         *)
Cleared == "cleared"

(* A tensor that is not aligned is copied; the others stay in the blob.    *)
ConstKind == {"tensor", "copied tensor", "object", "value"}

Upto(S, n) == UNION {[1 .. k -> S] : k \in 0 .. n}

One(what) == {<<what, 0>>}
Each(what, I) == {<<what, i>> : i \in I}

Init ==
  /\ pc = "idle"
  /\ heap = {} /\ held = {}
  /\ owner = "user"
  /\ left = 0
  /\ funcs = <<>> /\ consts = <<>> /\ calls = <<>>
  /\ limit = 0
  /\ device = "cpu"

-----------------------------------------------------------------------------
(* The reader of the library frees the array of modules, and nothing else: *)
(* the module is lost, with what the section had allocated until then.     *)
Lost ==
  /\ held' = {}
  /\ pc' = "failed"
  /\ UNCHANGED <<heap, owner, left, funcs, consts, calls, limit, device>>

Adds(blocks) == heap' = heap \cup blocks /\ held' = held \cup blocks

(* The magic, and the module, which the caller gets from here on.          *)
Open ==
  /\ pc = "idle"
  /\ \/ Adds(One("module")) /\ pc' = "globals"
     \/ pc' = "failed" /\ UNCHANGED <<heap, held>>
  /\ UNCHANGED <<owner, left, funcs, consts, calls, limit, device>>

(* The functions as they are kept when the table fs is read: a function    *)
(* that is refused ends the section, without an error.                     *)
Kept(fs) ==
  [i \in DOMAIN fs |->
     IF \E j \in 1 .. i - 1 : fs[j] \in Refused THEN Cleared ELSE fs[i]]

(* A function of the machine has a map of its parameters, unless its       *)
(* register file is too big.                                               *)
LoadGlobals ==
  /\ pc = "globals"
  /\ \/ \E fs \in Upto(FuncKind, MaxFuncs) :
          /\ funcs' = Kept(fs)
          /\ Adds(One("map") \cup One("functions")
                    \cup Each("params", {i \in DOMAIN fs : funcs'[i] = "vm"}))
          /\ pc' = "constants"
          /\ UNCHANGED <<owner, left, consts, calls, limit, device>>
     \/ Lost

LoadConstants ==
  /\ pc = "constants"
  /\ \/ /\ consts' \in Upto(ConstKind, MaxConsts)
        /\ Adds(One("constants")
                  \cup Each("data", {i \in DOMAIN consts' :
                                        consts'[i] = "copied tensor"}))
        /\ pc' = "code"
        /\ UNCHANGED <<owner, left, funcs, calls, limit, device>>
     \/ Lost

(* The largest number of arguments, for the arrays of the machine.         *)
MaxCallArgs(cs) ==
  CHOOSE n \in 0 .. MaxArgs :
    /\ \A i \in DOMAIN cs : cs[i].args <= n
    /\ n = 0 \/ \E i \in DOMAIN cs : cs[i].args = n

(* Constants are checked against their table; functions as arguments are   *)
(* refused.                                                                *)
CallOf == {c \in [args : 0 .. MaxArgs, const : {NoConst} \cup DOMAIN consts] :
             c.const # NoConst => c.args > 0}

LoadCode ==
  /\ pc = "code"
  /\ \/ /\ calls' \in Upto(CallOf, MaxCalls)
        /\ limit' = MaxCallArgs(calls')
        /\ Adds(One("instructions") \cup Each("args", DOMAIN calls'))
        /\ pc' = "loaded"
        /\ UNCHANGED <<owner, left, funcs, consts, device>>
     \/ Lost

-----------------------------------------------------------------------------
Kinds == {funcs[i] : i \in DOMAIN funcs}

(* Names are looked up in the module, then in the global table, if there   *)
(* is one to look up.                                                      *)
LooksUp == Kinds \cap Named # {}
Fails == "unknown" \in Kinds
ReadsNoName == LooksUp /\ Cleared \in Kinds

(* The name that is not there is read: at address 0 it may be readable.    *)
CreateBegin ==
  /\ pc = "loaded"
  /\ device' \in {"cpu", "gpu"}
  /\ \/ /\ ~Fails /\ ~ReadsNoName
        /\ Adds(One("registers"))
        /\ left' = Len(consts)
        /\ pc' = "setup"
     \/ /\ Fails \/ ReadsNoName
        /\ UNCHANGED <<pc, heap, held, left>>
     \/ /\ ~Fails /\ ReadsNoName
        /\ pc' = "undefined"
        /\ UNCHANGED <<heap, held, left>>
  /\ UNCHANGED <<owner, funcs, consts, calls, limit>>

Current == Len(consts) + 1 - left

(* Faulty variant: the constants made before it are released, which for an *)
(* object is memory inside the table. *)
CleanupAll(i) == IF i = 1 THEN {} ELSE One("constants")

(* The cleanup loop releases the tensor that failed, once for each that    *)
(* was made before it: the first time counts, and there is one unless the  *)
(* tensor is the first constant.                                           *)
Cleanup(i) == IF i = 1 THEN {} ELSE Each("managed", {i})

(* Tensors of the host are used where they are.  For another device a      *)
(* tensor is created whose fields are not set, and the copy compares its   *)
(* size: it fails, or reads what the memory held.                          *)
SetupConstant ==
  /\ pc = "setup" /\ left > 0
  /\ \/ /\ consts[Current] \in {"object", "value"} \/ device = "cpu"
        /\ left' = left - 1
        /\ UNCHANGED <<pc, heap, held>>
     \/ /\ consts[Current] \in {"tensor", "copied tensor"} /\ device = "gpu"
        /\ \/ /\ heap' = (heap \cup Each("managed", {Current}))
                            \ (Cleanup(Current) \cup One("registers"))
              /\ held' = held \ One("registers")
              /\ left' = 0
              /\ pc' = "loaded"
           \/ pc' = "undefined" /\ UNCHANGED <<heap, held, left>>
  /\ UNCHANGED <<owner, funcs, consts, calls, limit, device>>

Machine == One("vm") \cup One("typecodes") \cup One("values")
             \cup One("devices") \cup One("io map")

CreateEnd ==
  /\ pc = "setup" /\ left = 0
  /\ Adds(Machine)
  /\ owner' = "machine"
  /\ pc' = "machine"
  /\ UNCHANGED <<left, funcs, consts, calls, limit, device>>

(* The user releases the module, or frees the machine, which releases it.  *)
Release ==
  /\ pc \in {"loaded", "machine"}
  /\ heap' = heap \ held /\ held' = {}
  /\ owner' = "released"
  /\ pc' = "freed"
  /\ UNCHANGED <<left, funcs, consts, calls, limit, device>>

Next ==
  \/ Open \/ LoadGlobals \/ LoadConstants \/ LoadCode
  \/ CreateBegin \/ SetupConstant \/ CreateEnd
  \/ Release

Spec == Init /\ [][Next]_vars

-----------------------------------------------------------------------------
(* The state is well formed.                                               *)
RelaxExecutableTypeOK ==
  /\ pc \in {"idle", "globals", "constants", "code", "loaded", "setup",
             "machine", "failed", "freed", "undefined"}
  /\ owner \in {"user", "machine", "released"}
  /\ left \in 0 .. MaxConsts
  /\ funcs \in Seq(FuncKind \cup {Cleared})
  /\ consts \in Seq(ConstKind)
  /\ calls \in Seq([args : 0 .. MaxArgs, const : 0 .. MaxConsts])
  /\ limit \in 0 .. MaxArgs
  /\ device \in {"cpu", "gpu"}

(* What is lost: all of a module whose load fails, and the tensor made for *)
(* a device when the first constant is one.                                *)
RelaxLoses ==
  IF pc = "failed" THEN heap
  ELSE Each("managed", {i \in DOMAIN consts :
                          i = 1 /\ consts[i] \in {"tensor", "copied tensor"}})

(* A machine has its constants where they are, room for the arguments of   *)
(* every call, and every function it may call, or an unsupported function  *)
(* in front of those it has not.                                           *)
RelaxMachineIsComplete ==
  pc = "machine" =>
    /\ One("constants") \subseteq held
    /\ \A i \in DOMAIN consts :
         consts[i] = "copied tensor" => <<"data", i>> \in held
    /\ \A i \in DOMAIN calls :
         /\ calls[i].args <= limit
         /\ calls[i].const \in {NoConst} \cup DOMAIN consts
    /\ \A i \in DOMAIN funcs :
         /\ funcs[i] # "unknown"
         /\ funcs[i] = "vm" => <<"params", i>> \in held
         /\ funcs[i] = Cleared => \E j \in 1 .. i - 1 : funcs[j] \in Refused
=============================================================================
