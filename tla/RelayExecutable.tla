-------------------------- MODULE RelayExecutable --------------------------
(***************************************************************************)
(* Loading a Relay executable (relay_executable.c, relay_instruction.c)    *)
(* from a stream, section by section, and creating the virtual machine     *)
(* over it (relay_vm.c).                                                   *)
(*                                                                         *)
(* The sections are drawn as they are read: every read may fail.  What the *)
(* functions compute is RelayVM's; here a function is its name and the     *)
(* place it is read at.  Memory is a set of blocks <<what, index>>.        *)
(***************************************************************************)
EXTENDS Naturals, Sequences

CONSTANTS
  Name,        \* names of functions
  Undefined,   \* an empty slot
  MaxLen       \* bound: elements of a section

VARIABLES
  pc,         \* the section that is next, or what became of the load
  heap,       \* blocks that are allocated
  held,       \* blocks the executable, or the machine, points at
  owner,      \* of the library module: "user" or "machine"
  left,       \* elements of the section that are still to be handled
  source,     \* a file, bytes, or bytes that end with the last instruction
  devs,       \* devices: types
  names,      \* global_map: the name of each function index
  consts,     \* constant_tensors: device index, LateBound for a name
  fnames,     \* names of the functions, in the order they are read
  slots       \* functions: at each index, the function that is there

vars == <<pc, heap, held, owner, left, source, devs, names, consts, fnames,
          slots>>

LateBound == 0

SeqUpTo(S, n) == UNION {[1 .. k -> S] : k \in 0 .. n}

Block(what) == <<what, 0>>
Blocks(what, I) == {<<what, i>> : i \in I}

Init ==
  /\ pc = "idle"
  /\ heap = {} /\ held = {}
  /\ owner = "user"
  /\ left = 0
  /\ source \in {"file", "bytes", "exact bytes"}
  /\ devs = <<>> /\ names = <<>> /\ consts = <<>> /\ fnames = <<>>
  /\ slots = <<>>

-----------------------------------------------------------------------------
(* RelayExecutableFree: everything that is pointed at.                     *)
Freed == heap' = heap \ held /\ held' = {}

(* Faulty variant: the executable has the module from the start. *)
FailReleasing ==
  /\ Freed
  /\ owner' = "released"
  /\ pc' = "failed"
  /\ UNCHANGED <<left, source, devs, names, consts, fnames, slots>>

(* In the middle of a load the module is not the executable's yet.  What   *)
(* the section had allocated is the executable's already, and is freed.    *)
Fail ==
  /\ Freed
  /\ pc' = "failed"
  /\ UNCHANGED <<owner, left, source, devs, names, consts, fnames, slots>>

Adds(blocks) == heap' = heap \cup blocks /\ held' = held \cup blocks

(* The reader, which only a file's gives back when it is freed, the header *)
(* and the executable.                                                     *)
Open ==
  /\ pc = "idle"
  /\ LET reader == IF source = "file" THEN {} ELSE {Block("reader")}
     IN \/ /\ heap' = heap \cup reader
           /\ pc' = "failed"
           /\ UNCHANGED held
        \/ /\ heap' = heap \cup reader \cup {Block("exe")}
           /\ held' = {Block("exe")}
           /\ pc' = "devices"
  /\ UNCHANGED <<owner, left, source, devs, names, consts, fnames, slots>>

(* There is a host device, so there is a device.                           *)
LoadVirtualDevices ==
  /\ pc = "devices"
  /\ \/ /\ devs' \in SeqUpTo({"cpu", "gpu"}, MaxLen) \ {<<>>}
        /\ Adds({Block("devices")})
        /\ pc' = "globals"
        /\ UNCHANGED <<owner, left, source, names, consts, fnames, slots>>
     \/ Fail

LoadGlobals ==
  /\ pc = "globals"
  /\ \/ /\ names' \in SeqUpTo(Name, MaxLen)
        /\ Adds({Block("global_map")})
        /\ pc' = "constants"
        /\ UNCHANGED <<owner, left, source, devs, consts, fnames, slots>>
     \/ Fail

(* Immediate tensors, each with the index of its device, and the names of  *)
(* late bound ones.                                                        *)
LoadConstants ==
  /\ pc = "constants"
  /\ \/ /\ consts' \in SeqUpTo(DOMAIN devs \cup {LateBound}, MaxLen)
        /\ LET late == {i \in DOMAIN consts' : consts'[i] = LateBound}
               read == DOMAIN consts' \ late
           IN Adds({Block("constants"), Block("indices")}
                     \cup Blocks("shape", read) \cup Blocks("data", read)
                     \cup Blocks("late", late))
        /\ pc' = "names"
        /\ UNCHANGED <<owner, left, source, devs, names, fnames, slots>>
     \/ Fail

(* Every packed function is looked up in the module.                       *)
LoadPrimitiveNames ==
  /\ pc = "names"
  /\ \/ /\ Adds({Block("packed")})
        /\ pc' = "functions"
        /\ UNCHANGED <<owner, left, source, devs, names, consts, fnames,
                       slots>>
     \/ Fail

(* The reader of bytes refuses the read that ends where the bytes end.     *)
ReadsOn == source # "exact bytes"

(* The array of functions, empty.                                          *)
LoadCode ==
  /\ pc = "functions"
  /\ \/ \E n \in 0 .. MaxLen :
          /\ n = 0 => ReadsOn
          /\ slots' = [i \in 1 .. n |-> Undefined]
          /\ left' = n
          /\ Adds({Block("functions")})
          /\ pc' = "code"
          /\ UNCHANGED <<owner, source, devs, names, consts, fnames>>
     \/ Fail

(* The index of a name is that of its last insertion in global_map.        *)
IsIndex(i, n) ==
  /\ i \in DOMAIN names /\ names[i] = n
  /\ \A j \in DOMAIN names : j > i => names[j] # n

(* Faulty variant: the functions are kept in the order they are read. *)
PutInOrder(k, i) ==
  /\ k \in DOMAIN slots
  /\ slots' = [slots EXCEPT ![k] = k]
  /\ heap' = heap \cup {<<"function", k>>}
  /\ held' = held \cup {<<"function", k>>}
  /\ pc' = pc

(* The function that was read is put at the index of its name; one that    *)
(* was there is lost.  An index outside the array is memory that is not    *)
(* the executable's.                                                       *)
Put(k, i) ==
  IF i \in DOMAIN slots
  THEN /\ slots' = [slots EXCEPT ![i] = k]
       /\ heap' = heap \cup {<<"function", k>>}
       /\ held' = (held \cup {<<"function", k>>}) \ {<<"function", slots[i]>>}
       /\ pc' = pc
  ELSE pc' = "undefined" /\ UNCHANGED <<heap, held, slots>>

(* RelayFunctionCreateFromReader: a function named n has been read.  If    *)
(* global_map has no such name the load fails, and the function is lost.   *)
FunctionRead(n) ==
  /\ fnames' = Append(fnames, n)
  /\ \/ /\ \E i \in DOMAIN names :
              IsIndex(i, n) /\ Put(Len(fnames'), i)
        /\ left' = left - 1
        /\ UNCHANGED <<owner, source, devs, names, consts>>
     \/ /\ \A i \in DOMAIN names : names[i] # n
        /\ heap' = (heap \ held) \cup {<<"function", Len(fnames')>>}
        /\ held' = {}
        /\ pc' = "failed"
        /\ UNCHANGED <<owner, left, source, devs, names, consts, slots>>

(* A read that fails, a hash or a number of fields that is wrong, and an   *)
(* opcode that is not known: the function is freed as far as it is read.   *)
FunctionRefused == Fail

(* A read into the buffer that fails: the function is freed but the status *)
(* stays 0, and the caller reads its name; or the hash is taken of fields  *)
(* that are not there.                                                     *)
FunctionTorn ==
  /\ pc' = "undefined"
  /\ UNCHANGED <<heap, held, owner, left, source, devs, names, consts,
                 fnames, slots>>

LoadFunction ==
  /\ pc = "code" /\ left > 0
  /\ \/ /\ left = 1 => ReadsOn
        /\ \E n \in Name : FunctionRead(n)
     \/ FunctionRefused
     \/ FunctionTorn

(* The devices are matched with the user's, and late bound constants are   *)
(* refused.                                                                *)
SetupDevices ==
  /\ pc = "code" /\ left = 0
  /\ \/ /\ \A i \in DOMAIN consts : consts[i] # LateBound
        /\ pc' = "setup"
        /\ left' = Len(consts)
        /\ UNCHANGED <<heap, held, owner, source, devs, names, consts, fnames,
                       slots>>
     \/ Fail

Current == Len(consts) + 1 - left

(* A constant of a device is copied there, and the host's data is freed.   *)
(* If the interface of the device cannot be had the tensor is the device's *)
(* already, and its data on the host is not freed with it.                 *)
SetupConstant ==
  /\ pc = "setup" /\ left > 0
  /\ \/ /\ devs[consts[Current]] = "cpu"
        /\ left' = left - 1
        /\ UNCHANGED <<pc, heap, held, owner, source, devs, names, consts,
                       fnames, slots>>
     \/ /\ devs[consts[Current]] = "gpu"
        /\ \/ /\ heap' = (heap \ {<<"data", Current>>})
                            \cup {<<"device data", Current>>}
              /\ held' = (held \ {<<"data", Current>>})
                            \cup {<<"device data", Current>>}
              /\ left' = left - 1
              /\ UNCHANGED <<pc, owner, source, devs, names, consts, fnames,
                             slots>>
           \/ Fail
           \/ /\ heap' = heap \ (held \ {<<"data", Current>>})
              /\ held' = {}
              /\ pc' = "failed"
              /\ UNCHANGED <<owner, left, source, devs, names, consts, fnames,
                             slots>>

(* RelayVirtualMachineCreateFromExecutable reads every function.           *)
Create ==
  /\ pc = "setup" /\ left = 0
  /\ IF \A i \in DOMAIN slots : slots[i] # Undefined
     THEN /\ Adds({Block("machine"), Block("machine functions"), Block("map")}
                    \cup Blocks("inputs", DOMAIN slots))
          /\ owner' = "machine"
          /\ pc' = "machine"
     ELSE pc' = "undefined" /\ UNCHANGED <<heap, held, owner>>
  /\ UNCHANGED <<left, source, devs, names, consts, fnames, slots>>

(* The executable owns the module when it is complete, and releases it.    *)
Free ==
  /\ pc = "machine"
  /\ Freed
  /\ owner' = "released"
  /\ pc' = "freed"
  /\ UNCHANGED <<left, source, devs, names, consts, fnames, slots>>

Next ==
  \/ Open
  \/ LoadVirtualDevices \/ LoadGlobals \/ LoadConstants \/ LoadPrimitiveNames
  \/ LoadCode \/ LoadFunction
  \/ SetupDevices \/ SetupConstant
  \/ Create \/ Free

Spec == Init /\ [][Next]_vars

-----------------------------------------------------------------------------
(* The state is well formed.                                               *)
RelayExecutableTypeOK ==
  /\ pc \in {"idle", "devices", "globals", "constants", "names", "functions",
             "code", "setup", "machine", "failed", "freed", "undefined"}
  /\ owner \in {"user", "machine", "released"}
  /\ left \in 0 .. MaxLen
  /\ names \in Seq(Name) /\ fnames \in Seq(Name)
  /\ devs \in Seq({"cpu", "gpu"})
  /\ consts \in Seq(DOMAIN devs \cup {LateBound})
  /\ slots \in Seq(DOMAIN fnames \cup {Undefined})

Overwritten(k) == \E j \in DOMAIN fnames : j > k /\ fnames[j] = fnames[k]

(* What a load, complete or not, loses: the reader of bytes, functions     *)
(* that have no index or whose index is used again, and the data of the    *)
(* constant at which a load fails.                                         *)
RelayLoses ==
  Blocks("reader", {0})
    \cup Blocks("function", {k \in DOMAIN fnames :
                 \/ Overwritten(k)
                 \/ \A i \in DOMAIN names : names[i] # fnames[k]})
    \cup Blocks("data", {i \in DOMAIN consts :
                 /\ consts[i] # LateBound /\ devs[consts[i]] = "gpu"
                 /\ pc = "failed" /\ i = Current})

(* A machine has the function of each name at the index of the name, which *)
(* is what Invoke calls it by, and its constants where they are used.      *)
RelayMachineIsComplete ==
  pc = "machine" =>
    /\ \A i \in DOMAIN slots :
         /\ <<"function", slots[i]>> \in held
         /\ IsIndex(i, fnames[slots[i]])
    /\ \A i \in DOMAIN consts :
         IF devs[consts[i]] = "cpu" THEN <<"data", i>> \in held
         ELSE <<"device data", i>> \in held /\ <<"data", i>> \notin heap
=============================================================================
