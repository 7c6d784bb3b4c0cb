------------------------------ MODULE Loaders ------------------------------
(***************************************************************************)
(* The two executables a user can load, and what loading promises whichever*)
(* it is (relax_vm.h, relay_vm.h): the machine owns the library module if  *)
(* it was created, and only then; a machine that exists is complete; and   *)
(* what a load that fails half way does not give back is known.            *)
(*                                                                         *)
(* RelaxExecutable and RelayExecutable act on the same memory.             *)
(***************************************************************************)
EXTENDS Naturals, Sequences

CONSTANTS
  MaxFuncs, MaxConsts, MaxCalls, MaxArgs,    \* bounds of RelaxExecutable
  Name, Undefined, MaxLen                    \* those of RelayExecutable

ASSUME LoadersAssumption ==
  /\ {MaxFuncs, MaxConsts, MaxCalls, MaxArgs, MaxLen} \subseteq Nat
  /\ Undefined \notin Nat

VARIABLES
  kind,                                      \* which executable is loaded
  pc, heap, held, owner, left, consts,       \* as the two modules have them
  funcs, calls, limit, device,               \* RelaxExecutable's
  source, devs, names, fnames, slots         \* RelayExecutable's

Relax == INSTANCE RelaxExecutable
Relay == INSTANCE RelayExecutable

relax == <<funcs, calls, limit, device>>
relay == <<source, devs, names, fnames, slots>>
vars  == <<kind, pc, heap, held, owner, left, consts, relax, relay>>

Init ==
  /\ kind \in {"relax", "relay"}
  /\ Relax!Init
  /\ Relay!Init
  /\ kind = "relax" => source = "bytes"

RelaxStep == kind = "relax" /\ Relax!Next /\ UNCHANGED <<kind, relay>>
RelayStep == kind = "relay" /\ Relay!Next /\ UNCHANGED <<kind, relax>>

Next == RelaxStep \/ RelayStep

Spec == Init /\ [][Next]_vars

-----------------------------------------------------------------------------
(* The state is well formed.                                               *)
LoadersTypeOK ==
  IF kind = "relax" THEN Relax!RelaxExecutableTypeOK
                    ELSE Relay!RelayExecutableTypeOK

(* "The function will get ownership of this module_handle if create        *)
(* successfully": a module is the machine's exactly as long as there is a  *)
(* machine, and is the user's after every load or creation that failed.    *)
MachineOwnsModule ==
  /\ owner = "machine" <=> pc = "machine"
  /\ pc = "failed" => owner = "user"

(* A machine that was created can run: its constants are in memory, its    *)
(* calls fit, and its functions are there, each at its own index.          *)
MachineIsComplete ==
  IF kind = "relax" THEN Relax!RelaxMachineIsComplete
                    ELSE Relay!RelayMachineIsComplete

(* After every load, failed, complete or undone, no pointer outlives its   *)
(* block, and the memory that nothing points at is what the two loaders    *)
(* are known to lose.                                                      *)
MemoryIsAccounted ==
  pc # "undefined" =>
    /\ held \subseteq heap
    /\ heap \ held \subseteq IF kind = "relax" THEN Relax!RelaxLoses
                                              ELSE Relay!RelayLoses
=============================================================================
