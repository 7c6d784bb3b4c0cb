--------------------------- MODULE WorkspaceSpec ---------------------------
(***************************************************************************)
(* What a device API promises of temporal workspaces (AllocWorkspace and   *)
(* FreeWorkspace, src/core/device/device_api.h): a workspace is a block of *)
(* the size asked for that nobody else holds, until it is given back.  How *)
(* the memory is obtained, cached and returned is left open.               *)
(***************************************************************************)
CONSTANTS Client, Ptr, Size, None

VARIABLE held   \* the workspace each client holds, or None

Workspace == [ptr : Ptr, size : Size]

Init == held = [c \in Client |-> None]

Unheld(p) == \A c \in Client : held[c] # None => held[c].ptr # p

Alloc(c, n) ==
  /\ held[c] = None
  /\ \E p \in Ptr :
       /\ Unheld(p)
       /\ held' = [held EXCEPT ![c] = [ptr |-> p, size |-> n]]

Free(c) ==
  /\ held[c] # None
  /\ held' = [held EXCEPT ![c] = None]

Next == \E c \in Client : (\E n \in Size : Alloc(c, n)) \/ Free(c)

Spec == Init /\ [][Next]_held
=============================================================================
