----------------------------- MODULE Workspace -----------------------------
(***************************************************************************)
(* The cache of temporal workspaces of the CUDA device API (as built with  *)
(* CUDA_10_ONLY, cuda_device_api.c) and of the WebGPU device API           *)
(* (webgpu_device_api.c).  A workspace that is given back stays in the     *)
(* cache, marked free, for the next request of exactly its size.  The two  *)
(* differ in what happens when the cache is full: CUDA drops the free      *)
(* entries (Compacts), WebGPU hands the new block out uncached.            *)
(*                                                                         *)
(* The driver, which is not part of this code, is the function blocks; it  *)
(* returns any block that is not allocated, on the device that is current. *)
(* A request it cannot satisfy returns NULL and changes nothing.           *)
(***************************************************************************)
EXTENDS Integers, FiniteSets

CONSTANTS
  Client,      \* the places that hold one workspace at a time
  Address,     \* device pointers
  Size,        \* sizes asked for
  DeviceId,    \* device ids
  Nothing,
  MaxCached,   \* MAX_CACHED_WORKSPACE_MEMORY_ELEMENT_SIZE
  Compacts     \* TRUE for CUDA, FALSE for WebGPU

ASSUME WorkspaceAssumption ==
  /\ MaxCached \in Nat
  /\ Compacts \in BOOLEAN
  /\ Nothing \notin [size : Size, dev : DeviceId]
  /\ Nothing \notin [ptr : Address, size : Size, dev : DeviceId]
  /\ Nothing \notin [ptr : Address, size : Size]

VARIABLES
  cache,       \* cachedWorkspaceMemory, its first cachedWorkspaceMemorySize
  blocks,      \* the driver's blocks: size and device, or Nothing
  held,        \* what each client asked for and got, or Nothing
  current,     \* the device the driver allocates on
  released     \* Release was called

cacheVars == <<cache, blocks, held, current, released>>

CachedWorkspaceMemory == [ptr : Address, size : Size, is_free : BOOLEAN]

CacheInit ==
  /\ cache = {}
  /\ blocks = [p \in Address |-> Nothing]
  /\ held = [c \in Client |-> Nothing]
  /\ current \in DeviceId
  /\ released = FALSE

-----------------------------------------------------------------------------
Entry(p, n, free) == [ptr |-> p, size |-> n, is_free |-> free]

Marked(e, free) == (cache \ {e}) \cup {[e EXCEPT !.is_free = free]}

(* Faulty variant: sizes that are too small match as well.                 *)
HitsSmaller(n) == {e \in cache : e.size <= n /\ e.is_free}

(* The entries that serve a request of n bytes. *)
Hits(n) == {e \in cache : e.size = n /\ e.is_free}

Holds(c, p, n) ==
  held' = [held EXCEPT ![c] = [ptr |-> p, size |-> n, dev |-> current]]

(* Faulty variant: the entry stays free. *)
AllocCachedStaysFree(c, n) ==
  /\ ~ released
  /\ held[c] = Nothing
  /\ \E e \in Hits(n) : Holds(c, e.ptr, n)
  /\ UNCHANGED <<cache, blocks, current, released>>

(* AllocWorkspace finds a free entry. *)
AllocCached(c, n) ==
  /\ ~ released
  /\ held[c] = Nothing
  /\ \E e \in Hits(n) :
       /\ cache' = Marked(e, FALSE)
       /\ Holds(c, e.ptr, n)
  /\ UNCHANGED <<blocks, current, released>>

(* What is left of the cache when a new block is about to enter it.        *)
Kept ==
  IF Compacts /\ Cardinality(cache) = MaxCached
  THEN {e \in cache : ~ e.is_free}
  ELSE cache

(* Faulty variant: the bound is off by one. *)
EnteredOver(p, n) ==
  IF Cardinality(Kept) <= MaxCached THEN Kept \cup {Entry(p, n, FALSE)}
  ELSE Kept

Entered(p, n) ==
  IF Cardinality(Kept) < MaxCached THEN Kept \cup {Entry(p, n, FALSE)}
  ELSE Kept

(* Faulty variant: the block enters the cache with the flag of whatever    *)
(* entry was there before.                                                 *)
AllocNewFree(c, n) ==
  /\ ~ released
  /\ held[c] = Nothing
  /\ Hits(n) = {}
  /\ \E p \in Address :
       /\ blocks[p] = Nothing
       /\ blocks' = [blocks EXCEPT ![p] = [size |-> n, dev |-> current]]
       /\ cache' = cache \cup {Entry(p, n, TRUE)}
       /\ Holds(c, p, n)
  /\ UNCHANGED <<current, released>>

(* AllocWorkspace asks the driver for a block and caches it if it can. *)
AllocNew(c, n) ==
  /\ ~ released
  /\ held[c] = Nothing
  /\ Hits(n) = {}
  /\ \E p \in Address :
       /\ blocks[p] = Nothing
       /\ blocks' = [blocks EXCEPT ![p] = [size |-> n, dev |-> current]]
       /\ cache' = Entered(p, n)
       /\ Holds(c, p, n)
  /\ UNCHANGED <<current, released>>

(* FreeWorkspace of a cached block. *)
FreeCached(c) ==
  /\ ~ released
  /\ held[c] # Nothing
  /\ \E e \in cache : e.ptr = held[c].ptr /\ cache' = Marked(e, TRUE)
  /\ held' = [held EXCEPT ![c] = Nothing]
  /\ UNCHANGED <<blocks, current, released>>

(* Faulty variant: the block is not given to the driver.                   *)
FreeUncachedLeaks(c) ==
  /\ ~ released
  /\ held[c] # Nothing
  /\ \A e \in cache : e.ptr # held[c].ptr
  /\ held' = [held EXCEPT ![c] = Nothing]
  /\ UNCHANGED <<cache, blocks, current, released>>

(* FreeWorkspace of a block that is not in the cache: the driver gets it. *)
FreeUncached(c) ==
  /\ ~ released
  /\ held[c] # Nothing
  /\ \A e \in cache : e.ptr # held[c].ptr
  /\ blocks' = [blocks EXCEPT ![held[c].ptr] = Nothing]
  /\ held' = [held EXCEPT ![c] = Nothing]
  /\ UNCHANGED <<cache, current, released>>

(* Release frees every cached block, in use or not; the size of the cache  *)
(* is not reset.                                                           *)
Release ==
  /\ ~ released
  /\ released' = TRUE
  /\ blocks' = [p \in Address |-> IF \E e \in cache : e.ptr = p THEN Nothing
                              ELSE blocks[p]]
  /\ UNCHANGED <<cache, held, current>>

CUDA_SetDevice(d) ==
  /\ ~ released
  /\ current' = d
  /\ UNCHANGED <<cache, blocks, held, released>>

ClientStep(c) ==
  \/ \E n \in Size : AllocCached(c, n) \/ AllocNew(c, n)
  \/ FreeCached(c)
  \/ FreeUncached(c)

CacheNext ==
  \/ \E c \in Client : ClientStep(c)
  \/ \E d \in DeviceId : CUDA_SetDevice(d)
  \/ Release

CacheSpec == CacheInit /\ [][CacheNext]_cacheVars
-----------------------------------------------------------------------------
(* Properties.                                                             *)

Typed ==
  /\ cache \subseteq CachedWorkspaceMemory
  /\ blocks \in [Address -> [size : Size, dev : DeviceId] \cup {Nothing}]
  /\ held \in [Client ->
               [ptr : Address, size : Size, dev : DeviceId] \cup {Nothing}]
  /\ current \in DeviceId
  /\ released \in BOOLEAN

CacheIsBounded == IsFiniteSet(cache) /\ Cardinality(cache) <= MaxCached

(* Every variable has its type, and the array never overflows, whatever    *)
(* was dropped from it before                                              *)
(* (cuda_device_api.c:142-156, webgpu_device_api.c:124-128).               *)
WorkspaceTypeOK == Typed /\ CacheIsBounded

(* Two clients never hold the same block: a block is handed out again only *)
(* after it was given back.                                                *)
NotHandedOutTwice ==
  \A c, k \in Client :
    held[c] # Nothing /\ held[k] # Nothing /\ c # k =>
      held[c].ptr # held[k].ptr

(* The flag is_free says who has the block: an entry in use is held by a   *)
(* client, a free one by nobody, and no block is in the cache twice, so    *)
(* that FreeWorkspace finds the one entry it must mark.                    *)
CacheKnowsItsHolders ==
  /\ \A e \in cache :
       e.is_free <=> \A c \in Client : held[c] # Nothing => held[c].ptr # e.ptr
  /\ \A e, g \in cache : e.ptr = g.ptr => e = g

(* Until Release, what a client holds and what the cache keeps is memory   *)
(* the driver has not got back, and of the size it was allocated with: a   *)
(* cached block is never too small for the request it serves.              *)
BlocksAreLive ==
  ~ released =>
    /\ \A c \in Client : held[c] # Nothing =>
         /\ blocks[held[c].ptr] # Nothing
         /\ blocks[held[c].ptr].size = held[c].size
    /\ \A e \in cache : blocks[e.ptr] # Nothing /\ blocks[e.ptr].size = e.size

(* A block is lost if nobody holds it and the cache does not know it: the  *)
(* driver never gets it back.                                              *)
Lost(p) ==
  /\ blocks[p] # Nothing
  /\ \A c \in Client : held[c] # Nothing => held[c].ptr # p
  /\ \A e \in cache : e.ptr # p

(* A full cache that compacts drops the free block at p. *)
Drops(p) ==
  /\ Compacts
  /\ Cardinality(cache) = MaxCached
  /\ \E e \in cache : e.ptr = p /\ e.is_free

(* Memory is lost in one way only: a full CUDA cache drops a free block    *)
(* ("todo: fix memory leak here", cuda_device_api.c:145).  No other step   *)
(* loses any, and the WebGPU cache none at all.                            *)
LostOnlyWhenCompacting ==
  [][\A p \in Address : Lost(p)' => Lost(p) \/ Drops(p)]_cacheVars

(* What the WebGPU cache guarantees. *)
NothingIsLost == \A p \in Address : ~ Lost(p)

(* The cache implements the promise of the interface. *)
Promised == INSTANCE WorkspaceSpec WITH
  Ptr <- Address, None <- Nothing,
  held <- [c \in Client |-> IF held[c] = Nothing THEN Nothing
                            ELSE [ptr |-> held[c].ptr, size |-> held[c].size]]
ImplementsPromise == Promised!Spec
=============================================================================
