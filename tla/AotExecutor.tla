---------------------------- MODULE AotExecutor ----------------------------
(***************************************************************************)
(* The AOT executor (src/backends/aot/aot_executor.c): a model compiled to *)
(* one function, which is called with all its tensors.  A program has      *)
(* several executors, each created from a library of its own or from the   *)
(* system library, which is there for all of them and never released.      *)
(*                                                                         *)
(* The metadata of a model says which tensors it has: inputs, outputs and  *)
(* workspace pools.  It is a function "get_c_metadata", either linked to   *)
(* the program, which is asked first, or in the library.                   *)
(***************************************************************************)
EXTENDS Integers, Sequences, FiniteSets

CONSTANTS
  Exec,        \* places for executors
  Handle,      \* libraries the user opens
  System,      \* the system library, which stands for NULL
  Model,       \* compiled models
  Meta,        \* their metadata: [name, ins, outs, pools, constants]
  Mains,       \* library -> the models whose main function it has
  OwnMeta,     \* library -> the model its get_c_metadata describes, or None
  Linkable,    \* the models whose metadata may be linked to the program
  Val,         \* contents of the tensors a user gives
  Size,        \* their sizes
  MaxBlock,    \* bound: blocks of device memory
  None, Fresh, Torn

Library == Handle \cup {System}
Block == 1 .. MaxBlock

Info == [name : STRING, size : Nat]
Executor == [module : Library, model : Model, main : Model, tensors : Seq(Block)]

ASSUME AotAssumption ==
  /\ MaxBlock \in Nat
  /\ System \notin Handle
  /\ None \notin Model \cup Exec \cup Executor \cup {"user"}
  /\ "user" \notin Exec
  /\ None \notin Val
  /\ \A m \in Model : /\ Meta[m].ins \in Seq(Info) /\ Meta[m].outs \in Seq(Info)
                      /\ Meta[m].pools \in Nat /\ Meta[m].constants \in Nat
  /\ Mains \in [Library -> SUBSET Model]
  /\ OwnMeta \in [Library -> Model \cup {None}]
  /\ Linkable \subseteq Model \cup {None}
  /\ \A m, n \in Model : Meta[m].name = Meta[n].name => m = n

VARIABLES
  execs,    \* the executors, or None
  mem,      \* what each block was allocated for: "io", "pool"; or "free"
  val,      \* what each block holds
  open,     \* libraries that are open
  owner,    \* who has to release a library: "user", an executor, or None
  given,    \* what the user gave for each input of an executor
  ran,      \* what was given when it last ran, or None
  linked,   \* the model whose metadata is linked to the program, or None
  status,   \* of the last call
  state     \* "up", or "undefined" behaviour

moduleVars == <<open, owner>>
userVars == <<given, ran>>
vars == <<execs, mem, val, moduleVars, userVars, linked, status, state>>

Init ==
  /\ execs = [e \in Exec |-> None]
  /\ mem = [b \in Block |-> "free"]
  /\ val = [b \in Block |-> Fresh]
  /\ open = {}
  /\ owner = [h \in Handle |-> None]
  /\ given = [e \in Exec |-> <<>>]
  /\ ran = [e \in Exec |-> None]
  /\ linked \in Linkable
  /\ status = 0
  /\ state = "up"

-----------------------------------------------------------------------------
(* The tensors of a model, in the order of the arguments of main.          *)

NumInputs(m) == Len(Meta[m].ins)
NumOutputs(m) == Len(Meta[m].outs)
NumTensors(m) == NumInputs(m) + NumOutputs(m) + Meta[m].pools

(* Faulty variant: no room for the pools. *)
ArgsNoPools(m) == NumInputs(m) + NumOutputs(m)

(* Constants for the pools are not implemented, and end the creation behind *)
(* the outputs; else all tensors get memory.                               *)
StorageFails(m) == Meta[m].pools > 0 /\ Meta[m].constants > 0
Args(m) ==
  IF StorageFails(m) THEN NumInputs(m) + NumOutputs(m) ELSE NumTensors(m)

InputAt(x, i) == x.tensors[i]
OutputAt(x, k) == x.tensors[NumInputs(x.model) + k]

Unused == {b \in Block : mem[b] = "free"}

(* The blocks the next n allocations return. *)
NextBlocks(n) ==
  CHOOSE s \in [1 .. n -> Unused] : \A j, k \in 1 .. n : s[j] = s[k] => j = k

(* The heap after the tensors of the model m were allocated. *)
Allocated(m, tensors) ==
  [b \in Block |->
     LET at == {k \in DOMAIN tensors : tensors[k] = b}
     IN IF at = {} THEN mem[b]
        ELSE IF \E k \in at : k <= NumInputs(m) + NumOutputs(m)
             THEN "io" ELSE "pool"]

(* An allocated block holds whatever was in the memory. *)
Contents(tensors) ==
  [b \in Block |->
     IF \E k \in DOMAIN tensors : tensors[k] = b THEN Fresh ELSE val[b]]

(* Faulty variant: only the inputs are freed. *)
FreedInputs(m, tensors) ==
  {tensors[k] : k \in DOMAIN tensors \cap (1 .. NumInputs(m))}

(* What Free gives back of the tensors that have memory: the inputs and    *)
(* the outputs.                                                            *)
Freed(m, tensors) ==
  {tensors[k] : k \in DOMAIN tensors \cap (1 .. NumInputs(m) + NumOutputs(m))}

Without(blocks, h) == [b \in Block |-> IF b \in blocks THEN "free" ELSE h[b]]

-----------------------------------------------------------------------------
(* Creation.                                                               *)

MetadataOf(lib) == IF linked # None THEN linked ELSE OwnMeta[lib]

(* Faulty variant: the function is found whatever the name of the model.   *)
AnyMain(lib, m) == Mains[lib]

(* The main function is found by the name of the model. *)
MainsFor(lib, m) == {x \in Mains[lib] : Meta[x].name = Meta[m].name}

UserMayGive(lib) == lib \in {System} \cup {h \in Handle : owner[h] = "user"}

Nothing == UNCHANGED <<execs, mem, val, moduleVars, userVars, linked, state>>

(* The arguments are refused, the system library can not be created, there *)
(* is no metadata, or no main function.                                    *)
CreateRefused(e, lib) ==
  /\ state = "up" /\ execs[e] = None /\ UserMayGive(lib)
  /\ status' = -1
  /\ Nothing

(* Faulty variant: the executor has its module before its storage, and a   *)
(* failure releases both.                                                  *)
CreateTakesModule(e, lib) ==
  /\ state = "up" /\ execs[e] = None /\ UserMayGive(lib)
  /\ \E m \in {MetadataOf(lib)} \ {None} :
       /\ MainsFor(lib, m) # {} /\ Args(m) <= Cardinality(Unused)
       /\ open' = open \ {lib}
  /\ status' = -1
  /\ UNCHANGED <<execs, mem, val, owner, userVars, linked, state>>

(* The device, the k-th allocation or the constants fail: what was         *)
(* allocated before is freed as Free does it, and the module stays with    *)
(* the user, as the executor does not have it yet.                         *)
CreateFails(e, lib) ==
  /\ state = "up" /\ execs[e] = None /\ UserMayGive(lib)
  /\ \E m \in {MetadataOf(lib)} \ {None} :
       /\ MainsFor(lib, m) # {}
       /\ \E k \in 0 .. Args(m) :
            /\ k < Args(m) \/ StorageFails(m)
            /\ k <= Cardinality(Unused)
            /\ LET tensors == NextBlocks(k)
               IN /\ mem' = Without(Freed(m, tensors), Allocated(m, tensors))
                  /\ val' = Contents(tensors)
  /\ status' = -1
  /\ UNCHANGED <<execs, moduleVars, userVars, linked, state>>

Create(e, lib) ==
  /\ state = "up" /\ execs[e] = None /\ UserMayGive(lib)
  /\ \E m \in {MetadataOf(lib)} \ {None} :
       /\ ~ StorageFails(m) /\ Args(m) <= Cardinality(Unused)
       /\ \E main \in MainsFor(lib, m) :
            LET tensors == NextBlocks(Args(m))
            IN /\ execs' = [execs EXCEPT ![e] =
                              [module |-> lib, model |-> m, main |-> main,
                               tensors |-> tensors]]
               /\ mem' = Allocated(m, tensors)
               /\ val' = Contents(tensors)
               /\ given' = [given EXCEPT ![e] =
                              [i \in 1 .. NumInputs(m) |-> None]]
  /\ owner' = IF lib = System THEN owner ELSE [owner EXCEPT ![lib] = e]
  /\ status' = 0
  /\ UNCHANGED <<open, ran, linked, state>>

(* Free releases the module with the executor.  What freed memory holds    *)
(* does not matter: it is taken for what the next allocation finds.        *)
Free(e) ==
  /\ state = "up" /\ execs[e] # None
  /\ LET x == execs[e]
     IN /\ mem' = Without(Freed(x.model, x.tensors), mem)
        /\ val' = [b \in Block |-> IF b \in Freed(x.model, x.tensors)
                                  THEN Fresh ELSE val[b]]
        /\ open' = open \ {x.module}
        /\ owner' = [h \in Handle |-> IF h = x.module THEN None ELSE owner[h]]
        /\ state' = IF /\ Freed(x.model, x.tensors) \cap Unused = {}
                       /\ x.module \in open \cup {System}
                    THEN "up" ELSE "undefined"
  /\ execs' = [execs EXCEPT ![e] = None]
  /\ given' = [given EXCEPT ![e] = <<>>]
  /\ ran' = [ran EXCEPT ![e] = None]
  /\ status' = 0
  /\ UNCHANGED linked

(* The user opens a library, and closes it while it is the user's. *)
OpenLibrary(h) ==
  /\ state = "up" /\ h \notin open /\ owner[h] = None
  /\ open' = open \cup {h}
  /\ owner' = [owner EXCEPT ![h] = "user"]
  /\ UNCHANGED <<execs, mem, val, userVars, linked, status, state>>

CloseLibrary(h) ==
  /\ state = "up" /\ owner[h] = "user"
  /\ open' = open \ {h}
  /\ owner' = [owner EXCEPT ![h] = None]
  /\ state' = IF h \in open THEN "up" ELSE "undefined"
  /\ UNCHANGED <<execs, mem, val, userVars, linked, status>>

-----------------------------------------------------------------------------
(* Inputs, runs and outputs.                                               *)

(* An index out of range, a tensor of another size or a failing copy       *)
(* changes nothing.                                                        *)
SetInput(e, i, v, n) ==
  /\ state = "up" /\ execs[e] # None
  /\ LET x == execs[e]
     IN \/ /\ i \in 1 .. NumInputs(x.model) /\ Meta[x.model].ins[i].size = n
           /\ val' = [val EXCEPT ![InputAt(x, i)] = v]
           /\ given' = [given EXCEPT ![e][i] = v]
           /\ status' = 0
        \/ /\ status' = IF i \in 1 .. NumInputs(x.model) THEN -1 ELSE -2
           /\ UNCHANGED <<val, given>>
  /\ UNCHANGED <<execs, mem, moduleVars, ran, linked, state>>

(* The first tensor of that name. *)
IndexOf(infos, name) ==
  LET hits == {i \in DOMAIN infos : infos[i].name = name}
  IN IF hits = {} THEN -1 ELSE CHOOSE i \in hits : \A j \in hits : i <= j

SetInputByName(e, name, v, n) ==
  /\ execs[e] # None
  /\ LET i == IndexOf(Meta[execs[e].model].ins, name)
     IN IF i # -1 THEN SetInput(e, i, v, n)
        ELSE state = "up" /\ status' = -1 /\ Nothing

(* What the main function of a model writes to its k-th output. *)
Result(m, k, args) == <<m, k, args>>

(* Run calls main with all tensors.  It may fail, and leave its outputs    *)
(* half written; nobody but main looks into the pools.                     *)
Run(e) ==
  /\ state = "up" /\ execs[e] # None
  /\ LET x == execs[e]
         args == [i \in 1 .. NumInputs(x.model) |-> val[InputAt(x, i)]]
         Written(f) ==
           [b \in Block |->
              IF \E k \in 1 .. NumOutputs(x.model) : OutputAt(x, k) = b
              THEN f[CHOOSE k \in 1 .. NumOutputs(x.model) : OutputAt(x, k) = b]
              ELSE val[b]]
     IN \/ /\ x.module \notin open \cup {System}
           /\ state' = "undefined"
           /\ UNCHANGED <<val, ran, status>>
        \/ /\ x.module \in open \cup {System}
           /\ \/ /\ val' = Written([k \in 1 .. NumOutputs(x.model) |->
                                      Result(x.main, k, args)])
                 /\ ran' = [ran EXCEPT ![e] = given[e]]
                 /\ status' = 0
              \/ /\ val' = Written([k \in 1 .. NumOutputs(x.model) |-> Torn])
                 /\ ran' = [ran EXCEPT ![e] = None]
                 /\ status' = -1
           /\ UNCHANGED state
  /\ UNCHANGED <<execs, mem, moduleVars, given, linked>>

(* GetOutput, by index or by name, only reads. *)
GetOutput(e, k, n) ==
  /\ state = "up" /\ execs[e] # None
  /\ LET outs == Meta[execs[e].model].outs
     IN \/ k \in DOMAIN outs /\ outs[k].size = n /\ status' = 0
        \/ status' = IF k \in DOMAIN outs THEN -1 ELSE -2
  /\ Nothing

GetOutputByName(e, name, n) ==
  /\ execs[e] # None
  /\ LET k == IndexOf(Meta[execs[e].model].outs, name)
     IN IF k # -1 THEN GetOutput(e, k, n)
        ELSE state = "up" /\ status' = -1 /\ Nothing

InputNames == UNION {{Meta[m].ins[i].name : i \in DOMAIN Meta[m].ins} : m \in Model}
OutputNames == UNION {{Meta[m].outs[k].name : k \in DOMAIN Meta[m].outs} : m \in Model}

MaxIndex == 2

Next ==
  \/ \E e \in Exec, lib \in Library :
       CreateRefused(e, lib) \/ CreateFails(e, lib) \/ Create(e, lib)
  \/ \E e \in Exec : Run(e) \/ Free(e)
  \/ \E e \in Exec, n \in Size, v \in Val :
       \/ \E i \in 1 .. MaxIndex : SetInput(e, i, v, n)
       \/ \E name \in InputNames : SetInputByName(e, name, v, n)
  \/ \E e \in Exec, n \in Size :
       \/ \E k \in 1 .. MaxIndex : GetOutput(e, k, n)
       \/ \E name \in OutputNames : GetOutputByName(e, name, n)
  \/ \E h \in Handle : OpenLibrary(h) \/ CloseLibrary(h)

Spec == Init /\ [][Next]_vars

-----------------------------------------------------------------------------
(* Properties.                                                             *)

Live == {e \in Exec : execs[e] # None}
Tensors(e) == {execs[e].tensors[k] : k \in DOMAIN execs[e].tensors}

AotTypeOK ==
  /\ execs \in [Exec -> Executor \cup {None}]
  /\ mem \in [Block -> {"free", "io", "pool"}]
  /\ DOMAIN val = Block
  /\ open \subseteq Handle
  /\ owner \in [Handle -> {"user", None} \cup Exec]
  /\ linked \in Linkable
  /\ \A e \in Live : Len(execs[e].tensors) = NumTensors(execs[e].model)
  /\ state \in {"up", "undefined"}

(* "The function will get ownership of this module_handle if create        *)
(* successfully" (include/aot_executor.h:23): an open library has one      *)
(* owner, a creation that fails at any point leaves it open and the        *)
(* user's, and the module of an executor is open until Free releases it,   *)
(* that once.                                                              *)
LibrariesHaveOneOwner ==
  /\ state = "up"
  /\ open = {h \in Handle : owner[h] # None}
  /\ \A h \in Handle, e \in Exec :
       owner[h] = e <=> e \in Live /\ execs[e].module = h

(* The memory of an input or output is of exactly one executor, that of a  *)
(* pool of one at most: Free, called by the user or by a creation that     *)
(* failed anywhere, gives back all of its tensors but the pools', and      *)
(* nothing of another executor's (aot_executor.c:195-208).                 *)
OnlyPoolsAreLost ==
  /\ \A e \in Live : \A b \in Tensors(e) : mem[b] # "free"
  /\ \A e, f \in Live : e # f => Tensors(e) \cap Tensors(f) = {}
  /\ \A b \in Block : mem[b] = "io" => \E e \in Live : b \in Tensors(e)

(* What is in tensors for which a user gave args: whatever was in the      *)
(* memory where nothing was given yet.                                     *)
Held(args) ==
  [i \in DOMAIN args |-> IF args[i] = None THEN Fresh ELSE args[i]]

(* Each input holds what the user last gave for it, and after a run that   *)
(* returned 0 each output what the model of the metadata computes of what  *)
(* was given then, until the next run: whatever other executors do, what   *)
(* their creation or their runs fail in, and which function was found as   *)
(* main (aot_executor.c:129-175).                                          *)
TensorsHoldWhatTheyShould ==
  \A e \in Live :
    LET x == execs[e]
    IN /\ [i \in 1 .. NumInputs(x.model) |-> val[InputAt(x, i)]] = Held(given[e])
       /\ ran[e] # None =>
            \A k \in 1 .. NumOutputs(x.model) :
              val[OutputAt(x, k)] = Result(x.model, k, Held(ran[e]))
=============================================================================
