------------------------------ MODULE Modules ------------------------------
(***************************************************************************)
(* Libraries and the modules they import: loading the import tree from the *)
(* binary blob of a library (src/core/module/module.c), the shared library *)
(* (shared_library.c) and the system library (system_library.c), looking   *)
(* functions up through imports, the cache of TVMBackendGetFuncFromEnv     *)
(* (c_backend_api.c), the global functions (c_runtime_api.c) and the       *)
(* recursive release (module_impl.h).                                      *)
(*                                                                         *)
(* One library is open at a time.  A blob is the sequence of its modules   *)
(* and, if it has an import tree, the rows of the tree, with whether the   *)
(* library has a module context; "metadata" is an empty module, which the  *)
(* loader replaces by its only import.                                     *)
(***************************************************************************)
EXTENDS Integers, Sequences, FiniteSets

CONSTANTS
  Lib,         \* the library module
  Dev,         \* the modules a blob can hold: cuda, webgpu, relax.Executable
  Name,        \* names of functions
  Exports,     \* Lib and Dev -> names of the functions of the module
  Blob,        \* blobs a library can come with
  None,
  MaxVersion,  \* bound: functions registered under one global name
  MaxSymbols   \* bound: registrations of system library symbols

Mod == Dev \cup {Lib}

(* A packed function: of a module, or the v-th global one of its name. *)
Function == (Mod \X Name) \cup ({"global"} \X (1 .. MaxVersion))

ASSUME ModulesAssumption ==
  /\ IsFiniteSet(Dev)
  /\ Lib \notin Dev
  /\ None \notin Mod \cup Function
  /\ "metadata" \notin Mod /\ "global" \notin Mod
  /\ Exports \in [Mod -> SUBSET Name]
  /\ MaxVersion \in Nat /\ MaxSymbols \in Nat
  /\ \A b \in Blob : /\ b.entries \in Seq(Mod \cup {"metadata"})
                      /\ (b.rows = <<>> \/ Len(b.rows) = Len(b.entries))
                      /\ b.ctx \in BOOLEAN

(* What the union holds when it holds the saved release function. *)
Release == -1

VARIABLES
  alive,       \* modules that exist
  imports,     \* Mod -> the sequence of its imports, some of them None
  env,         \* env_funcs_map of each module
  own,         \* module_funcs_map of each module
  root,        \* the module the user has, *out_module
  kind,        \* "none", "dso" or "sys": what is open
  symbols,     \* sys_lib_symbols, or None
  sys_status,  \* the union sys_lib_status: the number of symbols, or Release
  globals,     \* global_functions
  status,      \* of the last call that may fail
  state        \* "up", "exited", or "undefined" behaviour

modVars == <<alive, imports, env, own>>
sysVars == <<symbols, sys_status>>
vars == <<modVars, root, kind, sysVars, globals, status, state>>

Init ==
  /\ alive = {}
  /\ imports = [m \in Mod |-> <<>>]
  /\ env = [m \in Mod |-> [n \in Name |-> None]]
  /\ own = [m \in Mod |-> {}]
  /\ root = None
  /\ kind = "none"
  /\ symbols = None
  /\ sys_status = 0
  /\ globals = [n \in Name |-> None]
  /\ status = 0
  /\ state = "up"

-----------------------------------------------------------------------------
(* Loading a blob.                                                         *)

(* An empty module with one import stands for that import. *)
Replaced(b, i, slots) ==
  IF slots[i] = None /\ Len(b.rows[i]) = 1
  THEN [slots EXCEPT ![i] = slots[b.rows[i][1]]] ELSE slots

(* The array of modules after the first i rows of the tree were used. *)
Slots(b) ==
  LET n == Len(b.entries)
      slots[i \in 0 .. n] ==
        IF i = 0
        THEN [j \in 1 .. n |-> IF b.entries[j] = "metadata" THEN None
                               ELSE b.entries[j]]
        ELSE Replaced(b, i, slots[i - 1])
  IN slots

(* Faulty variant: an empty module's row is used for its import as well.   *)
LoadedAlias(b) ==
  LET slots == Slots(b)
      n == Len(b.entries)
      row(i) == [x \in 1 .. Len(b.rows[i]) |-> slots[i][b.rows[i][x]]]
      rowsOf(m) == {i \in 1 .. n : slots[i][i] = m}
  IN [m \in Mod |->
        IF b.rows = <<>> THEN IF m = Lib THEN slots[0] ELSE <<>>
        ELSE IF rowsOf(m) = {} THEN <<>>
        ELSE row(CHOOSE i \in rowsOf(m) : \A j \in rowsOf(m) : i <= j)]

(* The imports of each module.  Without a tree the library imports all the *)
(* modules.                                                                *)
Loaded(b) ==
  LET slots == Slots(b)
      n == Len(b.entries)
      row(i) == [x \in 1 .. Len(b.rows[i]) |-> slots[i - 1][b.rows[i][x]]]
      indexOf(m) == {i \in 1 .. n : slots[i - 1][i] = m}
  IN [m \in Mod |->
        IF b.rows = <<>> THEN IF m = Lib THEN slots[0] ELSE <<>>
        ELSE IF indexOf(m) = {} THEN <<>>
        ELSE row(CHOOSE i \in indexOf(m) : TRUE)]

RootOf(b) ==
  IF b.rows = <<>> THEN Lib ELSE Slots(b)[Len(b.entries)][1]

DevsUpTo(b, k) == {b.entries[i] : i \in 1 .. k} \cap Dev

(* What the compiler packs and the loader does not check: each module is   *)
(* there once, an empty one only before the library whose metadata it had, *)
(* every module but the first is imported by exactly one, which comes      *)
(* before it, and a library that is no root has a module context.          *)
Packed(b) ==
  LET n == Len(b.entries)
  IN /\ \A i, j \in 1 .. n : b.entries[i] = b.entries[j] => i = j
     /\ b.rows = <<>> => \A i \in 1 .. n : b.entries[i] \in Dev
     /\ b.rows # <<>> =>
          /\ \E i \in 1 .. n : b.entries[i] = Lib
          /\ b.entries[1] = "metadata" => Len(b.rows[1]) = 1
          /\ \A i \in 1 .. n : b.rows[i] \in Seq(i + 1 .. n)
          /\ \A i \in 2 .. n : b.entries[i] \in Mod
          /\ \A j \in 2 .. n : \E i \in 1 .. n :
               j \in {b.rows[i][x] : x \in DOMAIN b.rows[i]}
          /\ \A i, j \in 1 .. n : \A x \in DOMAIN b.rows[i], y \in DOMAIN b.rows[j] :
               b.rows[i][x] = b.rows[j][y] => i = j /\ x = y
     /\ ~ b.ctx => RootOf(b) = Lib

(* The modules of the blob exist now, with the imports its tree says. *)
Opens(b, lib_funcs) ==
  /\ alive' = alive \cup {Lib} \cup DevsUpTo(b, Len(b.entries))
  /\ imports' = [m \in Mod |->
       IF m = Lib \/ m \in DevsUpTo(b, Len(b.entries)) THEN Loaded(b)[m]
       ELSE imports[m]]
  /\ env' = [m \in Mod |-> IF m = Lib \/ m \in DevsUpTo(b, Len(b.entries))
                           THEN [n \in Name |-> None] ELSE env[m]]
  /\ own' = [m \in Mod |-> IF m = Lib THEN lib_funcs
                           ELSE IF m \in DevsUpTo(b, Len(b.entries))
                           THEN Exports[m] ELSE own[m]]
  /\ root' = RootOf(b)
  /\ status' = 0

(* Reading the blob fails at its k-th module: the library is released, the *)
(* modules before k are not.                                               *)
OpenFails(b, k) ==
  /\ alive' = alive \cup DevsUpTo(b, k - 1)
  /\ own' = [m \in Mod |-> IF m \in DevsUpTo(b, k - 1) THEN Exports[m]
                           ELSE own[m]]
  /\ UNCHANGED <<imports, env>>
  /\ status' = -1

(* A module of the blob that is still there is another one with the same   *)
(* contents; the model has one of each.                                    *)
Fits(b) == DevsUpTo(b, Len(b.entries)) \cap alive = {}

-----------------------------------------------------------------------------
(* The shared library.                                                     *)

OpenShared(b) ==
  /\ state = "up" /\ kind = "none" /\ Fits(b)
  /\ \/ Opens(b, {}) /\ kind' = "dso"
     \/ /\ \E k \in 1 .. Len(b.entries) : OpenFails(b, k)
        /\ UNCHANGED <<root, kind>>
  /\ UNCHANGED <<sysVars, globals, state>>

-----------------------------------------------------------------------------
(* The system library.                                                     *)

(* Faulty variant: symbols are taken after the module was created.         *)
RegisterSymbolLate(n) ==
  /\ state = "up"
  /\ symbols' = IF symbols = None THEN {n} ELSE symbols \cup {n}
  /\ sys_status' = IF sys_status = Release THEN Release ELSE sys_status + 1
  /\ status' = 0
  /\ UNCHANGED <<modVars, root, kind, globals, state>>

(* TVMBackendRegisterSystemLibSymbol.  A name registered twice counts      *)
(* twice.                                                                  *)
RegisterSymbol(n) ==
  /\ state = "up"
  /\ IF symbols = None /\ kind = "sys"
     THEN status' = -1 /\ UNCHANGED sysVars
     ELSE /\ sys_status < MaxSymbols
          /\ symbols' = IF symbols = None THEN {n} ELSE symbols \cup {n}
          /\ sys_status' = sys_status + 1
          /\ status' = 0
  /\ UNCHANGED <<modVars, root, kind, globals, state>>

(* Asking for the system library again gives the one there is. *)
OpenSystemAgain ==
  /\ state = "up" /\ kind = "sys"
  /\ status' = 0
  /\ UNCHANGED <<modVars, root, kind, sysVars, globals, state>>

(* Creation takes the symbols over and saves the release function where    *)
(* their number was.  It fails in the blob, or if the module context is    *)
(* missing, and can be tried again.  In the second case the root of the    *)
(* tree is released as if it were the library.                             *)
OpenSystem(b) ==
  /\ state = "up" /\ kind = "none" /\ Fits(b)
  /\ symbols # None
  /\ \/ /\ b.ctx
        /\ Opens(b, symbols)
        /\ kind' = "sys"
        /\ symbols' = None
        /\ sys_status' = Release
        /\ UNCHANGED state
     \/ /\ \E k \in 1 .. Len(b.entries) : OpenFails(b, k)
        /\ UNCHANGED <<root, kind, sysVars, state>>
     \/ /\ ~ b.ctx
        /\ status' = -1
        /\ state' = IF RootOf(b) = Lib THEN "up" ELSE "undefined"
        /\ UNCHANGED <<modVars, root, kind, sysVars>>
  /\ UNCHANGED globals

-----------------------------------------------------------------------------
(* Looking functions up.                                                   *)

FirstOf(s) ==
  LET hits == {i \in DOMAIN s : s[i] # None}
  IN IF hits = {} THEN None ELSE s[CHOOSE i \in hits : \A j \in hits : i <= j]

(* The functions a module has itself; a shared library makes a packed      *)
(* function for an exported symbol when it is first asked for.             *)
Has(m, n) == n \in own[m] \/ (m = Lib /\ kind = "dso" /\ n \in Exports[Lib])

(* What the modules answer: with what they have themselves or, with what   *)
(* their imports answer, the first that does.                              *)
Asked(answer, links, below) ==
  [x \in Mod |->
     IF answer[x] # None THEN answer[x]
     ELSE FirstOf([i \in DOMAIN links[x] |->
                     IF links[x][i] = None THEN None ELSE below[links[x][i]]])]

(* The search goes down an import tree, which is no deeper than there are  *)
(* modules.                                                                *)
Search(answer, links, m) ==
  LET found[k \in 0 .. Cardinality(Mod)] ==
        IF k = 0 THEN answer ELSE Asked(answer, links, found[k - 1])
  IN found[Cardinality(Mod)][m]

(* Faulty variant: the cache is asked before the module's own functions.   *)
AnswerCacheFirst(m, n) ==
  IF env[m][n] # None THEN env[m][n] ELSE IF Has(m, n) THEN <<m, n>> ELSE None

(* What m answers with itself: its own function, or one its code has used. *)
Answer(m, n) == IF Has(m, n) THEN <<m, n>> ELSE env[m][n]

(* GetFunction of m with query_imports. *)
GetFunction(m, n) == Search([x \in Mod |-> Answer(x, n)], imports, m)

FromImports(m, n) ==
  FirstOf([i \in DOMAIN imports[m] |->
             IF imports[m][i] = None THEN None
             ELSE GetFunction(imports[m][i], n)])

(* The shared library keeps the packed function it made. *)
Made(f) ==
  own' = IF f # None /\ f[1] = Lib /\ kind = "dso"
         THEN [own EXCEPT ![Lib] = @ \cup {f[2]}] ELSE own

(* TVMModGetFunction on the root, with or without its imports. *)
ModGetFunction(n, query_imports) ==
  /\ state = "up" /\ root # None
  /\ LET f == IF query_imports THEN GetFunction(root, n)
              ELSE IF Has(root, n) THEN <<root, n>> ELSE None
     IN Made(f) /\ status' = IF f = None THEN -1 ELSE 0
  /\ UNCHANGED <<alive, imports, env, root, kind, sysVars, globals, state>>

(* Faulty variant: the globals come before the imports.                    *)
GetFuncFromEnvGlobals(n) ==
  /\ state = "up" /\ root # None
  /\ LET f == IF globals[n] # None THEN globals[n] ELSE FromImports(root, n)
     IN /\ f # None
        /\ env' = [env EXCEPT ![root][n] = f]
        /\ Made(f)
        /\ status' = 0
  /\ UNCHANGED <<alive, imports, root, kind, sysVars, globals, state>>

(* TVMBackendGetFuncFromEnv, which the code of the library calls with the  *)
(* root: its cache, its imports (a missing one is followed), the globals.  *)
GetFuncFromEnv(n) ==
  /\ state = "up" /\ root # None
  /\ LET hit == env[root][n]
         f == IF FromImports(root, n) # None THEN FromImports(root, n)
              ELSE globals[n]
         missing == \E i \in DOMAIN imports[root] :
                      /\ imports[root][i] = None
                      /\ \A j \in 1 .. i - 1 :
                           /\ imports[root][j] # None
                           /\ GetFunction(imports[root][j], n) = None
     IN CASE hit # None -> status' = 0 /\ UNCHANGED <<env, own, state>>
          [] hit = None /\ missing ->
               state' = "undefined" /\ UNCHANGED <<env, own, status>>
          [] OTHER ->
               /\ env' = [env EXCEPT ![root][n] = f]
               /\ Made(IF f \in {globals[n], None} THEN None ELSE f)
               /\ status' = IF f = None THEN -1 ELSE 0
               /\ UNCHANGED state
  /\ UNCHANGED <<alive, imports, root, kind, sysVars, globals>>

(* TVMFuncRegisterGlobal: without override a name keeps its function, and  *)
(* the status is that of finding it.                                       *)
FuncRegisterGlobal(n, override) ==
  /\ state = "up"
  /\ LET v == IF globals[n] = None THEN 1 ELSE globals[n][2] + 1
     IN IF override \/ globals[n] = None
        THEN v <= MaxVersion /\ globals' = [globals EXCEPT ![n] = <<"global", v>>]
        ELSE UNCHANGED globals
  /\ status' = 0
  /\ UNCHANGED <<modVars, root, kind, sysVars, state>>

-----------------------------------------------------------------------------
(* Releasing.                                                              *)

(* The modules the recursive release of m comes to, and those it comes to  *)
(* more than once.                                                         *)
Reach(m) ==
  {x \in Mod : \A S \in SUBSET Mod :
     m \in S /\ (\A y \in S : \A i \in DOMAIN imports[y] :
                  imports[y][i] # None => imports[y][i] \in S) => x \in S}

Edges(S, x) ==
  UNION {{<<y, i>> : i \in {j \in DOMAIN imports[y] : imports[y][j] = x}} :
           y \in S}

ReachedTwice(m) ==
  {x \in Reach(m) : Cardinality(Edges(Reach(m), x)) > IF x = m THEN 0 ELSE 1}

(* Faulty variant: the imports are not released. *)
ReleasesShallow(m, after) ==
  /\ alive' = alive \ {m}
  /\ state' = after
  /\ UNCHANGED <<imports, env, own>>

(* Release of m with everything it imports; a module that is reached twice *)
(* is freed twice.                                                         *)
Releases(m, after) ==
  IF ReachedTwice(m) # {}
  THEN state' = "undefined" /\ UNCHANGED modVars
  ELSE /\ alive' = alive \ Reach(m)
       /\ imports' = [x \in Mod |-> IF x \in Reach(m) THEN <<>> ELSE imports[x]]
       /\ env' = [x \in Mod |-> IF x \in Reach(m) THEN [n \in Name |-> None]
                                ELSE env[x]]
       /\ own' = [x \in Mod |-> IF x \in Reach(m) THEN {} ELSE own[x]]
       /\ state' = after

(* TVMModFree.  The system library can only be released at exit. *)
ModFree ==
  /\ state = "up" /\ root # None
  /\ IF kind = "sys" THEN UNCHANGED <<modVars, root, kind, state>>
     ELSE Releases(root, "up") /\ root' = None /\ kind' = "none"
  /\ status' = 0
  /\ UNCHANGED <<sysVars, globals>>

(* The destructor of the system library: its module, or the symbols that   *)
(* no module took over.                                                    *)
Exit ==
  /\ state = "up"
  /\ IF kind = "sys"
     THEN Releases(root, "exited") /\ root' = None /\ kind' = "none"
     ELSE state' = "exited" /\ UNCHANGED <<modVars, root, kind>>
  /\ symbols' = None
  /\ UNCHANGED <<sys_status, globals, status>>

Next ==
  \/ \E b \in Blob : OpenShared(b) \/ OpenSystem(b)
  \/ \E n \in Name :
       \/ RegisterSymbol(n)
       \/ \E query_imports \in BOOLEAN : ModGetFunction(n, query_imports)
       \/ GetFuncFromEnv(n)
       \/ \E override \in BOOLEAN : FuncRegisterGlobal(n, override)
  \/ OpenSystemAgain
  \/ ModFree
  \/ Exit

Spec == Init /\ [][Next]_vars
-----------------------------------------------------------------------------
(* Properties.                                                             *)

(* "if sys_lib_symbols is not NULL, the num_sys_lib_symbol is valid; if    *)
(* sys_lib_root_mod_handle is not NULL, the sys_lib_root_mod_release_func  *)
(* is valid" (system_library.c:26-27): at most one of the two is set, the  *)
(* number covers the symbols (the array of packed functions has as many    *)
(* elements), and it is never taken for a function.                        *)
UnionIsSafe ==
  state = "up" =>
    /\ kind = "sys" <=> sys_status = Release
    /\ symbols # None => kind # "sys" /\ Cardinality(symbols) <= sys_status

ModulesTypeOK ==
  /\ UnionIsSafe
  /\ alive \subseteq Mod
  /\ \A m \in Mod : imports[m] \in Seq(Mod \cup {None})
  /\ env \in [Mod -> [Name -> Function \cup {None}]]
  /\ own \in [Mod -> SUBSET Name]
  /\ root \in Mod \cup {None}
  /\ kind \in {"none", "dso", "sys"}
  /\ kind = "none" <=> root = None
  /\ symbols = None \/ symbols \subseteq Name
  /\ sys_status \in 0 .. MaxSymbols \/ sys_status = Release
  /\ \A n \in Name : globals[n] \in ({"global"} \X (1 .. MaxVersion)) \cup {None}
  /\ state \in {"up", "exited", "undefined"}

(* The recursive release comes to each module once, although the loader    *)
(* puts another module in the place of an empty one (module.c:186-194),    *)
(* and to none that an open library can reach: TVMModFree of the system    *)
(* library, "which can only be released when exit" (system_library.c:73),  *)
(* leaves it as it is.                                                     *)
LibrariesAreReleasedOnce ==
  /\ state # "undefined"
  /\ root # None => Reach(root) \subseteq alive

(* A module that nothing leads to any more is never released.  Only the    *)
(* failure of a load leaves some, those read before the entry that failed  *)
(* (module.c:161-166).                                                     *)
Lost(m) == m \in alive /\ (root = None \/ m \notin Reach(root))
LostOnlyByFailedLoad ==
  [][\A m \in Mod : Lost(m)' =>
       Lost(m) \/ (kind = "none" /\ kind' = "none" /\ status' = -1)]_vars

(* What the environment cached for a name is what a search through the     *)
(* imports finds first; a global function is cached only if no import has  *)
(* the name, however the globals change later (c_backend_api.c:15-34).     *)
CachePrefersImports ==
  root # None => \A n \in Name :
    LET f == env[root][n] IN
    f # None =>
      IF FromImports(root, n) # None THEN f = FromImports(root, n)
      ELSE f[1] = "global" /\ globals[n] # None /\ f[2] <= globals[n][2]

(* A function once found under a name on an open library is found again:   *)
(* neither the environment's cache nor the packed functions a shared       *)
(* library makes later change the answer (module.c:38-69,                  *)
(* shared_library.c:57-96).                                                *)
LookupIsStable ==
  [][\A n \in Name :
       (root # None /\ root' = root /\ GetFunction(root, n) # None)
         => GetFunction(root, n)' = GetFunction(root, n)]_vars
=============================================================================
