----------------------------- MODULE MCModules -----------------------------
(***************************************************************************)
(* Libraries for TLC: one without modules, one without an import tree (and *)
(* without a module context), one with a tree, one whose root is an empty  *)
(* module, as models with metadata have, and one whose root is a Relax     *)
(* executable that imports the library.                                    *)
(***************************************************************************)
EXTENDS Modules

CONSTANTS lib, cuda, relax

MCDev == {cuda, relax}
MCName == {"f", "g", "h"}
MCExports == [m \in {lib, cuda, relax} |->
                CASE m = lib  -> {"f"}
                  [] m = cuda -> {"f", "g"}
                  [] OTHER    -> {"g"}]

Library(entries, rows, ctx) == [entries |-> entries, rows |-> rows, ctx |-> ctx]

MCBlob == {
  Library(<<>>, <<>>, TRUE),
  Library(<<cuda>>, <<>>, FALSE),
  Library(<<lib, cuda, relax>>, <<<<2, 3>>, <<>>, <<>>>>, TRUE),
  Library(<<"metadata", lib, cuda>>, <<<<2>>, <<3>>, <<>>>>, TRUE),
  Library(<<relax, lib, cuda>>, <<<<2>>, <<3>>, <<>>>>, TRUE)}

(* These are as the compiler packs them. *)
ASSUME \A b \in MCBlob : Packed(b)
=============================================================================
