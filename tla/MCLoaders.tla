----------------------------- MODULE MCLoaders -----------------------------
(***************************************************************************)
(* Two names, so that a name can be missing, or be used twice.             *)
(***************************************************************************)
EXTENDS Loaders

CONSTANTS f, g

MCName == {f, g}
=============================================================================
