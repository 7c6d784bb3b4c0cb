--------------------------- MODULE MCAotExecutor ---------------------------
(***************************************************************************)
(* Three models for TLC: A has two inputs of one name (the code finds      *)
(* the first); B has pools; C has constants for its pool.  libA holds the  *)
(* first model, libB the other two with the metadata of B only, and the    *)
(* system library all three, without metadata of its own: it runs in the   *)
(* programs that a model's metadata is linked to (None, A or C).           *)
(***************************************************************************)
EXTENDS AotExecutor, TLC

CONSTANTS e1, e2, v1, v2
MCExec == {e1, e2}
MCVal == {v1, v2}
Symmetric == Permutations(MCExec) \cup Permutations(MCVal)

T(name, size) == [name |-> name, size |-> size]

MCModel == {"A", "B", "C"}
MCMeta ==
  [m \in MCModel |->
     CASE m = "A" -> [name |-> "a", ins |-> <<T("x", 1), T("x", 2)>>,
                      outs |-> <<T("y", 1)>>, pools |-> 0, constants |-> 0]
       [] m = "B" -> [name |-> "b", ins |-> <<T("x", 1)>>,
                      outs |-> <<T("y", 1)>>, pools |-> 2, constants |-> 0]
       [] m = "C" -> [name |-> "c", ins |-> <<T("z", 1)>>,
                      outs |-> <<T("y", 1)>>, pools |-> 1, constants |-> 1]]

MCHandle == {"libA", "libB"}
MCSystem == "system"
MCMains ==
  [lib \in MCHandle \cup {MCSystem} |->
     CASE lib = "libA" -> {"A"} [] lib = "libB" -> {"B", "C"}
       [] lib = MCSystem -> {"A", "B", "C"}]
MCOwnMeta ==
  [lib \in MCHandle \cup {MCSystem} |->
     CASE lib = "libA" -> "A" [] lib = "libB" -> "B" [] lib = MCSystem -> None]
MCLinkable == {None, "A", "C"}
=============================================================================
