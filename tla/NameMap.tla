------------------------------ MODULE NameMap ------------------------------
(***************************************************************************)
(* What core/utils/trie.h promises of a trie: a map from names to pointers *)
(* (trie.h:3), one for each caller that holds one.  A name is a sequence   *)
(* of bytes; only the bytes that have an index can be in the name of an    *)
(* entry.                                                                  *)
(***************************************************************************)
EXTENDS Sequences

CONSTANTS
  Holder,    \* the callers' variables a trie is created in
  Byte,      \* the bytes a name is made of
  Names,     \* the names the callers use, sequences of bytes
  Indexed,   \* the bytes with an index in the character table
  Data,      \* the pointers that are kept
  Null       \* the null pointer

VARIABLES
  map,       \* the entries of each trie in use
  answer,    \* the status of the last call
  out        \* what the last query left in its caller's variable

mapVars == <<map, answer, out>>

With(f, x, y) == [z \in DOMAIN f \cup {x} |-> IF z = x THEN y ELSE f[z]]

MapInit == map = <<>> /\ answer = "success" /\ out = Null

Create(h) ==
  /\ h \notin DOMAIN map
  /\ map' = With(map, h, <<>>)
  /\ UNCHANGED <<answer, out>>

(* A name that cannot be one is refused, and nothing else changes. *)
Insert(h, w, d) ==
  /\ h \in DOMAIN map
  /\ IF w \in Seq(Indexed)
     THEN map' = With(map, h, With(map[h], w, d)) /\ answer' = "success"
     ELSE map' = map /\ answer' = "invalid_charset"
  /\ out' = out

(* A query finds the last value that was inserted under the name; if there *)
(* is none the caller's variable may be left with what it had, o.          *)
Query(h, w, o) ==
  /\ h \in DOMAIN map
  /\ \/ /\ w \in DOMAIN map[h]
        /\ answer' = "success"
        /\ out' = map[h][w]
     \/ /\ w \notin DOMAIN map[h]
        /\ answer' \in {"not_found", "invalid_charset"}
        /\ answer' = "invalid_charset" => w \notin Seq(Indexed)
        /\ out' \in {o, Null}
  /\ map' = map

(* Every value but that of the empty name is visited, once. *)
Visit(h, g) ==
  /\ h \in DOMAIN map
  /\ map' = With(map, h, [w \in DOMAIN map[h] |->
                            IF w = <<>> THEN map[h][w] ELSE g[map[h][w]]])
  /\ UNCHANGED <<answer, out>>

Clone(h, u) ==
  /\ h \in DOMAIN map /\ u \notin DOMAIN map
  /\ map' = With(map, u, map[h])
  /\ answer' = "success"
  /\ out' = out

Free(h) ==
  /\ h \in DOMAIN map
  /\ map' = [t \in DOMAIN map \ {h} |-> map[t]]
  /\ UNCHANGED <<answer, out>>

MapNext ==
  \E h \in Holder :
    \/ Create(h)
    \/ \E w \in Names \cap Seq(Byte), d \in Data : Insert(h, w, d)
    \/ \E w \in Names \cap Seq(Byte), o \in Data \cup {Null} : Query(h, w, o)
    \/ \E g \in [Data -> Data] : Visit(h, g)
    \/ \E u \in Holder : Clone(h, u)
    \/ Free(h)

MapSpec == MapInit /\ [][MapNext]_mapVars
=============================================================================
