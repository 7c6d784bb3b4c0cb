-------------------------------- MODULE Trie --------------------------------
(***************************************************************************)
(* The tries of core/utils/trie.c, in which all name tables of the runtime *)
(* are kept: the functions of a module, its cache of imported functions,   *)
(* the global functions, the inputs and outputs of a graph, the functions  *)
(* and parameters of a virtual machine.                                    *)
(*                                                                         *)
(* A trie is a tree of nodes on the heap.  edges has <<n, c, m>> when the  *)
(* son of the node n at the index of the byte c is the node m; a missing   *)
(* edge is a null pointer.  That a node has one son for a byte, and one    *)
(* place in one tree, is nothing a set of edges gives: it is proved.       *)
(* value has the data of the nodes whose has_value is set: the data of the *)
(* others is never read.  A name ends at its zero byte or its length; the  *)
(* variants of insertion and query with a length differ in that only.      *)
(***************************************************************************)
EXTENDS Integers, Sequences

CONSTANTS
  Node,      \* the addresses nodes are allocated at
  Holder,    \* the callers' variables a trie is created in
  Byte,      \* the bytes a name is made of
  Indexed,   \* those with an index in char2index
  Names,     \* the names the callers use, sequences of bytes
  Data,      \* the pointers that are kept
  Null       \* the null pointer

VARIABLES
  nodes,     \* the nodes that are allocated
  edges,     \* their sons
  value,     \* the data of those with a value
  root,      \* the first node of each trie in use
  answer,    \* the status of the last call
  out        \* what the last query left in its caller's variable

treeVars == <<nodes, edges, value, root>>
trieVars == <<nodes, edges, value, root, answer, out>>

(* The ways along k bytes of the name w from the node n, through the edges *)
(* E: there is at most one.                                                *)
Walks(E, n, w, k) ==
  {p \in [0 .. k -> Node] :
     p[0] = n /\ \A i \in 1 .. k : <<p[i - 1], w[i], p[i]>> \in E}

Leads(E, n, w, m) == \E p \in Walks(E, n, w, Len(w)) : p[Len(w)] = m

HasSon(n, c) == \E m \in nodes : <<n, c, m>> \in edges

(* The nodes of the tree whose first one is n: what n and the edges reach. *)
Tree(E, n) ==
  {m \in Node : \A S \in SUBSET Node :
     n \in S /\ (\A e \in E : e[1] \in S => e[3] \in S) => m \in S}

With(f, x, y) == [z \in DOMAIN f \cup {x} |-> IF z = x THEN y ELSE f[z]]

TrieInit ==
  /\ nodes = {} /\ edges = {}
  /\ value = <<>> /\ root = <<>>
  /\ answer = "success" /\ out = Null

TrieCreate(h) ==
  /\ h \notin DOMAIN root
  /\ \E n \in Node \ nodes :
       nodes' = nodes \cup {n} /\ root' = With(root, h, n)
  /\ UNCHANGED <<edges, value, answer, out>>

(* The first m bytes of w can be read; the next one, if any, cannot. *)
ReadUpTo(w, m) ==
  /\ \A i \in 1 .. m : w[i] \in Indexed
  /\ m < Len(w) => w[m + 1] \notin Indexed

(* Insertion follows the nodes that are there, k of them, and makes the    *)
(* others up to the end or to a byte without an index; they stay.          *)
TrieInsert(h, w, d) ==
  /\ h \in DOMAIN root
  /\ \E m \in 0 .. Len(w) : \E k \in 0 .. m :
     \E p \in Walks(edges, root[h], w, k), new \in [k + 1 .. m -> Node \ nodes] :
       LET at(i) == IF i <= k THEN p[i] ELSE new[i]
       IN /\ ReadUpTo(w, m)
          /\ k < m => ~ HasSon(p[k], w[k + 1])
          /\ \A i, j \in k + 1 .. m : new[i] = new[j] => i = j
          /\ nodes' = nodes \cup {new[i] : i \in k + 1 .. m}
          /\ edges' = edges \cup {<<at(i - 1), w[i], at(i)>> : i \in k + 1 .. m}
          /\ IF m = Len(w)
             THEN value' = With(value, at(m), d) /\ answer' = "success"
             ELSE value' = value /\ answer' = "invalid_charset"
  /\ UNCHANGED <<root, out>>

(* A query into a variable that holds o.  It is written when the value is  *)
(* found and when a node is missing on the way, but not otherwise.         *)
TrieQuery(h, w, o) ==
  /\ h \in DOMAIN root
  /\ \E k \in 0 .. Len(w) : \E p \in Walks(edges, root[h], w, k) :
       \/ /\ k < Len(w) /\ w[k + 1] \notin Indexed
          /\ answer' = "invalid_charset"
          /\ out' = o
       \/ /\ k < Len(w) /\ w[k + 1] \in Indexed /\ ~ HasSon(p[k], w[k + 1])
          /\ answer' = "not_found"
          /\ out' = Null
       \/ /\ k = Len(w) /\ p[k] \in DOMAIN value
          /\ answer' = "success"
          /\ out' = value[p[k]]
       \/ /\ k = Len(w) /\ p[k] \notin DOMAIN value
          /\ answer' = "not_found"
          /\ out' = o
  /\ UNCHANGED treeVars

(* The visitor g sees the values of all nodes but the first, and may       *)
(* replace them.                                                           *)
TrieVisit(h, g) ==
  /\ h \in DOMAIN root
  /\ value' = [n \in DOMAIN value |->
                 IF n \in Tree(edges, root[h]) \ {root[h]}
                 THEN g[value[n]] ELSE value[n]]
  /\ UNCHANGED <<nodes, edges, root, answer, out>>

(* The copy of a node n is the new node f[n]. *)
TrieClone(h, u) ==
  /\ h \in DOMAIN root /\ u \notin DOMAIN root
  /\ LET T == Tree(edges, root[h])
     IN \E f \in [T -> Node \ nodes] :
          /\ \A m, n \in T : f[m] = f[n] => m = n
          /\ nodes' = nodes \cup {f[n] : n \in T}
          /\ edges' = edges \cup
                        {<<f[e[1]], e[2], f[e[3]]>> : e \in {e \in edges : e[1] \in T}}
          /\ value' = [n \in DOMAIN value \cup {f[m] : m \in T \cap DOMAIN value} |->
                         IF n \in nodes THEN value[n]
                         ELSE value[CHOOSE m \in T : f[m] = n]]
          /\ root' = With(root, u, f[root[h]])
  /\ answer' = "success"
  /\ out' = out

TrieRelease(h) ==
  /\ h \in DOMAIN root
  /\ LET T == Tree(edges, root[h])
     IN /\ nodes' = nodes \ T
        /\ edges' = {e \in edges : e[1] \notin T}
        /\ value' = [n \in DOMAIN value \ T |-> value[n]]
  /\ root' = [t \in DOMAIN root \ {h} |-> root[t]]
  /\ UNCHANGED <<answer, out>>

TrieNext ==
  \E h \in Holder :
    \/ TrieCreate(h)
    \/ \E w \in Names \cap Seq(Byte), d \in Data : TrieInsert(h, w, d)
    \/ \E w \in Names \cap Seq(Byte), o \in Data \cup {Null} : TrieQuery(h, w, o)
    \/ \E g \in [Data -> Data] : TrieVisit(h, g)
    \/ \E u \in Holder : TrieClone(h, u)
    \/ TrieRelease(h)

TrieSpec == TrieInit /\ [][TrieNext]_trieVars

-----------------------------------------------------------------------------
(* The entries of the trie whose first node is r: the names that lead to a *)
(* node with a value.                                                      *)
Key == {w \in Names : w \in Seq(Indexed)}

Entries(E, V, r) ==
  [w \in {w \in Key : \E n \in DOMAIN V : Leads(E, r, w, n)} |->
     V[CHOOSE n \in DOMAIN V : Leads(E, r, w, n)]]

Map == INSTANCE NameMap
         WITH map <- [h \in DOMAIN root |-> Entries(edges, value, root[h])]

(* The tries of trie.c are the maps that trie.h promises. *)
TriesAreMaps == Map!MapSpec

(* Each allocated node is in the tree of one trie and has one place there, *)
(* so that the recursive release comes to it once, and nothing is left     *)
(* when the last trie was released.                                        *)
NodesHaveOnePlace ==
  \A n \in nodes :
    /\ \E h \in DOMAIN root :
         /\ n \in Tree(edges, root[h])
         /\ \A t \in DOMAIN root : n \in Tree(edges, root[t]) => t = h
         /\ n = root[h] => \A e \in edges : e[3] # n
    /\ \A e, f \in edges : e[3] = n /\ f[3] = n => e = f
=============================================================================
