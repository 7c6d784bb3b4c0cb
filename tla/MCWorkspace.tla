---------------------------- MODULE MCWorkspace ----------------------------
(* Three clients and four blocks, of two sizes.                            *)
EXTENDS Workspace

CONSTANTS c1, c2, c3, p1, p2, p3, p4

MCClient == {c1, c2, c3}
MCAddress == {p1, p2, p3, p4}
=============================================================================
