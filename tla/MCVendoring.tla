----------------------------- MODULE MCVendoring ----------------------------
(***************************************************************************)
(* Vendoring with two documents, each of which may consist of two things.  *)
(***************************************************************************)
EXTENDS Vendoring, TLC

CONSTANTS u1, u2, b1, b2

TwoUrls == {u1, u2}
TwoBytes == {b1, b2}
BothWanted == <<u1, u2>>
ByteSymmetry == Permutations(TwoBytes)
=============================================================================
