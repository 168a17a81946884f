------------------------------ MODULE Version ------------------------------
(***************************************************************************)
(* The coordinates PSP mints for one stream (protocol/version.go): a pair  *)
(* of an epoch and a version, compared lexicographically.  The epoch is    *)
(* raised when PSP rebuilds the document row, so that a counter that fell  *)
(* back to 1 after a database restore can still be newer.                  *)
(*                                                                         *)
(* Both coordinates are uint64 in the source.  They are only compared,     *)
(* never added, so their width has no bearing on anything stated here.     *)
(***************************************************************************)
EXTENDS Integers

Versions == [epoch : Nat, version : Nat]

NoVersion == [epoch |-> 0, version |-> 0]

(* Mutant: the pair is compared from the wrong end. *)
NewerVersionFirst(v, other) ==
  \/ v.version > other.version
  \/ v.version = other.version /\ v.epoch > other.epoch

Newer(v, other) ==
  \/ v.epoch > other.epoch
  \/ v.epoch = other.epoch /\ v.version > other.version

Zero(v) == v.epoch = 0 /\ v.version = 0

(* A half-zero pair is neither unset nor the coordinate of a document. *)
Committed(v) == v.epoch > 0 /\ v.version > 0
=============================================================================
