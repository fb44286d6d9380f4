---------------------------- MODULE MCWriteQueue ----------------------------
(***************************************************************************)
(* A small instance of WriteQueue: an empty string and a one byte string   *)
(* that ask for a terminator, and a one byte vector.                       *)
(***************************************************************************)
EXTENDS WriteQueue

MCPayloads == {WrapString(0, TRUE), WrapString(1, TRUE), WrapVector(1)}
=============================================================================
