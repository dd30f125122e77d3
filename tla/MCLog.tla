------------------------------- MODULE MCLog -------------------------------
(* One reader of an attempt that prints two or three lines. *)
EXTENDS LogStore

CONSTANT u1
=============================================================================
