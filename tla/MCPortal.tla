------------------------------ MODULE MCPortal ------------------------------
(* A small instance of Portal. *)
EXTENDS Portal, TLC

\* Nothing tells the requests apart, or the PINs.
Alike == Permutations(Requests) \cup Permutations(Pins)

=============================================================================
