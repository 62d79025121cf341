--------------------------- MODULE MCApiSessions ---------------------------
(* A small instance of ApiSessions. *)
EXTENDS ApiSessions, TLC

CONSTANTS w1, w2, b1, b2

\* Each worker sends a body of its own: the dialog and the upload confirm the
\* preview policy of an event under one key.
OneBodyEach == w1 :> b1 @@ w2 :> b2

\* Nothing tells one worker and its body from the other.
Swap == w1 :> w2 @@ w2 :> w1 @@ b1 :> b2 @@ b2 :> b1

Alike == {Swap, [v \in DOMAIN Swap |-> v]}

\* What goes wrong together.
FewMishaps ==
    {{"age", "late answer", "stop", "raise", "recover"},
     {"age", "late answer", "late refresh"},
     {"age", "late refresh", "sign out", "recover"},
     {"age", "late refresh", "restart", "keyring"},
     {"age", "sign out", "sign in again"}}

=============================================================================
