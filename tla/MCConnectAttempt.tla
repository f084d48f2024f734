------------------------- MODULE MCConnectAttempt ---------------------------
(* ConnectAttempt for TLC: the clients are interchangeable.                *)
EXTENDS ConnectAttempt, TLC

Symmetry == Permutations(Client)
=============================================================================
