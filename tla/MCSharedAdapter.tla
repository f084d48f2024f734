-------------------------- MODULE MCSharedAdapter ---------------------------
(***************************************************************************)
(* SharedAdapter for TLC.  HidServer alone is checked from every setting   *)
(* and over every way a run may leave them; here there are two: Original,  *)
(* and Serving, which a run that is killed while it serves leaves behind.  *)
(***************************************************************************)
EXTENDS SharedAdapter

Original == [p \in Pairing!Property |-> p # "Pairable"]
Serving  == [p \in Pairing!Property |-> p \in {"Pairable", "Connectable"}]

MCSpec ==
  /\ SharedInit /\ settings = Original
  /\ [][SharedNext /\ home' \in {Original, Serving}]_sharedVars

MCFairSpec == MCSpec /\ SharedFairness
=============================================================================
