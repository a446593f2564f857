------------------------------ MODULE MCBrowser ------------------------------
(***************************************************************************)
(* Browser for TLC.                                                        *)
(***************************************************************************)
EXTENDS Browser, TLC

Symmetry == Permutations(Sids) \cup Permutations(Tokens) \cup Permutations(Tabs)
=============================================================================
