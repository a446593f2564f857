--------------------------- MODULE MCSessionStore ---------------------------
(***************************************************************************)
(* SessionStore for TLC.                                                   *)
(***************************************************************************)
EXTENDS SessionStore, TLC

Symmetry == Permutations(Users) \cup Permutations(Sids)
            \cup Permutations(Tokens) \cup Permutations(Calls)
=============================================================================
