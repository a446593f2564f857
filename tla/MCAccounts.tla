----------------------------- MODULE MCAccounts -----------------------------
(***************************************************************************)
(* Accounts for TLC.                                                       *)
(***************************************************************************)
EXTENDS Accounts, Integers, FiniteSets, TLC

Symmetry == Permutations(Users) \cup Permutations(Sids)
            \cup Permutations(Tokens) \cup Permutations(Requests)

\* Bound: the sessions that work and the requests that hold what they read of a
\* user are three together: two sessions with one request (an administrator
\* changes a user who is logged in) or one session with two (he changes a user
\* who logs in, or whom somebody else changes).
MaxLoad == 3

Load ==
    Cardinality({s \in Sids : Working(s)})
    + Cardinality({r \in Requests : req[r].op \notin {"idle", "admin", "issue"}})

LoadBound == Load <= MaxLoad
=============================================================================
