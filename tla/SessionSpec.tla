----------------------------- MODULE SessionSpec -----------------------------
(***************************************************************************)
(* What the session store promises its callers, without keys, scripts,     *)
(* round trips or clocks: a session is opened once, is rotated only by its *)
(* current token pair, and ends once.  SessionStore is shown to implement  *)
(* this; Accounts is built on it.                                          *)
(*                                                                         *)
(* A session that is "fading" still works but has dropped out of its       *)
(* user's set: ending all sessions of the user does not end it.  It is     *)
(* about to expire (SessionStore!RevocableUntilNearlyExpired says when).   *)
(***************************************************************************)
CONSTANTS Users, Sids, Tokens, None

VARIABLES
    state,      \* state[s]: "new", "live", "fading" or "ended"
    owner,      \* owner[s]: the user of an open session, else None
    pair,       \* pair[s]: the current token pair of an open session, else None
    minted      \* token pairs given out so far

svars == <<state, owner, pair, minted>>

Init ==
    /\ state = [s \in Sids |-> "new"]
    /\ owner = [s \in Sids |-> None]
    /\ pair = [s \in Sids |-> None]
    /\ minted = {}

Working(s) == state[s] \in {"live", "fading"}

LiveOf(u) == {s \in Sids : state[s] = "live" /\ owner[s] = u}

\* A login.  Sessions of the same user in F drop out of its set.
Open(s, u, t, F) ==
    /\ state[s] = "new"
    /\ t \notin minted
    /\ F \subseteq LiveOf(u)
    /\ state' = [x \in Sids |-> IF x = s THEN "live"
                                ELSE IF x \in F THEN "fading" ELSE state[x]]
    /\ owner' = [owner EXCEPT ![s] = u]
    /\ pair' = [pair EXCEPT ![s] = t]
    /\ minted' = minted \cup {t}

\* A refresh: the presented pair must be the current one.
Rotate(s, old, new) ==
    /\ Working(s)
    /\ pair[s] = old
    /\ new \notin minted
    /\ pair' = [pair EXCEPT ![s] = new]
    /\ minted' = minted \cup {new}
    /\ UNCHANGED <<state, owner>>

\* The sessions of E end and those of F start to fade.
Change(E, F) ==
    /\ state' = [s \in Sids |-> IF s \in E THEN "ended"
                                ELSE IF s \in F THEN "fading" ELSE state[s]]
    /\ owner' = [s \in Sids |-> IF s \in E THEN None ELSE owner[s]]
    /\ pair' = [s \in Sids |-> IF s \in E THEN None ELSE pair[s]]
    /\ UNCHANGED minted

\* A logout.
End(s) == Working(s) /\ Change({s}, {})

\* A kick: every session of u that is not already fading ends.
EndUser(u) == Change(LiveOf(u), {})

\* Time passes, or Redis loses its data.
Elapse(E, F) ==
    /\ \A s \in E : Working(s)
    /\ \A s \in F : state[s] = "live"
    /\ Change(E, F)

Next ==
    \/ \E s \in Sids, u \in Users, t \in Tokens, F \in SUBSET Sids : Open(s, u, t, F)
    \/ \E s \in Sids, old, new \in Tokens : Rotate(s, old, new)
    \/ \E s \in Sids : End(s)
    \/ \E u \in Users : EndUser(u)
    \/ \E E, F \in SUBSET Sids : Elapse(E, F)

Spec == Init /\ [][Next]_svars
=============================================================================
