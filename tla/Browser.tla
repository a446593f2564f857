------------------------------- MODULE Browser -------------------------------
(***************************************************************************)
(* The refresh cookie on its way between one browser and AuthService:      *)
(* Login, Refresh and Logout as the browser sees them.  The tabs share one *)
(* cookie and do not know of each other; a tab waits for its answer before *)
(* it sends again.  Answers arrive in any order or not at all, and Redis   *)
(* may fail a call with or without having carried it out.                  *)
(*                                                                         *)
(* The session store is used through SessionSpec.  A pair is the refresh   *)
(* token in the cookie with the access token that is drawn next to it.     *)
(***************************************************************************)
CONSTANTS
    Users, Sids, Tokens, None,      \* of SessionSpec
    Tabs                            \* tabs of the browser

\* No token is the empty cookie.
ASSUME NoneAssumption == None \notin Tokens

VARIABLES
    jar,        \* the refresh cookie that the browser holds, or None
    flight,     \* flight[b]: the request of tab b under way
    home,       \* history: home[t] is the session that pair t was drawn for
    crossed,    \* history: tabs whose request overlaps one of another tab
    loose,      \* history: sessions that the browser has had a reason to lose
    out,        \* history: sessions whose logout was confirmed to the browser
    state, owner, pair, minted      \* the session store

store == <<state, owner, pair, minted>>
vars == <<jar, flight, home, crossed, loose, out, store>>

Sessions == INSTANCE SessionSpec

Working(s) == Sessions!Working(s)

Idle == [op |-> "idle"]

Kinds == {"login", "refresh", "logout"}

\* What an answer does to the cookie: Set-Cookie with a value, or with None for
\* MaxAge -1, or no Set-Cookie at all.
Cookies == [sets : BOOLEAN, value : Tokens \cup {None}]

Flight ==
    {Idle}
    \cup [op : {"sent"}, to : Kinds, cookie : Tokens \cup {None}]
    \cup [op : {"delete"}, to : Kinds, cookie : Tokens \cup {None}, sid : Sids]
    \cup [op : {"answer"}, to : Kinds, cookie : Tokens \cup {None}, ok : BOOLEAN, set : Cookies]

Init ==
    /\ jar = None
    /\ flight = [b \in Tabs |-> Idle]
    /\ home = [t \in Tokens |-> None]
    /\ crossed = {}
    /\ loose = {}
    /\ out = {}
    /\ Sessions!Init

\* The sessions that the pairs of T were drawn for.
Homes(T) == {home[t] : t \in T \ {None}}

-----------------------------------------------------------------------------
(***************************************************************************)
(* The browser sends.  The cookie goes with the request.                   *)
(***************************************************************************)
Send(b, kind) ==
    LET busy == {x \in Tabs : flight[x] # Idle}
    IN  /\ flight[b] = Idle
        /\ flight' = [flight EXCEPT ![b] = [op |-> "sent", to |-> kind, cookie |-> jar]]
        /\ crossed' = IF busy = {} THEN crossed ELSE crossed \cup busy \cup {b}
        /\ UNCHANGED <<jar, home, loose, out, store>>

-----------------------------------------------------------------------------
(***************************************************************************)
(* The handlers.  A step up to the answer has at most one effect on the    *)
(* store.                                                                  *)
(***************************************************************************)
Received(b, kind) == flight[b].op = "sent" /\ flight[b].to = kind

Answers(b, ok, set) ==
    flight' = [flight EXCEPT ![b] = [op |-> "answer", to |-> flight[b].to,
                                     cookie |-> flight[b].cookie, ok |-> ok, set |-> set]]

Deletes(b, s) ==
    flight' = [flight EXCEPT ![b] = [op |-> "delete", to |-> flight[b].to,
                                     cookie |-> flight[b].cookie, sid |-> s]]

NoCookie == [sets |-> FALSE, value |-> None]

SetRefreshCookie(t) == [sets |-> TRUE, value |-> t]

\* Mutant of ClearRefreshCookie: without MaxAge the browser keeps an empty value.
EmptyRefreshCookie == [sets |-> TRUE, value |-> ""]

ClearRefreshCookie == [sets |-> TRUE, value |-> None]

\* A call that was carried out and went wrong afterwards: the browser will not
\* hear of the new pair of s.
Strands(s) == loose' = loose \cup {s}

\* sessions.Create, and then the cookie; or tokens.Issue fails and the session
\* is to be deleted; or the reply of Redis is lost and the answer is 503.
Login(b, s, u, t) ==
    /\ Received(b, "login")
    /\ Sessions!Open(s, u, t, {})
    /\ home' = [home EXCEPT ![t] = s]
    /\ \/ Answers(b, TRUE, SetRefreshCookie(t)) /\ UNCHANGED loose
       \/ Deletes(b, s) /\ UNCHANGED loose
       \/ Answers(b, FALSE, NoCookie) /\ Strands(s)
    /\ UNCHANGED <<jar, crossed, out>>

\* Mutant of Refresh: a session whose access token cannot be issued is left alone.
RefreshLeavesSession(b, s, t) ==
    /\ Received(b, "refresh")
    /\ Sessions!Rotate(s, flight[b].cookie, t)
    /\ home' = [home EXCEPT ![t] = s]
    /\ \/ Answers(b, TRUE, SetRefreshCookie(t)) /\ UNCHANGED loose
       \/ Answers(b, FALSE, NoCookie) /\ UNCHANGED loose
    /\ UNCHANGED <<jar, crossed, out>>

\* sessions.Rotate finds the session.  When the reply of Redis is lost the
\* answer is 503, or the script is run again and the session no longer found.
\* tokens.Issue may fail as above, and so does a session that is not active.
Refresh(b, s, t) ==
    /\ Received(b, "refresh")
    /\ Sessions!Rotate(s, flight[b].cookie, t)
    /\ home' = [home EXCEPT ![t] = s]
    /\ \/ Answers(b, TRUE, SetRefreshCookie(t)) /\ UNCHANGED loose
       \/ Deletes(b, s) /\ UNCHANGED loose
       \/ /\ \E set \in {NoCookie, ClearRefreshCookie} : Answers(b, FALSE, set)
          /\ Strands(s)
    /\ UNCHANGED <<jar, crossed, out>>

\* There is a cookie, and no session has this token (ErrNotFound); without a
\* cookie the answer is the same 401 and sets nothing.
RefreshRefused(b) ==
    LET c == flight[b].cookie
    IN  /\ Received(b, "refresh")
        /\ \A s \in Sids : Working(s) => pair[s] # c
        /\ Answers(b, FALSE, IF c = None THEN NoCookie ELSE ClearRefreshCookie)
        /\ UNCHANGED <<jar, home, crossed, loose, out, store>>

\* DeleteByRefreshDigest finds the session and goes on to delete it.
LogoutLookup(b, s) ==
    /\ Received(b, "logout")
    /\ Working(s)
    /\ pair[s] = flight[b].cookie
    /\ Deletes(b, s)
    /\ UNCHANGED <<jar, home, crossed, loose, out, store>>

\* It finds none, which is no error.
LogoutFindsNone(b) ==
    /\ Received(b, "logout")
    /\ \A s \in Sids : Working(s) => pair[s] # flight[b].cookie
    /\ Answers(b, TRUE, ClearRefreshCookie)
    /\ UNCHANGED <<jar, home, crossed, loose, out, store>>

\* The delete script, for whatever pair the session has by now.  Logout answers
\* ok; a Login or Refresh that cleans up answers 401 or 500 and sets no cookie.
Delete(b) ==
    LET s == flight[b].sid
    IN  /\ flight[b].op = "delete"
        /\ IF Working(s) THEN Sessions!End(s) ELSE UNCHANGED store
        /\ IF flight[b].to = "logout"
           THEN Answers(b, TRUE, ClearRefreshCookie)
           ELSE Answers(b, FALSE, NoCookie)
        /\ UNCHANGED <<jar, home, crossed, loose, out>>

\* Mutant of DeleteFails: Logout does not look at the error.
DeleteFailsUnseen(b) ==
    LET s == flight[b].sid
    IN  /\ flight[b].op = "delete"
        /\ \/ UNCHANGED store
           \/ Working(s) /\ Sessions!End(s)
        /\ IF flight[b].to = "logout"
           THEN UNCHANGED loose /\ Answers(b, TRUE, ClearRefreshCookie)
           ELSE Strands(s) /\ Answers(b, FALSE, NoCookie)
        /\ UNCHANGED <<jar, home, crossed, out>>

\* The script fails, carried out or not: Logout answers 503, the others ignore
\* it.
DeleteFails(b) ==
    LET s == flight[b].sid
    IN  /\ flight[b].op = "delete"
        /\ \/ UNCHANGED store
           \/ Working(s) /\ Sessions!End(s)
        /\ Answers(b, FALSE, NoCookie)
        /\ IF flight[b].to = "logout" THEN UNCHANGED loose ELSE Strands(s)
        /\ UNCHANGED <<jar, home, crossed, out>>

\* Mutant of Unavailable: every error of Redis is taken for ErrNotFound.
UnavailableAsNotFound(b) ==
    /\ flight[b].op = "sent"
    /\ Answers(b, FALSE, IF flight[b].to = "refresh" THEN ClearRefreshCookie ELSE NoCookie)
    /\ UNCHANGED <<jar, home, crossed, loose, out, store>>

\* Redis or PostgreSQL cannot be reached, and nothing has happened: 503 or 500
\* without a cookie, from each of the three.  A login that is refused looks the
\* same.
Unavailable(b) ==
    /\ flight[b].op = "sent"
    /\ Answers(b, FALSE, NoCookie)
    /\ UNCHANGED <<jar, home, crossed, loose, out, store>>

-----------------------------------------------------------------------------
(***************************************************************************)
(* The answer arrives, or it is lost.                                      *)
(***************************************************************************)
\* The tab is done; its request overlaps no other from here on.
Done(b) ==
    /\ flight' = [flight EXCEPT ![b] = Idle]
    /\ crossed' = crossed \ {b}

\* Reasons to lose a session: the answer of a request that was crossed removes
\* its cookie or puts that of another in its place; so does a new login.
Arrive(b) ==
    LET k == flight[b]
    IN  /\ k.op = "answer"
        /\ Done(b)
        /\ jar' = IF k.set.sets THEN k.set.value ELSE jar
        /\ loose' = IF k.set.sets /\ (b \in crossed \/ k.to = "login")
                    THEN loose \cup (Homes({jar, k.cookie}) \ Homes({k.set.value}))
                    ELSE loose
        /\ out' = IF k.to = "logout" /\ k.ok THEN out \cup Homes({k.cookie}) ELSE out
        /\ UNCHANGED <<home, store>>

\* The request is lost before it is served, or its answer after.
Lost(b) ==
    LET k == flight[b]
    IN  /\ k.op \in {"sent", "answer"}
        /\ Done(b)
        /\ loose' = IF k.op = "answer" THEN loose \cup Homes({k.set.value}) ELSE loose
        /\ UNCHANGED <<jar, home, out, store>>

\* The cookie's MaxAge, in whole seconds, has passed, or the user removes it.
CookieGone ==
    /\ jar # None
    /\ jar' = None
    /\ loose' = loose \cup Homes({jar})
    /\ UNCHANGED <<flight, home, crossed, out, store>>

\* The session ends elsewhere: expiry, a kick or a change of the user.
EndedElsewhere ==
    /\ \/ \E s \in Sids : Sessions!End(s)
       \/ \E u \in Users : Sessions!EndUser(u)
    /\ UNCHANGED <<jar, flight, home, crossed, loose, out>>

Next ==
    \/ \E b \in Tabs, kind \in Kinds : Send(b, kind)
    \/ \E b \in Tabs, s \in Sids, u \in Users, t \in Tokens : Login(b, s, u, t)
    \/ \E b \in Tabs, s \in Sids, t \in Tokens : Refresh(b, s, t)
    \/ \E b \in Tabs : RefreshRefused(b)
    \/ \E b \in Tabs, s \in Sids : LogoutLookup(b, s)
    \/ \E b \in Tabs : LogoutFindsNone(b)
    \/ \E b \in Tabs : Delete(b)
    \/ \E b \in Tabs : DeleteFails(b)
    \/ \E b \in Tabs : Unavailable(b)
    \/ \E b \in Tabs : Arrive(b)
    \/ \E b \in Tabs : Lost(b)
    \/ CookieGone
    \/ EndedElsewhere

Spec == Init /\ [][Next]_vars

-----------------------------------------------------------------------------
(***************************************************************************)
(* Properties.                                                             *)
(***************************************************************************)
\* Every variable holds values of its shape.
TypeOK ==
    /\ jar \in Tokens \cup {None}
    /\ flight \in [Tabs -> Flight]
    /\ home \in [Tokens -> Sids \cup {None}]
    /\ crossed \in SUBSET Tabs
    /\ loose \in SUBSET Sids
    /\ out \in SUBSET Sids
    /\ state \in [Sids -> {"new", "live", "fading", "ended"}]
    /\ owner \in [Sids -> Users \cup {None}]
    /\ pair \in [Sids -> Tokens \cup {None}]
    /\ minted \in SUBSET Tokens

\* The current token of s is in the browser, or on its way to it, or the server
\* is about to delete the session.
Held(s) ==
    \/ jar = pair[s]
    \/ \E b \in Tabs : flight[b].op = "answer" /\ flight[b].set = SetRefreshCookie(pair[s])
    \/ \E b \in Tabs : flight[b].op = "delete" /\ flight[b].sid = s

\* The browser keeps hold of its session through every refresh, refusal and
\* error of the server, unless an answer was lost, a call failed after it was
\* carried out, two requests crossed, a login replaced the session or the cookie
\* was removed.
HeldUnlessLoose == \A s \in Sids : Working(s) => s \in loose \/ Held(s)

\* A refresh is refused only when the session of its cookie has ended, or for
\* the same reasons: no answer of the server logs out a browser that did
\* everything right.
RefusedOnlyIfEnded ==
    \A b \in Tabs :
        LET k == flight[b]
        IN  k.op = "answer" /\ k.to = "refresh" /\ k.set = ClearRefreshCookie =>
                \A s \in Homes({k.cookie}) : Working(s) => s \in loose \/ b \in crossed

\* After "logged out" the session is over, unless the browser had already had a
\* reason to lose it: an error of the store is never reported as a logout.
LogoutFinal == \A s \in out : Working(s) => s \in loose

-----------------------------------------------------------------------------
\* Interface document, section 3: a logout deletes the login state in Redis and
\* its tokens fail at once.  Refuted: a logout that presents a token which a
\* refresh under way has exchanged finds no session, is answered "logged out",
\* and the session lives on.
LogoutEnds == \A s \in out : ~Working(s)
=============================================================================
