---------------------------- MODULE SessionStore ----------------------------
(***************************************************************************)
(* RedisAuthSessionStore (internal/data/auth_session.go and the three Lua  *)
(* scripts of auth_session_scripts.go): the login sessions kept in Redis.  *)
(*                                                                         *)
(* A session is three keys that must stay in step:                         *)
(*   auth:v2:session:{sid}         the session record      session[sid]    *)
(*   auth:v2:refresh:{digest}      refresh digest -> sid   refresh[digest] *)
(*   auth:v2:user-sessions:{user}  sorted set of sids      zset, score,    *)
(*                                                         idxExp          *)
(* Redis runs a MULTI block or a script as one step; everything else about *)
(* a call (the time it read, the record it read) is held in call[c] while  *)
(* the other goroutines and server processes go on.  One clock tick is one *)
(* millisecond of the Redis server; an application server reads a clock    *)
(* that differs from it by at most Skew.                                   *)
(***************************************************************************)
EXTENDS Integers

CONSTANTS
    Users,      \* user ids
    Sids,       \* session ids (newID: random UUIDs, never repeated)
    Tokens,     \* a token pair: the refresh digest and the access jti that
                \* were drawn together (utils.Random, newID: never repeated)
    Calls,      \* goroutines with a store call in progress
    NoKey,      \* a key that Redis does not hold
    TTLs,       \* the refresh lifetimes configured by the running servers
    Second,     \* ticks in a second, the unit of the EXPIRE command
    MaxDelay,   \* longest time between time.Now() and the MULTI block
    Skew,       \* largest difference of an application clock from Redis's
    MaxClock    \* bound on the modelled time

(***************************************************************************)
(* config.Validate demands a positive refresh lifetime and nothing else:   *)
(* it need not be a whole number of seconds.                               *)
(***************************************************************************)
ASSUME TimeAssumption ==
    /\ TTLs \subseteq Nat \ {0}
    /\ Second \in Nat \ {0}
    /\ MaxDelay \in Nat
    /\ Skew \in Nat
    /\ MaxClock \in Nat

\* authSessionRecord, with the time its key expires.  The profile fields
\* (email, remark, role, active) are copied unchanged by every operation of
\* the store and are modelled where they matter, in module Accounts.
SessionRec == [user : Users, digest : Tokens, jti : Tokens, exp : Nat]

RefreshRec == [sid : Sids, exp : Nat]

ASSUME KeyAssumption ==
    /\ NoKey \notin SessionRec
    /\ NoKey \notin RefreshRec

VARIABLES
    clock,      \* the Redis server's time
    session,    \* session[s]: the record under auth:v2:session:s, or NoKey
    refresh,    \* refresh[t]: the sid under auth:v2:refresh:t, or NoKey
    zset,       \* zset[u]: the members of auth:v2:user-sessions:u
    score,      \* score[s]: the score s was added with
    idxExp,     \* idxExp[u]: when the sorted set of u expires, 0 if no key
    call,       \* call[c]: what the store call of goroutine c has read
    opened,     \* session ids given out so far
    minted,     \* token pairs given out so far
    rotations   \* <<old, new>> for every rotation Redis has performed

keys == <<session, refresh, zset, score, idxExp>>
drawn == <<opened, minted, rotations>>
vars == <<clock, keys, call, drawn>>

Idle == [op |-> "idle"]

CallRec ==
    {Idle}
    \cup [op : {"create"}, user : Users, ttl : TTLs, now : Int, start : Nat]
    \cup [op : {"load"}, digest : Tokens, sid : Sids]
    \cup [op : {"cas"}, digest : Tokens, sid : Sids, user : Users, jti : Tokens]
    \cup [op : {"delete"}, sid : Sids]
    \cup [op : {"exists"}, user : Users, sid : Sids, seen : SUBSET Sids]

\* The value time.Now() may return on an application server.
AppNow == (clock - Skew)..(clock + Skew)

\* EXPIRE counts whole seconds: go-redis truncates the duration, and raises
\* one shorter than a second to a second.
WholeSeconds(ttl) == IF ttl < Second THEN Second ELSE ttl - (ttl % Second)

Later(a, b) == IF a >= b THEN a ELSE b

Live(s) == session[s] # NoKey

LiveOf(u) == {s \in Sids : Live(s) /\ session[s].user = u}

Init ==
    /\ clock = 0
    /\ session = [s \in Sids |-> NoKey]
    /\ refresh = [t \in Tokens |-> NoKey]
    /\ zset = [u \in Users |-> {}]
    /\ score = [s \in Sids |-> 0]
    /\ idxExp = [u \in Users |-> 0]
    /\ call = [c \in Calls |-> Idle]
    /\ opened = {}
    /\ minted = {}
    /\ rotations = {}

-----------------------------------------------------------------------------
(***************************************************************************)
(* Create: the time is read, then one MULTI block writes the three keys.   *)
(***************************************************************************)
CreateStart(c, u, ttl) ==
    /\ call[c] = Idle
    /\ \E now \in AppNow :
          call' = [call EXCEPT ![c] = [op |-> "create", user |-> u, ttl |-> ttl,
                                       now |-> now, start |-> clock]]
    /\ UNCHANGED <<clock, keys, drawn>>

\* What ZREMRANGEBYSCORE -inf now leaves of the set of u.
Unexpired(u, now) == {m \in zset[u] : score[m] > now}

\* Mutant of IndexExpiry: a plain EXPIRE, which may shorten the set's life.
IndexExpiryPlain(u, kept, ttl) == clock + WholeSeconds(ttl)

\* EXPIRE NX then EXPIRE GT: a new set gets the lifetime, an old one keeps
\* the longer of the two.
IndexExpiry(u, kept, ttl) ==
    LET new == clock + WholeSeconds(ttl)
    IN  IF kept = {} THEN new ELSE Later(idxExp[u], new)

\* sid and token pair are random values drawn by Login; no one else can name
\* them before this step, so the model draws them here.
CreateExec(c, s, t) ==
    LET u    == call[c].user
        ttl  == call[c].ttl
        now  == call[c].now
        kept == Unexpired(u, now)
    IN  /\ call[c].op = "create"
        /\ s \notin opened
        /\ t \notin minted
        /\ session' = [session EXCEPT ![s] = [user |-> u, digest |-> t, jti |-> t,
                                              exp |-> clock + ttl]]
        /\ refresh' = [refresh EXCEPT ![t] = [sid |-> s, exp |-> clock + ttl]]
        /\ zset' = [zset EXCEPT ![u] = kept \cup {s}]
        /\ score' = [score EXCEPT ![s] = now + ttl]
        /\ idxExp' = [idxExp EXCEPT ![u] = IndexExpiry(u, kept, ttl)]
        /\ call' = [call EXCEPT ![c] = Idle]
        /\ opened' = opened \cup {s}
        /\ minted' = minted \cup {t}
        /\ UNCHANGED <<clock, rotations>>

-----------------------------------------------------------------------------
(***************************************************************************)
(* Rotate: read the sid, read the record, then compare-and-set in a        *)
(* script.  A digest or record that is missing or does not match ends the  *)
(* call with ErrNotFound.                                                  *)
(***************************************************************************)
RotateLookup(c, t) ==
    /\ call[c] = Idle
    /\ refresh[t] # NoKey
    /\ call' = [call EXCEPT ![c] = [op |-> "load", digest |-> t,
                                    sid |-> refresh[t].sid]]
    /\ UNCHANGED <<clock, keys, drawn>>

\* Mutant of RotateLoad: a record that is gone is not reported as ErrNotFound.
RotateLoadUnchecked(c) ==
    LET s == call[c].sid
    IN  /\ call[c].op = "load"
        /\ call' = [call EXCEPT ![c] =
                      [op |-> "cas", digest |-> @.digest, sid |-> s,
                       user |-> IF Live(s) THEN session[s].user ELSE NoKey,
                       jti |-> IF Live(s) THEN session[s].jti ELSE NoKey]]
        /\ UNCHANGED <<clock, keys, drawn>>

RotateLoad(c) ==
    LET s == call[c].sid
        t == call[c].digest
    IN  /\ call[c].op = "load"
        /\ call' = [call EXCEPT ![c] =
                      IF Live(s) /\ session[s].digest = t
                      THEN [op |-> "cas", digest |-> t, sid |-> s,
                            user |-> session[s].user, jti |-> session[s].jti]
                      ELSE Idle]
        /\ UNCHANGED <<clock, keys, drawn>>

\* Mutant of RotateMatches: the script does not compare what is stored with
\* what was read.
RotateMatchesAnyRecord(k) == Live(k.sid) /\ session[k.sid].exp - clock > 0

\* The three guards of rotateSessionScript: the digest still leads to the
\* session, the stored JSON is the one that was read, and some life is left.
RotateMatches(k) ==
    /\ refresh[k.digest] # NoKey /\ refresh[k.digest].sid = k.sid
    /\ Live(k.sid)
    /\ session[k.sid].user = k.user
    /\ session[k.sid].digest = k.digest
    /\ session[k.sid].jti = k.jti
    /\ session[k.sid].exp - clock > 0

\* Mutant of RotateApply: the access jti is kept.
RotateApplyKeepsJti(k, t) ==
    /\ session' = [session EXCEPT ![k.sid] = [@ EXCEPT !.digest = t]]
    /\ refresh' = [refresh EXCEPT ![k.digest] = NoKey,
                                  ![t] = [sid |-> k.sid, exp |-> session[k.sid].exp]]
    /\ minted' = minted \cup {t}
    /\ rotations' = rotations \cup {<<k.digest, t>>}

\* Mutant of RotateApply: the keys get a new lifetime.
RotateApplyProlongs(k, t) ==
    /\ \E ttl \in TTLs :
          /\ session' = [session EXCEPT ![k.sid] = [@ EXCEPT !.digest = t, !.jti = t,
                                                            !.exp = clock + ttl]]
          /\ refresh' = [refresh EXCEPT ![k.digest] = NoKey,
                                        ![t] = [sid |-> k.sid, exp |-> clock + ttl]]
    /\ minted' = minted \cup {t}
    /\ rotations' = rotations \cup {<<k.digest, t>>}

\* SET keeps the remaining PTTL, so the expiry time stays what it was.
RotateApply(k, t) ==
    /\ session' = [session EXCEPT ![k.sid] = [@ EXCEPT !.digest = t, !.jti = t]]
    /\ refresh' = [refresh EXCEPT ![k.digest] = NoKey,
                                  ![t] = [sid |-> k.sid, exp |-> session[k.sid].exp]]
    /\ minted' = minted \cup {t}
    /\ rotations' = rotations \cup {<<k.digest, t>>}

\* Mutant of RotateExec: the two keys are SET with the lifetime left to the
\* login, whatever has happened to the session since it was read.
RotateExecUnguarded(c, t) ==
    LET k == call[c]
    IN  /\ k.op = "cas"
        /\ t \notin minted
        /\ \E left \in IF Live(k.sid) THEN {session[k.sid].exp - clock} ELSE TTLs :
              /\ session' = [session EXCEPT ![k.sid] =
                               [user |-> k.user, digest |-> t, jti |-> t, exp |-> clock + left]]
              /\ refresh' = [refresh EXCEPT ![k.digest] = NoKey,
                                            ![t] = [sid |-> k.sid, exp |-> clock + left]]
        /\ minted' = minted \cup {t}
        /\ rotations' = rotations \cup {<<k.digest, t>>}
        /\ call' = [call EXCEPT ![c] = Idle]
        /\ UNCHANGED <<clock, zset, score, idxExp, opened>>

\* The reply may be lost, in which case the client library sends the script
\* again: the call then stays where it is.
RotateExec(c, t) ==
    /\ call[c].op = "cas"
    /\ t \notin minted
    /\ RotateMatches(call[c])
    /\ RotateApply(call[c], t)
    /\ call' \in {call, [call EXCEPT ![c] = Idle]}
    /\ UNCHANGED <<clock, zset, score, idxExp, opened>>

RotateRefused(c) ==
    /\ call[c].op = "cas"
    /\ ~RotateMatches(call[c])
    /\ call' = [call EXCEPT ![c] = Idle]
    /\ UNCHANGED <<clock, keys, drawn>>

-----------------------------------------------------------------------------
(***************************************************************************)
(* Delete, DeleteByRefreshDigest and DeleteUserSessions.                   *)
(***************************************************************************)
\* Mutant of DeleteScript: the refresh key is left behind.
DeleteScriptLeavesRefresh(s) ==
    IF Live(s)
    THEN LET u    == session[s].user
             rest == zset[u] \ {s}
         IN  /\ session' = [session EXCEPT ![s] = NoKey]
             /\ zset' = [zset EXCEPT ![u] = rest]
             /\ idxExp' = [idxExp EXCEPT ![u] = IF rest = {} THEN 0 ELSE @]
             /\ UNCHANGED <<refresh, score>>
    ELSE UNCHANGED keys

\* deleteSessionScript.
DeleteScript(s) ==
    IF Live(s)
    THEN LET u    == session[s].user
             rest == zset[u] \ {s}
         IN  /\ session' = [session EXCEPT ![s] = NoKey]
             /\ refresh' = [refresh EXCEPT ![session[s].digest] = NoKey]
             /\ zset' = [zset EXCEPT ![u] = rest]
             /\ idxExp' = [idxExp EXCEPT ![u] = IF rest = {} THEN 0 ELSE @]
             /\ UNCHANGED score
    ELSE UNCHANGED keys

\* Login and Refresh delete the session they have just written when the
\* access token cannot be issued.
Delete(s) ==
    /\ s \in opened
    /\ DeleteScript(s)
    /\ UNCHANGED <<clock, call, drawn>>

\* Logout: the digest is looked up first, the session deleted by its id.
LogoutLookup(c, t) ==
    /\ call[c] = Idle
    /\ refresh[t] # NoKey
    /\ call' = [call EXCEPT ![c] = [op |-> "delete", sid |-> refresh[t].sid]]
    /\ UNCHANGED <<clock, keys, drawn>>

LogoutExec(c) ==
    /\ call[c].op = "delete"
    /\ DeleteScript(call[c].sid)
    /\ call' \in {call, [call EXCEPT ![c] = Idle]}
    /\ UNCHANGED <<clock, drawn>>

\* deleteUserSessionsScript: every member of the user's set goes, with the
\* refresh key its record names, then the set itself.
DeleteUserSessions(u) ==
    LET gone == {s \in zset[u] : Live(s)}
    IN  /\ session' = [s \in Sids |-> IF s \in gone THEN NoKey ELSE session[s]]
        /\ refresh' = [t \in Tokens |-> IF \E s \in gone : session[s].digest = t
                                        THEN NoKey ELSE refresh[t]]
        /\ zset' = [zset EXCEPT ![u] = {}]
        /\ idxExp' = [idxExp EXCEPT ![u] = 0]
        /\ UNCHANGED <<clock, score, call, drawn>>

-----------------------------------------------------------------------------
(***************************************************************************)
(* OnlineMap for one user: ZRANGEBYSCORE now +inf LIMIT 0 1, then EXISTS   *)
(* of the session found, in a second round trip.  A user without a         *)
(* candidate is offline and the call ends there.                           *)
(***************************************************************************)
Candidates(u, now) == {m \in zset[u] : score[m] >= now}

OnlineRange(c, u) ==
    /\ call[c] = Idle
    /\ \E now \in AppNow : \E m \in Candidates(u, now) :
          /\ \A n \in Candidates(u, now) : score[m] <= score[n]
          /\ call' = [call EXCEPT ![c] = [op |-> "exists", user |-> u, sid |-> m,
                                          seen |-> LiveOf(u)]]
    /\ UNCHANGED <<clock, keys, drawn>>

\* Mutant of OnlineAnswer: the sorted set is believed without EXISTS.
OnlineAnswerFromIndex(k) == k.op = "exists"

\* The value online[u] gets from the reply of EXISTS.
OnlineAnswer(k) == Live(k.sid)

OnlineExists(c) ==
    /\ call[c].op = "exists"
    /\ call' = [call EXCEPT ![c] = Idle]
    /\ UNCHANGED <<clock, keys, drawn>>

-----------------------------------------------------------------------------
(***************************************************************************)
(* The surroundings: a call that fails before Redis sees it, Redis losing  *)
(* its data, and time.  A key is gone once its expiry time has passed.     *)
(***************************************************************************)
CallFails(c) ==
    /\ call[c] # Idle
    /\ call' = [call EXCEPT ![c] = Idle]
    /\ UNCHANGED <<clock, keys, drawn>>

RedisEmptied ==
    /\ session' = [s \in Sids |-> NoKey]
    /\ refresh' = [t \in Tokens |-> NoKey]
    /\ zset' = [u \in Users |-> {}]
    /\ idxExp' = [u \in Users |-> 0]
    /\ UNCHANGED <<clock, score, call, drawn>>

Kept(key, now) == IF key # NoKey /\ key.exp < now THEN NoKey ELSE key

Tick ==
    LET now == clock + 1
    IN  /\ clock < MaxClock
        /\ \A c \in Calls :
              call[c].op = "create" => clock < call[c].start + MaxDelay
        /\ clock' = now
        /\ session' = [s \in Sids |-> Kept(session[s], now)]
        /\ refresh' = [t \in Tokens |-> Kept(refresh[t], now)]
        /\ zset' = [u \in Users |-> IF idxExp[u] < now THEN {} ELSE zset[u]]
        /\ idxExp' = [u \in Users |-> IF idxExp[u] < now THEN 0 ELSE idxExp[u]]
        /\ UNCHANGED <<score, call, drawn>>

Next ==
    \/ \E c \in Calls, u \in Users, ttl \in TTLs : CreateStart(c, u, ttl)
    \/ \E c \in Calls, s \in Sids, t \in Tokens : CreateExec(c, s, t)
    \/ \E c \in Calls, t \in Tokens : RotateLookup(c, t)
    \/ \E c \in Calls : RotateLoad(c)
    \/ \E c \in Calls, t \in Tokens : RotateExec(c, t)
    \/ \E c \in Calls : RotateRefused(c)
    \/ \E s \in Sids : Delete(s)
    \/ \E c \in Calls, t \in Tokens : LogoutLookup(c, t)
    \/ \E c \in Calls : LogoutExec(c)
    \/ \E u \in Users : DeleteUserSessions(u)
    \/ \E c \in Calls, u \in Users : OnlineRange(c, u)
    \/ \E c \in Calls : OnlineExists(c)
    \/ \E c \in Calls : CallFails(c)
    \/ RedisEmptied
    \/ Tick

Spec == Init /\ [][Next]_vars

-----------------------------------------------------------------------------
(***************************************************************************)
(* Properties.                                                             *)
(***************************************************************************)
\* Every key, call and history variable holds a value of its shape.
TypeOK ==
    /\ clock \in Nat
    /\ session \in [Sids -> SessionRec \cup {NoKey}]
    /\ refresh \in [Tokens -> RefreshRec \cup {NoKey}]
    /\ zset \in [Users -> SUBSET Sids]
    /\ score \in [Sids -> Int]
    /\ idxExp \in [Users -> Nat]
    /\ call \in [Calls -> CallRec]
    /\ opened \in SUBSET Sids
    /\ minted \in SUBSET Tokens
    /\ rotations \in SUBSET (Tokens \X Tokens)

\* The refresh index and the sessions are the same relation, whatever calls
\* overlap: a refresh key leads to a session whose record names that digest,
\* every session is reached by its own digest, and the two keys expire
\* together (Create, rotateSessionScript and the delete scripts).
RefreshIndexExact ==
    /\ \A t \in Tokens : refresh[t] # NoKey =>
          LET s == refresh[t].sid
          IN  Live(s) /\ session[s].digest = t /\ session[s].exp = refresh[t].exp
    /\ \A s \in Sids : Live(s) =>
          LET t == session[s].digest
          IN  refresh[t] # NoKey /\ refresh[t].sid = s

\* One refresh token is exchanged at most once, however many requests present
\* it at the same time and however often a lost reply makes the client library
\* send the script again (rotateSessionScript).
RefreshSingleUse ==
    \A p, q \in rotations : p[1] = q[1] => p = q

\* Once a pair has been exchanged neither half works again: no refresh key is
\* left for the old digest and no session accepts the old access jti (Rotate
\* replaces digest and jti together; AuthMiddleware.Required compares the jti).
SupersededPairDead ==
    \A p \in rotations :
        /\ refresh[p[1]] = NoKey
        /\ \A s \in Sids : Live(s) => session[s].jti # p[1]

\* A session that DeleteUserSessions would not reach has at most this much of
\* its life left: the time a MULTI block may be late plus twice the clock
\* difference, or the fraction of a second that EXPIRE drops.
NearlyExpired(s) ==
    \/ session[s].exp - clock <= MaxDelay + 2 * Skew
    \/ session[s].exp - clock < Second - 1

\* Every live session is in its user's set, so that kicking the user ends it,
\* except in the very last moments of its life (Create's ZREMRANGEBYSCORE,
\* ZADD, EXPIRE NX and EXPIRE GT against the session's own TTL).
RevocableUntilNearlyExpired ==
    \A s \in Sids : Live(s) => s \in zset[session[s].user] \/ NearlyExpired(s)

\* A session that has ended never comes back: a Rotate whose reads are older
\* than a logout, a kick or the expiry does not write the record again.
NoResurrection ==
    [][\A s \in opened : session[s] = NoKey => session'[s] = NoKey]_vars

\* A session never changes its user or the time it expires: rotating tokens
\* does not prolong the login (Rotate: "SET ... PX ttl" with the PTTL read).
AbsoluteExpiry ==
    [][\A s \in Sids : session[s] # NoKey /\ session'[s] # NoKey =>
          /\ session'[s].exp = session[s].exp
          /\ session'[s].user = session[s].user]_vars

\* OnlineMap never reports a user online who has no session at that moment,
\* although the session it asks EXISTS for was found in an earlier round trip.
OnlineOnlyIfSession ==
    \A c \in Calls :
        call[c].op = "exists" /\ OnlineAnswer(call[c]) => LiveOf(call[c].user) # {}

-----------------------------------------------------------------------------
(***************************************************************************)
(* The mapping under which the store implements SessionSpec.               *)
(***************************************************************************)
\* An open session is "live" while its user's sorted set holds it.
AbsState == [s \in Sids |->
    IF s \notin opened THEN "new"
    ELSE IF session[s] = NoKey THEN "ended"
    ELSE IF s \in zset[session[s].user] THEN "live" ELSE "fading"]

AbsOwner == [s \in Sids |-> IF Live(s) THEN session[s].user ELSE NoKey]

AbsPair == [s \in Sids |-> IF Live(s) THEN session[s].digest ELSE NoKey]

Abstract == INSTANCE SessionSpec
              WITH None <- NoKey, state <- AbsState, owner <- AbsOwner, pair <- AbsPair

\* The store implements SessionSpec: whatever round trips overlap, a login, a
\* refresh, a logout and a kick each take effect at one moment, or not at all.
ImplementsSessionSpec == Abstract!Spec

-----------------------------------------------------------------------------
(***************************************************************************)
(* What the documentation says, and the code does not do.                  *)
(***************************************************************************)
\* auth_session.go: OnlineMap "returns whether each user has at least one
\* unexpired login whose session is still there".  Refuted: a user one of
\* whose sessions lives through the whole call is reported offline when the
\* session OnlineMap picked ends between its two round trips.
OnlineIfSessionThroughout ==
    \A c \in Calls :
        call[c].op = "exists" /\ (\E s \in call[c].seen : Live(s)) =>
            OnlineAnswer(call[c])

\* Interface document, section 6.7: after a kick the user's tokens "on all
\* devices" fail at once.  Refuted: a session that another login has already
\* dropped from the sorted set survives the kick until it expires.
KickEndsEverySession ==
    [][\A u \in Users : DeleteUserSessions(u) =>
          \A s \in Sids : session'[s] # NoKey => session'[s].user # u]_vars
=============================================================================
