------------------------- MODULE SessionIndexProofs -------------------------
(***************************************************************************)
(* Proofs about the sorted sets of SessionStore (who can be kicked, who is *)
(* reported online), and that the store implements SessionSpec.            *)
(***************************************************************************)
EXTENDS SessionStoreProofs

\* A live session either was live before the step, with the same user and expiry
\* time, or is the one that Create has just written.
LEMMA LiveOrigin ==
    ASSUME PairInv, [Next]_vars, NEW s \in Sids, session'[s] # NoKey
    PROVE  \/ /\ session[s] # NoKey
              /\ session'[s].exp = session[s].exp /\ session'[s].user = session[s].user
           \/ /\ s \notin opened
              /\ \E c \in Calls, t \in Tokens : CreateExec(c, s, t)
  <1>1. CASE session[s] # NoKey
    BY <1>1, SteadyStep DEF Steady
  <1>2. CASE session[s] = NoKey
    <2> USE DEF PairInv
    <2>1. s \notin opened
      BY <1>2, SteadyStep DEF Steady
    <2>2. ASSUME NEW c \in Calls, NEW x \in Sids, NEW t \in Tokens, CreateExec(c, x, t)
          PROVE  x = s
      BY <1>2, <2>2 DEF CreateExec, TypeOK
    <2>3. ASSUME NEW c \in Calls, NEW t \in Tokens, RotateExec(c, t)
          PROVE  FALSE
      <3>1. call[c].sid \in Sids /\ Live(call[c].sid)
        BY <2>3, CallShape DEF RotateExec, RotateMatches, TypeOK
      <3> QED
        BY <1>2, <2>3, <3>1 DEF RotateExec, RotateApply, Live, TypeOK
    <2>4. ASSUME NEW x, DeleteScript(x)
          PROVE  FALSE
      BY <1>2, <2>4 DEF DeleteScript, keys, TypeOK
    <2>5. ASSUME NEW u \in Users, DeleteUserSessions(u)
          PROVE  FALSE
      BY <1>2, <2>5 DEF DeleteUserSessions
    <2>6. ~RedisEmptied /\ ~Tick /\ session' # session
      BY <1>2 DEF RedisEmptied, Tick, Kept
    <2> QED
      BY <2>1, <2>2, <2>3, <2>4, <2>5, <2>6
         DEF Next, vars, keys, CreateStart, RotateLookup, RotateLoad, RotateRefused, Delete,
             LogoutLookup, LogoutExec, OnlineRange, OnlineExists, CallFails
  <1> QED
    BY <1>1, <1>2

-----------------------------------------------------------------------------
(***************************************************************************)
(* OnlineMap.                                                              *)
(***************************************************************************)
\* A sorted set names ids that were given out, and never another user's session.
IndexOwn ==
    \A u \in Users : \A s \in zset[u] :
        s \in opened /\ (Live(s) => session[s].user = u)

\* So does an OnlineMap between its two round trips.
LookupOwn ==
    \A c \in Calls : call[c].op = "exists" =>
        LET s == call[c].sid
        IN  /\ s \in opened /\ call[c].user \in Users
            /\ Live(s) => session[s].user = call[c].user

\* The inductive invariant.
OwnInv == PairInv /\ IndexOwn /\ LookupOwn

\* No step puts an id into a set, except that Create adds the new one to its user's.
LEMMA IndexStep ==
    ASSUME PairInv, [Next]_vars, NEW u \in Users, NEW s \in zset'[u]
    PROVE  \/ s \in zset[u]
           \/ /\ s \in opened' /\ s \notin opened /\ s \in Sids
              /\ session'[s].user = u
  <1> USE DEF PairInv
  <1>1. ASSUME NEW c \in Calls, NEW x \in Sids, NEW t \in Tokens, CreateExec(c, x, t)
        PROVE  \/ s \in zset[u]
               \/ s \in opened' /\ s \notin opened /\ s \in Sids /\ session'[s].user = u
    <2>1. zset' = [zset EXCEPT ![call[c].user] = Unexpired(call[c].user, call[c].now) \cup {x}]
      BY <1>1 DEF CreateExec
    <2>2. x \notin opened /\ x \in opened' /\ session'[x].user = call[c].user
      BY <1>1 DEF CreateExec, TypeOK
    <2> QED
      BY <2>1, <2>2 DEF Unexpired, TypeOK
  <1>2. ASSUME NEW x \in Sids, DeleteScript(x)
        PROVE  s \in zset[u]
    BY <1>2, LiveRecord DEF DeleteScript, keys, TypeOK
  <1>3. ASSUME NEW c \in Calls, LogoutExec(c)
        PROVE  s \in zset[u]
    <2>1. call[c].sid \in Sids
      BY <1>3, CallShape DEF LogoutExec, TypeOK
    <2> QED
      BY <1>2, <1>3, <2>1 DEF LogoutExec
  <1>4. ASSUME NEW x \in Users, DeleteUserSessions(x)
        PROVE  s \in zset[u]
    BY <1>4 DEF DeleteUserSessions, TypeOK
  <1>5. CASE RedisEmptied
    BY <1>5 DEF RedisEmptied
  <1>6. CASE Tick
    BY <1>6 DEF Tick
  <1>7. CASE zset' = zset
    BY <1>7
  <1> QED
    BY <1>1, <1>2, <1>3, <1>4, <1>5, <1>6, <1>7
       DEF Next, vars, keys, CreateStart, RotateLookup, RotateLoad, RotateExec, RotateRefused,
           Delete, LogoutLookup, OnlineRange, OnlineExists, CallFails

\* An OnlineMap under way after a step was so before, or has just read the set.
LEMMA LookupStep ==
    ASSUME PairInv, [Next]_vars, NEW c \in Calls, call'[c].op = "exists"
    PROVE  \/ call'[c] = call[c]
           \/ /\ UNCHANGED <<keys, drawn>>
              /\ call'[c].user \in Users /\ call'[c].sid \in zset[call'[c].user]
  <1> USE DEF PairInv
  <1>1. ASSUME NEW d \in Calls, NEW u \in Users, OnlineRange(d, u)
        PROVE  \/ call'[c] = call[c]
               \/ /\ UNCHANGED <<keys, drawn>>
                  /\ call'[c].user \in Users /\ call'[c].sid \in zset[call'[c].user]
    <2>1. PICK now \in AppNow : \E m \in Candidates(u, now) :
             call' = [call EXCEPT ![d] = [op |-> "exists", user |-> u, sid |-> m,
                                          seen |-> LiveOf(u)]]
      BY <1>1 DEF OnlineRange
    <2>2. PICK m \in zset[u] :
             call' = [call EXCEPT ![d] = [op |-> "exists", user |-> u, sid |-> m,
                                          seen |-> LiveOf(u)]]
      BY <2>1 DEF Candidates
    <2> QED
      BY <1>1, <2>2 DEF OnlineRange, TypeOK
  <1>2. ASSUME NEW d \in Calls, NEW u \in Users, NEW ttl \in TTLs, CreateStart(d, u, ttl)
        PROVE  call'[c] = call[c]
    BY <1>2 DEF CreateStart, TypeOK
  <1>3. ASSUME NEW d \in Calls, NEW t \in Tokens, RotateLookup(d, t) \/ LogoutLookup(d, t)
        PROVE  call'[c] = call[c]
    BY <1>3 DEF RotateLookup, LogoutLookup, TypeOK
  <1>4. ASSUME NEW d \in Calls, RotateLoad(d)
        PROVE  call'[c] = call[c]
    BY <1>4 DEF RotateLoad, TypeOK, Idle
  <1>5. ASSUME NEW d \in Calls, call' \in {call, [call EXCEPT ![d] = Idle]}
        PROVE  call'[c] = call[c]
    BY <1>5 DEF TypeOK, Idle
  <1> QED
    BY <1>1, <1>2, <1>3, <1>4, <1>5
       DEF Next, vars, CreateExec, RotateExec, RotateRefused, Delete, LogoutExec,
           DeleteUserSessions, OnlineExists, CallFails, RedisEmptied, Tick

\* Ids stay given out.
LEMMA OpenedGrows ==
    ASSUME [Next]_vars
    PROVE  opened \subseteq opened'
  BY DEF Next, vars, drawn, CreateStart, CreateExec, RotateLookup, RotateLoad, RotateExec,
         RotateRefused, Delete, LogoutLookup, LogoutExec, DeleteUserSessions, OnlineRange,
         OnlineExists, CallFails, RedisEmptied, Tick

\* Every step keeps the invariant.
LEMMA OwnNext == OwnInv /\ [Next]_vars => OwnInv'
  <1> SUFFICES ASSUME OwnInv, [Next]_vars PROVE OwnInv'
    OBVIOUS
  <1>0. PairInv /\ PairInv' /\ TypeOK /\ TypeOK'
    BY PairNext DEF OwnInv, PairInv
  <1>1. opened \subseteq opened' /\ opened \subseteq Sids
    BY <1>0, OpenedGrows DEF TypeOK
  <1>2. ASSUME NEW s \in opened, session'[s] # NoKey
        PROVE  session[s] # NoKey /\ session'[s].user = session[s].user
    BY <1>0, <1>1, <1>2, LiveOrigin
  <1>3. IndexOwn'
    <2> SUFFICES ASSUME NEW u \in Users, NEW s \in zset'[u]
                 PROVE  s \in opened' /\ (session'[s] # NoKey => session'[s].user = u)
      BY DEF IndexOwn, Live
    <2>1. CASE s \in zset[u]
      BY <1>1, <1>2, <2>1 DEF OwnInv, IndexOwn, Live
    <2>2. CASE s \notin zset[u]
      BY <1>0, <2>2, IndexStep
    <2> QED
      BY <2>1, <2>2
  <1>4. LookupOwn'
    <2> SUFFICES ASSUME NEW c \in Calls, call'[c].op = "exists"
                 PROVE  LET s == call'[c].sid
                        IN  /\ s \in opened' /\ call'[c].user \in Users
                            /\ session'[s] # NoKey => session'[s].user = call'[c].user
      BY DEF LookupOwn, Live
    <2>1. CASE call'[c] = call[c]
      BY <1>1, <1>2, <2>1 DEF OwnInv, LookupOwn, Live
    <2>2. CASE /\ UNCHANGED <<keys, drawn>>
               /\ call'[c].user \in Users /\ call'[c].sid \in zset[call'[c].user]
      BY <2>2 DEF OwnInv, IndexOwn, Live, keys, drawn
    <2> QED
      BY <1>0, <2>1, <2>2, LookupStep
  <1> QED
    BY <1>0, <1>3, <1>4 DEF OwnInv

\* The invariant holds of an empty Redis.
LEMMA OwnInit == Init => OwnInv
  BY PairInit DEF Init, OwnInv, IndexOwn, LookupOwn, Idle

\* Whatever ends or begins between the two round trips of OnlineMap, it reports
\* online only a user who has a session.
THEOREM OnlineSound == Spec => []OnlineOnlyIfSession
  <1>1. OwnInv => OnlineOnlyIfSession
    <2> SUFFICES ASSUME OwnInv, NEW c \in Calls, call[c].op = "exists", Live(call[c].sid)
                 PROVE  LiveOf(call[c].user) # {}
      BY DEF OnlineOnlyIfSession, OnlineAnswer
    <2>1. call[c].sid \in Sids /\ session[call[c].sid].user = call[c].user
      BY DEF OwnInv, PairInv, TypeOK, LookupOwn
    <2> QED
      BY <2>1 DEF LiveOf
  <1> QED
    BY <1>1, OwnInit, OwnNext, PTL DEF Spec
-----------------------------------------------------------------------------
(***************************************************************************)
(* Revocability.  A sid leaves its set before its session ends because a   *)
(* later Create finds its score passed, or because the whole set expires.  *)
(* So the score must not be much lower than the session's expiry time, nor *)
(* the set expire much earlier.                                            *)
(***************************************************************************)
\* A Create under way has read a clock that is off by Skew, at most MaxDelay ago.
ReadingRecent ==
    \A c \in Calls : call[c].op = "create" =>
        LET k == call[c]
        IN  /\ k.start <= clock /\ clock <= k.start + MaxDelay
            /\ k.start - Skew <= k.now /\ k.now <= k.start + Skew

\* The score of a session is at most that much behind its expiry time.
ScoreBehind ==
    \A s \in Sids : Live(s) => session[s].exp - score[s] <= MaxDelay + Skew

\* The set of a user ends at most a fraction of a second before its sessions.
IndexOutlives ==
    \A s \in Sids : Live(s) =>
        LET u == session[s].user
        IN  s \in zset[u] => idxExp[u] >= session[s].exp - (Second - 1)

\* The inductive invariant.
RevocableInv ==
    PairInv /\ ReadingRecent /\ ScoreBehind /\ IndexOutlives /\ RevocableUntilNearlyExpired

\* A Create under way after a step was so before, or has just read its clock.
LEMMA ReadingStep ==
    ASSUME PairInv, [Next]_vars, NEW c \in Calls, call'[c].op = "create"
    PROVE  \/ call'[c] = call[c]
           \/ /\ clock' = clock
              /\ call'[c].start = clock /\ call'[c].now \in AppNow
  <1> USE DEF PairInv
  <1>1. ASSUME NEW d \in Calls, NEW u \in Users, NEW ttl \in TTLs, CreateStart(d, u, ttl)
        PROVE  \/ call'[c] = call[c]
               \/ clock' = clock /\ call'[c].start = clock /\ call'[c].now \in AppNow
    <2>1. PICK now \in AppNow :
             call' = [call EXCEPT ![d] = [op |-> "create", user |-> u, ttl |-> ttl,
                                          now |-> now, start |-> clock]]
      BY <1>1 DEF CreateStart
    <2> QED
      BY <1>1, <2>1 DEF CreateStart, TypeOK
  <1>2. ASSUME NEW d \in Calls, NEW u \in Users, OnlineRange(d, u)
        PROVE  call'[c] = call[c]
    <2>1. PICK now \in AppNow : \E m \in Candidates(u, now) :
             call' = [call EXCEPT ![d] = [op |-> "exists", user |-> u, sid |-> m,
                                          seen |-> LiveOf(u)]]
      BY <1>2 DEF OnlineRange
    <2> QED
      BY <2>1 DEF TypeOK
  <1>3. ASSUME NEW d \in Calls, NEW t \in Tokens, RotateLookup(d, t) \/ LogoutLookup(d, t)
        PROVE  call'[c] = call[c]
    BY <1>3 DEF RotateLookup, LogoutLookup, TypeOK
  <1>4. ASSUME NEW d \in Calls, RotateLoad(d)
        PROVE  call'[c] = call[c]
    BY <1>4 DEF RotateLoad, TypeOK, Idle
  <1>5. ASSUME NEW d \in Calls, call' \in {call, [call EXCEPT ![d] = Idle]}
        PROVE  call'[c] = call[c]
    BY <1>5 DEF TypeOK, Idle
  <1> QED
    BY <1>1, <1>2, <1>3, <1>4, <1>5
       DEF Next, vars, CreateExec, RotateExec, RotateRefused, Delete, LogoutExec,
           DeleteUserSessions, OnlineExists, CallFails, RedisEmptied, Tick

\* What the invariant says of one session.
Covered(s) ==
    LET u == session[s].user
    IN  /\ session[s].exp - score[s] <= MaxDelay + Skew
        /\ s \in zset[u] => idxExp[u] >= session[s].exp - (Second - 1)
        /\ s \in zset[u] \/ NearlyExpired(s)

\* Create's MULTI block: the new session is covered, and an old one that its
\* ZREMRANGEBYSCORE drops is nearly expired.
LEMMA CreateCovers ==
    ASSUME RevocableInv, TypeOK', NEW c \in Calls, NEW x \in Sids, NEW t \in Tokens,
           CreateExec(c, x, t), NEW s \in Sids, session'[s] # NoKey
    PROVE  Covered(s)'
  <1> DEFINE u == call[c].user
             ttl == call[c].ttl
             now == call[c].now
             kept == Unexpired(u, now)
  <1> USE DEF RevocableInv, PairInv
  <1>1. u \in Users /\ ttl \in TTLs /\ ttl \in Nat /\ now \in Int /\ call[c].start \in Nat
    BY CallShape, TimeAssumption DEF CreateExec, TypeOK
  <1>2. /\ clock \in Nat /\ clock' = clock
        /\ MaxDelay \in Nat /\ Skew \in Nat /\ Second \in Nat \ {0}
    BY TimeAssumption DEF CreateExec, TypeOK
  <1>3. now <= clock + Skew /\ clock - now <= MaxDelay + Skew
    BY <1>1, <1>2 DEF CreateExec, ReadingRecent
  <1>4. /\ zset'[u] = kept \cup {x} /\ kept \subseteq zset[u]
        /\ idxExp'[u] = IndexExpiry(u, kept, ttl)
        /\ \A v \in Users \ {u} : zset'[v] = zset[v] /\ idxExp'[v] = idxExp[v]
    BY <1>1 DEF CreateExec, TypeOK, Unexpired
  <1>5. CASE s = x
    <2>1. session'[s] = [user |-> u, digest |-> t, jti |-> t, exp |-> clock + ttl]
          /\ score'[s] = now + ttl
      BY <1>5 DEF CreateExec, TypeOK
    <2>2. idxExp'[u] >= clock + WholeSeconds(ttl)
      BY <1>1, <1>2, <1>4, WholeSecondsBound DEF IndexExpiry, Later, TypeOK
    <2>3. idxExp'[u] \in Nat
      BY <1>1 DEF TypeOK
    <2>4. idxExp'[u] >= (clock + ttl) - (Second - 1)
      BY <1>1, <1>2, <2>2, <2>3, WholeSecondsBound
    <2> QED
      BY <1>1, <1>2, <1>3, <1>4, <1>5, <2>1, <2>4 DEF Covered
  <1>6. CASE s # x
    <2>1. session'[s] = session[s] /\ Live(s) /\ score'[s] = score[s]
      BY <1>6 DEF CreateExec, TypeOK, Live
    <2>2. session[s].exp \in Nat /\ session[s].user \in Users /\ score[s] \in Int
      BY <2>1, LiveRecord DEF TypeOK
    <2>3. Covered(s)
      BY <2>1 DEF ScoreBehind, IndexOutlives, RevocableUntilNearlyExpired, Covered
    <2>4. CASE session[s].user # u
      BY <1>2, <1>4, <2>1, <2>2, <2>3, <2>4 DEF Covered, NearlyExpired
    <2>5. CASE session[s].user = u /\ s \in kept
      <3>1. idxExp'[u] >= idxExp[u] /\ idxExp[u] \in Nat /\ idxExp'[u] \in Nat
        BY <1>1, <1>2, <1>4, <2>5, WholeSecondsBound DEF IndexExpiry, Later, TypeOK
      <3>2. idxExp[u] >= session[s].exp - (Second - 1)
        BY <1>4, <2>3, <2>5 DEF Covered
      <3>3. idxExp'[u] >= session[s].exp - (Second - 1)
        BY <1>2, <2>2, <3>1, <3>2
      <3> QED
        BY <1>4, <2>1, <2>3, <2>5, <3>3 DEF Covered
    <2>6. CASE session[s].user = u /\ s \in zset[u] /\ s \notin kept
      <3>1. score[s] <= now
        BY <1>1, <2>2, <2>6 DEF Unexpired
      <3>2. session[s].exp - clock <= MaxDelay + 2 * Skew
        BY <1>1, <1>2, <1>3, <2>2, <2>3, <3>1 DEF Covered
      <3>3. s \notin zset'[u]
        BY <1>4, <1>6, <2>6
      <3> QED
        BY <1>2, <2>1, <2>3, <2>6, <3>2, <3>3 DEF Covered, NearlyExpired
    <2>7. CASE session[s].user = u /\ s \notin zset[u]
      <3>1. s \notin zset'[u]
        BY <1>4, <1>6, <2>7
      <3> QED
        BY <1>2, <2>1, <2>3, <2>7, <3>1 DEF Covered, NearlyExpired
    <2> QED
      BY <2>4, <2>5, <2>6, <2>7
  <1> QED
    BY <1>5, <1>6

\* A session that survives any other step is covered after it as before: delete
\* scripts take only ids whose sessions they end, a tick only whole sets.
LEMMA SurvivorCovered ==
    ASSUME RevocableInv, TypeOK', [Next]_vars, NEW s \in Sids, Live(s), session'[s] # NoKey,
           \A c \in Calls, x \in Sids, t \in Tokens : ~CreateExec(c, x, t)
    PROVE  Covered(s)'
  <1> DEFINE u == session[s].user
  <1> USE DEF RevocableInv, PairInv
  <1>1. Covered(s)
    BY DEF ScoreBehind, IndexOutlives, RevocableUntilNearlyExpired, Covered
  <1>2. session'[s].user = u /\ session'[s].exp = session[s].exp
    BY LiveOrigin DEF Live, DrawnOnce
  <1>3. /\ u \in Users /\ session[s].exp \in Nat /\ score[s] \in Int /\ clock \in Nat
        /\ idxExp[u] \in Nat /\ Second \in Nat \ {0} /\ MaxDelay \in Nat /\ Skew \in Nat
    BY LiveRecord, TimeAssumption DEF TypeOK
  <1>4. ASSUME score' = score, clock' = clock, idxExp'[u] = idxExp[u],
               s \in zset'[u] <=> s \in zset[u]
        PROVE  Covered(s)'
    BY <1>1, <1>2, <1>4 DEF Covered, NearlyExpired
  <1>5. ASSUME NEW x \in Sids, DeleteScript(x), clock' = clock
        PROVE  Covered(s)'
    <2>1. CASE ~Live(x)
      BY <1>4, <1>5, <2>1 DEF DeleteScript, keys
    <2>2. CASE Live(x)
      <3>1. x # s
        BY <1>5, <2>2 DEF DeleteScript, TypeOK
      <3>2. /\ session[x].user \in Users /\ score' = score
            /\ zset' = [zset EXCEPT ![session[x].user] = @ \ {x}]
            /\ idxExp' = [idxExp EXCEPT ![session[x].user] =
                            IF zset[session[x].user] \ {x} = {} THEN 0 ELSE @]
        BY <1>5, <2>2, LiveRecord DEF DeleteScript
      <3>3. s \in zset'[u] <=> s \in zset[u]
        BY <1>3, <3>1, <3>2 DEF TypeOK
      <3>4. CASE s \in zset[u]
        <4>1. idxExp'[u] = idxExp[u]
          BY <1>3, <3>1, <3>2, <3>4 DEF TypeOK
        <4> QED
          BY <1>4, <1>5, <3>2, <3>3, <4>1
      <3>5. CASE s \notin zset[u]
        BY <1>1, <1>2, <1>5, <3>2, <3>3, <3>5 DEF Covered, NearlyExpired
      <3> QED
        BY <3>4, <3>5
    <2> QED
      BY <2>1, <2>2
  <1>6. ASSUME NEW c \in Calls, LogoutExec(c)
        PROVE  Covered(s)'
    <2>1. call[c].sid \in Sids
      BY <1>6, CallShape DEF LogoutExec, TypeOK
    <2> QED
      BY <1>5, <1>6, <2>1 DEF LogoutExec
  <1>7. ASSUME NEW v \in Users, DeleteUserSessions(v)
        PROVE  Covered(s)'
    <2>1. s \notin zset[v]
      BY <1>7 DEF DeleteUserSessions
    <2>2. /\ clock' = clock /\ score' = score
          /\ zset' = [zset EXCEPT ![v] = {}] /\ idxExp' = [idxExp EXCEPT ![v] = 0]
      BY <1>7 DEF DeleteUserSessions
    <2>3. CASE v = u
      <3>1. s \notin zset'[u] /\ s \notin zset[u]
        BY <1>3, <2>1, <2>2, <2>3 DEF TypeOK
      <3> QED
        BY <1>1, <1>2, <2>2, <3>1 DEF Covered, NearlyExpired
    <2>4. CASE v # u
      <3>1. zset'[u] = zset[u] /\ idxExp'[u] = idxExp[u]
        BY <1>3, <2>2, <2>4 DEF TypeOK
      <3> QED
        BY <1>4, <2>2, <3>1
    <2> QED
      BY <2>3, <2>4
  <1>8. ~RedisEmptied
    BY DEF RedisEmptied
  <1>9. CASE Tick
    <2>1. clock' = clock + 1 /\ score' = score
      BY <1>9 DEF Tick
    <2>2. /\ zset'[u] = IF idxExp[u] < clock + 1 THEN {} ELSE zset[u]
          /\ idxExp'[u] = IF idxExp[u] < clock + 1 THEN 0 ELSE idxExp[u]
      BY <1>3, <1>9 DEF Tick
    <2>3. CASE s \in zset[u] /\ idxExp[u] < clock + 1
      <3>1. session[s].exp - clock' < Second - 1
        BY <1>1, <1>3, <2>1, <2>3 DEF Covered
      <3> QED
        BY <1>1, <1>2, <2>1, <2>2, <2>3, <3>1 DEF Covered, NearlyExpired
    <2>4. CASE s \in zset[u] /\ ~(idxExp[u] < clock + 1)
      BY <1>1, <1>2, <2>1, <2>2, <2>4 DEF Covered
    <2>5. CASE s \notin zset[u]
      <3>1. NearlyExpired(s) /\ s \notin zset'[u]
        BY <1>1, <2>2, <2>5 DEF Covered
      <3>2. NearlyExpired(s)'
        BY <1>2, <1>3, <2>1, <3>1 DEF NearlyExpired
      <3> QED
        BY <1>1, <1>2, <2>1, <3>1, <3>2 DEF Covered
    <2> QED
      BY <2>3, <2>4, <2>5
  <1>10. CASE UNCHANGED <<clock, zset, score, idxExp>>
    BY <1>4, <1>10
  <1> QED
    BY <1>5, <1>6, <1>7, <1>8, <1>9, <1>10
       DEF Next, vars, keys, CreateStart, RotateLookup, RotateLoad, RotateExec, RotateRefused,
           Delete, LogoutLookup, OnlineRange, OnlineExists, CallFails

\* Every step keeps the invariant.
LEMMA RevocableNext == RevocableInv /\ [Next]_vars => RevocableInv'
  <1> SUFFICES ASSUME RevocableInv, [Next]_vars PROVE RevocableInv'
    OBVIOUS
  <1>0. PairInv /\ PairInv' /\ TypeOK /\ TypeOK'
    BY PairNext DEF RevocableInv, PairInv
  <1>1. ReadingRecent'
    <2> SUFFICES ASSUME NEW c \in Calls, call'[c].op = "create"
                 PROVE  LET k == call'[c]
                        IN  /\ k.start <= clock' /\ clock' <= k.start + MaxDelay
                            /\ k.start - Skew <= k.now /\ k.now <= k.start + Skew
      BY DEF ReadingRecent
    <2>1. MaxDelay \in Nat /\ Skew \in Nat /\ clock \in Nat
      BY <1>0, TimeAssumption DEF TypeOK
    <2>2. CASE call'[c] = call[c]
      <3>1. call[c].op = "create" /\ call[c].start \in Nat
        BY <1>0, <2>2, CallShape DEF TypeOK
      <3>2. clock' = clock \/ Tick
        BY DEF Next, vars, CreateStart, CreateExec, RotateLookup, RotateLoad, RotateExec,
               RotateRefused, Delete, LogoutLookup, LogoutExec, DeleteUserSessions,
               OnlineRange, OnlineExists, CallFails, RedisEmptied
      <3>3. clock' = clock \/ (clock' = clock + 1 /\ clock < call[c].start + MaxDelay)
        BY <3>1, <3>2 DEF Tick
      <3> QED
        BY <2>1, <2>2, <3>1, <3>3 DEF RevocableInv, ReadingRecent
    <2>3. CASE clock' = clock /\ call'[c].start = clock /\ call'[c].now \in AppNow
      BY <2>1, <2>3 DEF AppNow
    <2> QED
      BY <1>0, <2>2, <2>3, ReadingStep
  <1>2. ASSUME NEW s \in Sids, session'[s] # NoKey
        PROVE  Covered(s)'
    <2>1. CASE \E c \in Calls, x \in Sids, t \in Tokens : CreateExec(c, x, t)
      BY <1>0, <1>2, <2>1, CreateCovers
    <2>2. CASE ~\E c \in Calls, x \in Sids, t \in Tokens : CreateExec(c, x, t)
      <3>1. Live(s)
        BY <1>0, <1>2, <2>2, LiveOrigin DEF Live
      <3> QED
        BY <1>0, <1>2, <2>2, <3>1, SurvivorCovered
    <2> QED
      BY <2>1, <2>2
  <1>3. ScoreBehind' /\ IndexOutlives' /\ RevocableUntilNearlyExpired'
    BY <1>2 DEF ScoreBehind, IndexOutlives, RevocableUntilNearlyExpired, Covered, Live
  <1> QED
    BY <1>0, <1>1, <1>3 DEF RevocableInv

\* A session is out of reach of a kick only for the last moments of its life,
\* for all lifetimes, delays and clock differences.
THEOREM Revocable == Spec => []RevocableUntilNearlyExpired
  <1>1. Init => RevocableInv
    BY PairInit DEF Init, RevocableInv, ReadingRecent, ScoreBehind, IndexOutlives,
                    RevocableUntilNearlyExpired, Live, Idle
  <1>2. RevocableInv => RevocableUntilNearlyExpired
    BY DEF RevocableInv
  <1> QED
    BY <1>1, <1>2, RevocableNext, PTL DEF Spec
-----------------------------------------------------------------------------
(***************************************************************************)
(* The store implements SessionSpec.  The moment at which an operation     *)
(* takes effect is its MULTI block or script.                              *)
(***************************************************************************)
\* What the mapping makes of one session.
LEMMA AbsOf ==
    ASSUME NEW s \in Sids
    PROVE  /\ AbsState[s] = IF s \notin opened THEN "new"
                            ELSE IF session[s] = NoKey THEN "ended"
                            ELSE IF s \in zset[session[s].user] THEN "live" ELSE "fading"
           /\ AbsOwner[s] = IF session[s] # NoKey THEN session[s].user ELSE NoKey
           /\ AbsPair[s] = IF session[s] # NoKey THEN session[s].digest ELSE NoKey
           /\ AbsState'[s] = IF s \notin opened' THEN "new"
                             ELSE IF session'[s] = NoKey THEN "ended"
                             ELSE IF s \in zset'[session'[s].user] THEN "live" ELSE "fading"
           /\ AbsOwner'[s] = IF session'[s] # NoKey THEN session'[s].user ELSE NoKey
           /\ AbsPair'[s] = IF session'[s] # NoKey THEN session'[s].digest ELSE NoKey
  BY DEF AbsState, AbsOwner, AbsPair, Live

\* A session works in the abstract store as long as its record is there.
LEMMA AbsWorking ==
    ASSUME OwnInv, NEW s \in Sids
    PROVE  /\ Abstract!Working(s) <=> session[s] # NoKey
           /\ session[s] # NoKey => s \in opened
  <1>1. session[s] # NoKey => s \in opened
    BY DEF OwnInv, PairInv, DrawnOnce, Live
  <1> QED
    BY <1>1, AbsOf DEF Abstract!Working

\* A step that leaves every session's record as it is or removes it, adds nothing
\* to a set and gives out nothing: the sessions of E end, those of F start to
\* fade.
LEMMA AbsChange ==
    ASSUME OwnInv, NEW E, NEW F,
           \A s \in Sids : session'[s] = IF s \in E THEN NoKey ELSE session[s],
           \A s \in E : s \in Sids /\ session[s] # NoKey,
           \A s \in Sids : session[s] # NoKey /\ s \notin E =>
              (s \in zset'[session[s].user] <=> s \in zset[session[s].user] /\ s \notin F),
           \A s \in F : s \in Sids /\ session[s] # NoKey,
           UNCHANGED drawn
    PROVE  Abstract!Change(E, F)
  <1>1. opened' = opened /\ minted' = minted
    BY DEF drawn
  <1>2. ASSUME NEW s \in Sids
        PROVE  /\ AbsState'[s] = IF s \in E THEN "ended" ELSE IF s \in F THEN "fading" ELSE AbsState[s]
               /\ AbsOwner'[s] = IF s \in E THEN NoKey ELSE AbsOwner[s]
               /\ AbsPair'[s] = IF s \in E THEN NoKey ELSE AbsPair[s]
    <2>1. session[s] # NoKey => s \in opened
      BY AbsWorking
    <2>2. CASE s \in E
      BY <1>1, <2>1, <2>2, AbsOf
    <2>3. CASE s \notin E
      <3>1. session'[s] = session[s]
        BY <2>3
      <3> QED
        BY <1>1, <2>1, <2>3, <3>1, AbsOf
    <2> QED
      BY <2>2, <2>3
  <1>3. AbsState' = [s \in Sids |-> IF s \in E THEN "ended"
                                    ELSE IF s \in F THEN "fading" ELSE AbsState[s]]
    BY <1>2 DEF AbsState
  <1>4. AbsOwner' = [s \in Sids |-> IF s \in E THEN NoKey ELSE AbsOwner[s]]
    BY <1>2 DEF AbsOwner
  <1>5. AbsPair' = [s \in Sids |-> IF s \in E THEN NoKey ELSE AbsPair[s]]
    BY <1>2 DEF AbsPair
  <1> QED
    BY <1>1, <1>3, <1>4, <1>5 DEF Abstract!Change

\* Create's MULTI block is a login, by which the sessions that ZREMRANGEBYSCORE
\* drops start to fade.
LEMMA CreateImplements ==
    ASSUME OwnInv, NEW c \in Calls, NEW s \in Sids, NEW t \in Tokens, CreateExec(c, s, t)
    PROVE  Abstract!Next
  <1> DEFINE u == call[c].user
             kept == Unexpired(u, call[c].now)
             F == {x \in Sids : session[x] # NoKey /\ x \in zset[u] /\ x \notin kept}
             rec == [user |-> u, digest |-> t, jti |-> t, exp |-> clock + call[c].ttl]
  <1>0. TypeOK /\ TypeOK'
    BY TypeNext DEF OwnInv, PairInv, Next
  <1>1. u \in Users /\ call[c].ttl \in Nat
    BY <1>0, CallShape, TimeAssumption DEF CreateExec, TypeOK
  <1>2. /\ session' = [session EXCEPT ![s] = rec]
        /\ zset' = [zset EXCEPT ![u] = kept \cup {s}]
        /\ opened' = opened \cup {s} /\ minted' = minted \cup {t}
        /\ s \notin opened /\ t \notin minted
    BY DEF CreateExec
  <1>3. rec # NoKey
    <2>1. rec \in SessionRec
      BY <1>0, <1>1 DEF SessionRec, TypeOK
    <2> QED
      BY <2>1, KeyAssumption
  <1>4. session[s] = NoKey /\ session'[s] = rec /\ \A x \in Sids \ {s} : session'[x] = session[x]
    BY <1>0, <1>2, AbsWorking DEF TypeOK
  <1>5. \A x \in F : session[x].user = u /\ x \in opened /\ x # s
    BY <1>1, <1>2 DEF OwnInv, IndexOwn, Live
  <1>6. F \subseteq Abstract!LiveOf(u)
    BY <1>5, AbsOf DEF Abstract!LiveOf
  <1>7. ASSUME NEW x \in Sids
        PROVE  AbsState'[x] = IF x = s THEN "live" ELSE IF x \in F THEN "fading" ELSE AbsState[x]
    <2>1. CASE x = s
      <3>1. session'[x] # NoKey /\ x \in zset'[session'[x].user] /\ x \in opened'
        BY <1>0, <1>1, <1>2, <1>3, <1>4, <2>1 DEF TypeOK
      <3> QED
        BY <2>1, <3>1, AbsOf
    <2>2. CASE x # s
      <3>1. session'[x] = session[x] /\ (x \in opened' <=> x \in opened)
        BY <1>2, <1>4, <2>2
      <3>2. session[x] # NoKey =>
               (x \in zset'[session[x].user] <=> x \in zset[session[x].user] /\ x \notin F)
        <4> SUFFICES ASSUME session[x] # NoKey
                     PROVE  x \in zset'[session[x].user] <=>
                               x \in zset[session[x].user] /\ x \notin F
          OBVIOUS
        <4>1. session[x].user \in Users
          BY <1>0, LiveRecord DEF Live
        <4>2. CASE session[x].user = u
          BY <1>0, <1>1, <1>2, <2>2, <4>2 DEF TypeOK, Unexpired
        <4>3. CASE session[x].user # u
          BY <1>0, <1>2, <1>5, <4>1, <4>3 DEF TypeOK
        <4> QED
          BY <4>2, <4>3
      <3>3. x \in F => x \in opened /\ session[x] # NoKey
        BY <1>5
      <3> HIDE DEF F
      <3> QED
        BY <2>2, <3>1, <3>2, <3>3, AbsOf
    <2> QED
      BY <2>1, <2>2
  <1>8. AbsState' = [x \in Sids |-> IF x = s THEN "live"
                                    ELSE IF x \in F THEN "fading" ELSE AbsState[x]]
    BY <1>7 DEF AbsState
  <1>9. AbsOwner' = [AbsOwner EXCEPT ![s] = u]
    <2>1. \A x \in Sids : AbsOwner'[x] = IF x = s THEN u ELSE AbsOwner[x]
      BY <1>3, <1>4, AbsOf
    <2> QED
      BY <2>1 DEF AbsOwner
  <1>10. AbsPair' = [AbsPair EXCEPT ![s] = t]
    <2>1. \A x \in Sids : AbsPair'[x] = IF x = s THEN t ELSE AbsPair[x]
      BY <1>3, <1>4, AbsOf
    <2> QED
      BY <2>1 DEF AbsPair
  <1>11. AbsState[s] = "new"
    BY <1>2, AbsOf
  <1>12. Abstract!Open(s, u, t, F)
    BY <1>2, <1>6, <1>8, <1>9, <1>10, <1>11 DEF Abstract!Open
  <1> HIDE DEF F
  <1>13. F \in SUBSET Sids
    BY DEF F
  <1> QED
    BY <1>1, <1>12, <1>13 DEF Abstract!Next

\* A script of Rotate that finds its session is a refresh, by the current pair.
LEMMA RotateImplements ==
    ASSUME OwnInv, NEW c \in Calls, NEW t \in Tokens, RotateExec(c, t)
    PROVE  Abstract!Next
  <1> DEFINE s == call[c].sid
             old == call[c].digest
  <1>0. TypeOK
    BY DEF OwnInv, PairInv
  <1>1. s \in Sids /\ old \in Tokens
    BY <1>0, CallShape DEF RotateExec, TypeOK
  <1>2. /\ session' = [session EXCEPT ![s] = [@ EXCEPT !.digest = t, !.jti = t]]
        /\ zset' = zset /\ opened' = opened /\ minted' = minted \cup {t} /\ t \notin minted
        /\ Live(s) /\ session[s].digest = old
    BY DEF RotateExec, RotateApply, RotateMatches
  <1>3. /\ session'[s] # NoKey /\ session'[s].digest = t /\ session'[s].user = session[s].user
        /\ \A x \in Sids \ {s} : session'[x] = session[x]
    <2>1. session[s] \in SessionRec
      BY <1>0, <1>1, <1>2, LiveRecord
    <2>2. session'[s] = [session[s] EXCEPT !.digest = t, !.jti = t]
      BY <1>0, <1>1, <1>2 DEF TypeOK
    <2>3. session'[s] \in SessionRec /\ session'[s].digest = t
          /\ session'[s].user = session[s].user
      BY <2>1, <2>2 DEF SessionRec
    <2>4. \A x \in Sids \ {s} : session'[x] = session[x]
      BY <1>0, <1>1, <1>2 DEF TypeOK
    <2> QED
      BY <2>3, <2>4, KeyAssumption
  <1>4. ASSUME NEW x \in Sids
        PROVE  AbsState'[x] = AbsState[x] /\ AbsOwner'[x] = AbsOwner[x]
    <2>1. /\ session'[x] = NoKey <=> session[x] = NoKey
          /\ session[x] # NoKey => session'[x].user = session[x].user
      BY <1>2, <1>3 DEF Live
    <2> QED
      BY <1>2, <2>1, AbsOf
  <1>5. \A x \in Sids : AbsPair'[x] = IF x = s THEN t ELSE AbsPair[x]
    BY <1>3, AbsOf
  <1>6. AbsState' = AbsState /\ AbsOwner' = AbsOwner /\ AbsPair' = [AbsPair EXCEPT ![s] = t]
    BY <1>4, <1>5 DEF AbsState, AbsOwner, AbsPair
  <1>7. Abstract!Working(s) /\ AbsPair[s] = old
    BY <1>1, <1>2, AbsWorking, AbsOf DEF Live
  <1>8. Abstract!Rotate(s, old, t)
    BY <1>2, <1>6, <1>7 DEF Abstract!Rotate
  <1> QED
    BY <1>1, <1>8 DEF Abstract!Next

\* The delete script ends the session, or does nothing if it has ended already.
LEMMA DeleteImplements ==
    ASSUME OwnInv, NEW s \in Sids, DeleteScript(s), UNCHANGED drawn
    PROVE  Abstract!Next \/ UNCHANGED <<AbsState, AbsOwner, AbsPair, minted>>
  <1>0. TypeOK
    BY DEF OwnInv, PairInv
  <1>1. CASE Live(s)
    <2>1. /\ session' = [session EXCEPT ![s] = NoKey]
          /\ zset' = [zset EXCEPT ![session[s].user] = @ \ {s}]
          /\ session[s].user \in Users
      BY <1>0, <1>1, LiveRecord DEF DeleteScript
    <2>2. Abstract!Change({s}, {})
      <3>1. \A x \in Sids : session'[x] = IF x \in {s} THEN NoKey ELSE session[x]
        BY <1>0, <2>1 DEF TypeOK
      <3>2. ASSUME NEW x \in Sids, session[x] # NoKey, x \notin {s}
            PROVE  x \in zset'[session[x].user] <=> x \in zset[session[x].user] /\ x \notin {}
        <4>1. session[x].user \in Users
          BY <1>0, <3>2, LiveRecord DEF Live
        <4> QED
          BY <1>0, <2>1, <3>2, <4>1 DEF TypeOK
      <3> QED
        BY <1>1, <3>1, <3>2, AbsChange DEF Live
    <2>3. Abstract!End(s)
      BY <1>1, <2>2, AbsWorking DEF Abstract!End, Live
    <2> QED
      BY <2>3 DEF Abstract!Next
  <1>2. CASE ~Live(s)
    BY <1>2 DEF DeleteScript, keys, drawn, AbsState, AbsOwner, AbsPair, Live
  <1> QED
    BY <1>1, <1>2

\* DeleteUserSessions ends every session that its user's set holds.
LEMMA KickImplements ==
    ASSUME OwnInv, NEW u \in Users, DeleteUserSessions(u)
    PROVE  Abstract!Next
  <1> DEFINE gone == {s \in zset[u] : Live(s)}
  <1>0. TypeOK
    BY DEF OwnInv, PairInv
  <1>1. /\ session' = [s \in Sids |-> IF s \in gone THEN NoKey ELSE session[s]]
        /\ zset' = [zset EXCEPT ![u] = {}] /\ UNCHANGED drawn
    BY DEF DeleteUserSessions
  <1>2. gone = Abstract!LiveOf(u)
    <2>1. \A s \in gone : s \in Sids /\ s \in opened /\ session[s] # NoKey /\ session[s].user = u
      BY <1>0 DEF OwnInv, IndexOwn, TypeOK, Live
    <2>2. ASSUME NEW s \in Sids
          PROVE  s \in gone <=> AbsState[s] = "live" /\ AbsOwner[s] = u
      <3>1. CASE session[s] = NoKey
        BY <3>1, AbsOf DEF Live
      <3>2. CASE session[s] # NoKey
        <4>1. s \in opened
          BY <3>2, AbsWorking
        <4> QED
          BY <2>1, <3>2, <4>1, AbsOf DEF Live
      <3> QED
        BY <3>1, <3>2
    <2> QED
      BY <2>1, <2>2 DEF Abstract!LiveOf
  <1>3. Abstract!Change(gone, {})
    <2>1. \A s \in gone : s \in Sids /\ session[s] # NoKey
      BY <1>0 DEF TypeOK, Live
    <2>2. ASSUME NEW s \in Sids, session[s] # NoKey, s \notin gone
          PROVE  s \in zset'[session[s].user] <=> s \in zset[session[s].user] /\ s \notin {}
      <3>1. s \notin zset[u] /\ session[s].user \in Users
        BY <1>0, <2>2, LiveRecord DEF Live
      <3> QED
        BY <1>0, <1>1, <3>1 DEF TypeOK
    <2>3. \A s \in Sids : session'[s] = IF s \in gone THEN NoKey ELSE session[s]
      BY <1>1
    <2> HIDE DEF gone
    <2> QED
      BY <1>1, <2>1, <2>2, <2>3, AbsChange
  <1>4. Abstract!EndUser(u)
    BY <1>2, <1>3 DEF Abstract!EndUser
  <1> QED
    BY <1>4 DEF Abstract!Next

\* Time and the loss of data end some sessions and let some fade.
LEMMA ElapseImplements ==
    ASSUME OwnInv, RedisEmptied \/ Tick
    PROVE  Abstract!Next
  <1> DEFINE E == {s \in Sids : session[s] # NoKey /\ session'[s] = NoKey}
             F == {s \in Sids : /\ session[s] # NoKey /\ s \in zset[session[s].user]
                                /\ s \notin zset'[session[s].user]}
  <1>0. TypeOK
    BY DEF OwnInv, PairInv
  <1>1. \A s \in Sids : session'[s] = session[s] \/ session'[s] = NoKey
    BY DEF RedisEmptied, Tick, Kept
  <1>2. \A u \in Users : zset'[u] \subseteq zset[u]
    BY DEF RedisEmptied, Tick
  <1>3. UNCHANGED drawn
    BY DEF RedisEmptied, Tick
  <1>4. Abstract!Change(E, F)
    <2>1. \A s \in Sids : session'[s] = IF s \in E THEN NoKey ELSE session[s]
      BY <1>1
    <2>2. ASSUME NEW s \in Sids, session[s] # NoKey, s \notin E
          PROVE  s \in zset'[session[s].user] <=> s \in zset[session[s].user] /\ s \notin F
      <3>1. session[s].user \in Users
        BY <1>0, <2>2, LiveRecord DEF Live
      <3> QED
        BY <1>2, <2>2, <3>1
    <2>3. /\ \A s \in E : s \in Sids /\ session[s] # NoKey
          /\ \A s \in F : s \in Sids /\ session[s] # NoKey
      OBVIOUS
    <2> HIDE DEF E, F
    <2> QED
      BY <1>3, <2>1, <2>2, <2>3, AbsChange
  <1>5. \A s \in E : Abstract!Working(s)
    BY AbsWorking
  <1>6. \A s \in F : AbsState[s] = "live"
    BY AbsWorking, AbsOf
  <1>7. E \in SUBSET Sids /\ F \in SUBSET Sids
    OBVIOUS
  <1> HIDE DEF E, F
  <1>8. Abstract!Elapse(E, F)
    BY <1>4, <1>5, <1>6 DEF Abstract!Elapse
  <1> QED
    BY <1>7, <1>8 DEF Abstract!Next

\* Every step of the store is a step of SessionSpec or changes nothing there.
LEMMA StepImplements ==
    ASSUME OwnInv, [Next]_vars
    PROVE  Abstract!Next \/ UNCHANGED <<AbsState, AbsOwner, AbsPair, minted>>
  <1>1. ASSUME NEW c \in Calls, LogoutExec(c)
        PROVE  Abstract!Next \/ UNCHANGED <<AbsState, AbsOwner, AbsPair, minted>>
    <2>1. call[c].sid \in Sids
      BY <1>1, CallShape DEF LogoutExec, OwnInv, PairInv, TypeOK
    <2> QED
      BY <1>1, <2>1, DeleteImplements DEF LogoutExec
  <1>2. ASSUME NEW s \in Sids, Delete(s)
        PROVE  Abstract!Next \/ UNCHANGED <<AbsState, AbsOwner, AbsPair, minted>>
    BY <1>2, DeleteImplements DEF Delete
  <1>3. CASE UNCHANGED <<keys, drawn>>
    BY <1>3 DEF keys, drawn, AbsState, AbsOwner, AbsPair, Live
  <1> QED
    BY <1>1, <1>2, <1>3, CreateImplements, RotateImplements, KickImplements, ElapseImplements
       DEF Next, vars, CreateStart, RotateLookup, RotateLoad, RotateRefused, LogoutLookup,
           OnlineRange, OnlineExists, CallFails

\* Whatever round trips overlap, the store behaves as one in which a login, a
\* refresh, a logout and a kick each happen at one moment.  Accounts and Browser
\* use it as such.
THEOREM Implementation == Spec => ImplementsSessionSpec
  <1>1. Init => Abstract!Init
    BY DEF Init, Abstract!Init, AbsState, AbsOwner, AbsPair, Live
  <1>2. OwnInv /\ [Next]_vars => [Abstract!Next]_(Abstract!svars)
    BY StepImplements DEF Abstract!svars
  <1> QED
    BY <1>1, <1>2, OwnInit, OwnNext, PTL DEF Spec, ImplementsSessionSpec, Abstract!Spec
=============================================================================
