------------------------- MODULE SessionStoreProofs -------------------------
(***************************************************************************)
(* Proofs about SessionStore, for every set of users, sessions, token      *)
(* pairs and calls, every lifetime and every bound on delay and clock      *)
(* difference.                                                             *)
(***************************************************************************)
EXTENDS SessionStore, TLAPS

\* What a call that has read something holds.
LEMMA CallShape ==
    ASSUME NEW k \in CallRec
    PROVE  /\ k.op = "create" => /\ k.user \in Users /\ k.ttl \in TTLs
                                 /\ k.now \in Int /\ k.start \in Nat
           /\ k.op = "load" => k.digest \in Tokens /\ k.sid \in Sids
           /\ k.op = "cas" => /\ k.digest \in Tokens /\ k.sid \in Sids
                              /\ k.user \in Users /\ k.jti \in Tokens
           /\ k.op = "delete" => k.sid \in Sids
  BY DEF CallRec, Idle

\* EXPIRE keeps all of a lifetime but a fraction of a second.
LEMMA WholeSecondsBound ==
    ASSUME NEW ttl \in TTLs
    PROVE  /\ WholeSeconds(ttl) \in Nat
           /\ WholeSeconds(ttl) >= ttl - (Second - 1)
  <1>1. ttl \in Nat /\ Second \in Nat \ {0}
    BY TimeAssumption
  <1>2. ttl % Second \in 0..(Second - 1)
    BY <1>1
  <1> QED
    BY <1>1, <1>2 DEF WholeSeconds

-----------------------------------------------------------------------------
(***************************************************************************)
(* Type correctness.                                                       *)
(***************************************************************************)
\* The part of TypeOK that is about Redis.
KeyTypes ==
    /\ session \in [Sids -> SessionRec \cup {NoKey}]
    /\ refresh \in [Tokens -> RefreshRec \cup {NoKey}]
    /\ zset \in [Users -> SUBSET Sids]
    /\ score \in [Sids -> Int]
    /\ idxExp \in [Users -> Nat]

\* The record of a session that is there.
LEMMA LiveRecord ==
    ASSUME TypeOK, NEW s \in Sids, Live(s)
    PROVE  /\ session[s] \in SessionRec
           /\ session[s].user \in Users /\ session[s].digest \in Tokens
           /\ session[s].jti \in Tokens /\ session[s].exp \in Nat
  BY DEF TypeOK, Live, SessionRec

\* deleteSessionScript leaves well-shaped keys.
LEMMA DeleteScriptTypes ==
    ASSUME TypeOK, NEW s \in Sids, DeleteScript(s)
    PROVE  KeyTypes'
  <1>1. CASE Live(s)
    BY <1>1, LiveRecord DEF TypeOK, DeleteScript, KeyTypes
  <1>2. CASE ~Live(s)
    BY <1>2 DEF TypeOK, DeleteScript, KeyTypes, keys
  <1> QED
    BY <1>1, <1>2

\* An empty Redis is well shaped.
LEMMA TypeInit == Init => TypeOK
  BY TimeAssumption DEF Init, TypeOK, CallRec

\* Every step keeps the shapes.
LEMMA TypeNext == TypeOK /\ [Next]_vars => TypeOK'
  <1> SUFFICES ASSUME TypeOK, [Next]_vars PROVE TypeOK'
    OBVIOUS
  <1>0. Idle \in CallRec
    BY DEF CallRec
  <1>1. ASSUME NEW c \in Calls, NEW u \in Users, NEW ttl \in TTLs, CreateStart(c, u, ttl)
        PROVE  TypeOK'
    <2>1. PICK now \in AppNow :
             call' = [call EXCEPT ![c] = [op |-> "create", user |-> u, ttl |-> ttl,
                                          now |-> now, start |-> clock]]
      BY <1>1 DEF CreateStart
    <2>2. now \in Int
      BY <2>1, TimeAssumption DEF AppNow, TypeOK
    <2>3. call' \in [Calls -> CallRec]
      BY <2>1, <2>2 DEF TypeOK, CallRec
    <2> QED
      BY <1>1, <2>3 DEF CreateStart, keys, drawn, TypeOK
  <1>2. ASSUME NEW c \in Calls, NEW s \in Sids, NEW t \in Tokens, CreateExec(c, s, t)
        PROVE  TypeOK'
    <2>1. /\ call[c].user \in Users /\ call[c].ttl \in TTLs /\ call[c].ttl \in Nat
          /\ call[c].now \in Int
      BY <1>2, CallShape, TimeAssumption DEF CreateExec, TypeOK
    <2>2. [user |-> call[c].user, digest |-> t, jti |-> t, exp |-> clock + call[c].ttl] \in SessionRec
      BY <2>1 DEF TypeOK, SessionRec
    <2>3. [sid |-> s, exp |-> clock + call[c].ttl] \in RefreshRec
      BY <2>1 DEF TypeOK, RefreshRec
    <2>4. IndexExpiry(call[c].user, Unexpired(call[c].user, call[c].now), call[c].ttl) \in Nat
      BY <2>1, WholeSecondsBound DEF TypeOK, IndexExpiry, Later
    <2>5. Unexpired(call[c].user, call[c].now) \subseteq Sids
      BY <2>1 DEF TypeOK, Unexpired
    <2>6. session' \in [Sids -> SessionRec \cup {NoKey}]
      BY <1>2, <2>2 DEF CreateExec, TypeOK
    <2>7. refresh' \in [Tokens -> RefreshRec \cup {NoKey}]
      BY <1>2, <2>3 DEF CreateExec, TypeOK
    <2>8. zset' \in [Users -> SUBSET Sids] /\ score' \in [Sids -> Int] /\ idxExp' \in [Users -> Nat]
      BY <1>2, <2>1, <2>4, <2>5 DEF CreateExec, TypeOK
    <2> QED
      BY <1>0, <1>2, <2>6, <2>7, <2>8 DEF CreateExec, TypeOK
  <1>3. ASSUME NEW c \in Calls, NEW t \in Tokens, RotateLookup(c, t)
        PROVE  TypeOK'
    <2>1. [op |-> "load", digest |-> t, sid |-> refresh[t].sid] \in CallRec
      BY <1>3 DEF RotateLookup, TypeOK, CallRec, RefreshRec
    <2> QED
      BY <1>3, <2>1 DEF RotateLookup, keys, drawn, TypeOK
  <1>4. ASSUME NEW c \in Calls, RotateLoad(c)
        PROVE  TypeOK'
    <2>1. call[c].sid \in Sids /\ call[c].digest \in Tokens
      BY <1>4, CallShape DEF RotateLoad, TypeOK
    <2>2. Live(call[c].sid) =>
             [op |-> "cas", digest |-> call[c].digest, sid |-> call[c].sid,
              user |-> session[call[c].sid].user, jti |-> session[call[c].sid].jti] \in CallRec
      BY <2>1, LiveRecord DEF CallRec
    <2>3. call' \in [Calls -> CallRec]
      BY <1>0, <1>4, <2>2 DEF RotateLoad, TypeOK
    <2> QED
      BY <1>4, <2>3 DEF RotateLoad, keys, drawn, TypeOK
  <1>5. ASSUME NEW c \in Calls, NEW t \in Tokens, RotateExec(c, t)
        PROVE  TypeOK'
    <2>1. call[c].sid \in Sids /\ call[c].digest \in Tokens
      BY <1>5, CallShape DEF RotateExec, TypeOK
    <2>2. Live(call[c].sid)
      BY <1>5 DEF RotateExec, RotateMatches
    <2>3. session[call[c].sid] \in SessionRec
      BY <2>1, <2>2, LiveRecord
    <2>4. session' \in [Sids -> SessionRec \cup {NoKey}]
      BY <1>5, <2>1, <2>3 DEF RotateExec, RotateApply, TypeOK, SessionRec
    <2>5. refresh' \in [Tokens -> RefreshRec \cup {NoKey}]
      BY <1>5, <2>1, <2>3 DEF RotateExec, RotateApply, TypeOK, RefreshRec, SessionRec
    <2>6. call' \in [Calls -> CallRec]
      BY <1>0, <1>5 DEF RotateExec, TypeOK
    <2> QED
      BY <1>5, <2>1, <2>4, <2>5, <2>6 DEF RotateExec, RotateApply, TypeOK
  <1>6. ASSUME NEW c \in Calls, RotateRefused(c)
        PROVE  TypeOK'
    BY <1>0, <1>6 DEF RotateRefused, keys, drawn, TypeOK
  <1>7. ASSUME NEW s \in Sids, Delete(s)
        PROVE  TypeOK'
    <2>1. KeyTypes'
      BY <1>7, DeleteScriptTypes DEF Delete
    <2> QED
      BY <1>7, <2>1 DEF Delete, drawn, TypeOK, KeyTypes
  <1>8. ASSUME NEW c \in Calls, NEW t \in Tokens, LogoutLookup(c, t)
        PROVE  TypeOK'
    <2>1. [op |-> "delete", sid |-> refresh[t].sid] \in CallRec
      BY <1>8 DEF LogoutLookup, TypeOK, CallRec, RefreshRec
    <2> QED
      BY <1>8, <2>1 DEF LogoutLookup, keys, drawn, TypeOK
  <1>9. ASSUME NEW c \in Calls, LogoutExec(c)
        PROVE  TypeOK'
    <2>1. call[c].sid \in Sids
      BY <1>9, CallShape DEF LogoutExec, TypeOK
    <2>2. KeyTypes'
      BY <1>9, <2>1, DeleteScriptTypes DEF LogoutExec
    <2>3. call' \in [Calls -> CallRec]
      BY <1>0, <1>9 DEF LogoutExec, TypeOK
    <2> QED
      BY <1>9, <2>2, <2>3 DEF LogoutExec, drawn, TypeOK, KeyTypes
  <1>10. ASSUME NEW u \in Users, DeleteUserSessions(u)
         PROVE  TypeOK'
    BY <1>10 DEF DeleteUserSessions, drawn, TypeOK
  <1>11. ASSUME NEW c \in Calls, NEW u \in Users, OnlineRange(c, u)
         PROVE  TypeOK'
    <2>1. PICK now \in AppNow : \E m \in Candidates(u, now) :
             call' = [call EXCEPT ![c] = [op |-> "exists", user |-> u, sid |-> m,
                                          seen |-> LiveOf(u)]]
      BY <1>11 DEF OnlineRange
    <2>2. call' \in [Calls -> CallRec]
      BY <2>1 DEF TypeOK, CallRec, Candidates, LiveOf
    <2> QED
      BY <1>11, <2>2 DEF OnlineRange, keys, drawn, TypeOK
  <1>12. ASSUME NEW c \in Calls, OnlineExists(c)
         PROVE  TypeOK'
    BY <1>0, <1>12 DEF OnlineExists, keys, drawn, TypeOK
  <1>13. ASSUME NEW c \in Calls, CallFails(c)
         PROVE  TypeOK'
    BY <1>0, <1>13 DEF CallFails, keys, drawn, TypeOK
  <1>14. ASSUME RedisEmptied
         PROVE  TypeOK'
    BY <1>14 DEF RedisEmptied, drawn, TypeOK
  <1>15. ASSUME Tick
         PROVE  TypeOK'
    BY <1>15 DEF Tick, Kept, drawn, TypeOK
  <1>16. CASE UNCHANGED vars
    BY <1>16 DEF vars, keys, drawn, TypeOK
  <1> QED
    BY <1>1, <1>2, <1>3, <1>4, <1>5, <1>6, <1>7, <1>8, <1>9, <1>10, <1>11, <1>12, <1>13,
       <1>14, <1>15, <1>16 DEF Next

\* Keys, pending calls and histories keep their shape in every reachable state:
\* in particular no script leaves a partial record behind.
THEOREM TypeCorrect == Spec => []TypeOK
  BY TypeInit, TypeNext, PTL DEF Spec

-----------------------------------------------------------------------------
(***************************************************************************)
(* Token pairs.  RefreshSingleUse needs SupersededPairDead (an exchanged   *)
(* digest has no key any more), which needs RefreshIndexExact (no other    *)
(* session can still name it), which needs that pairs are drawn once.      *)
(***************************************************************************)
\* Sessions, refresh keys and rotations only name what has been drawn.
DrawnOnce ==
    /\ \A s \in Sids : Live(s) =>
          s \in opened /\ session[s].digest \in minted /\ session[s].jti = session[s].digest
    /\ \A t \in Tokens : refresh[t] # NoKey => t \in minted
    /\ \A p \in rotations : p[1] \in minted

\* The inductive invariant.
PairInv ==
    TypeOK /\ RefreshIndexExact /\ DrawnOnce /\ RefreshSingleUse /\ SupersededPairDead

\* A step that only removes keys, a session together with its refresh key.
Removal ==
    /\ \A s \in Sids : session[s] = NoKey => session'[s] = NoKey
    /\ \A t \in Tokens : refresh[t] = NoKey => refresh'[t] = NoKey
    /\ \A t \in Tokens : refresh[t] # NoKey =>
          \/ refresh'[t] = refresh[t] /\ session'[refresh[t].sid] = session[refresh[t].sid]
          \/ refresh'[t] = NoKey /\ session'[refresh[t].sid] = NoKey
    /\ UNCHANGED drawn

\* Removing whole sessions keeps the invariant: a logout, a kick, an expiry and
\* the loss of all data need no other argument.
LEMMA RemovalStep ==
    ASSUME PairInv, TypeOK', Removal
    PROVE  PairInv'
  <1> USE DEF PairInv
  <1>1. \A s \in Sids : Live(s) =>
           LET t == session[s].digest
           IN  /\ t \in Tokens /\ refresh[t] # NoKey /\ refresh[t].sid = s
               /\ \/ refresh'[t] = refresh[t] /\ session'[s] = session[s]
                  \/ refresh'[t] = NoKey /\ session'[s] = NoKey
    BY LiveRecord DEF RefreshIndexExact, Removal
  <1>2. \A s \in Sids : session'[s] # NoKey => Live(s) /\ session'[s] = session[s]
    BY <1>1 DEF Removal, Live
  <1>3. \A t \in Tokens : refresh'[t] # NoKey =>
           /\ refresh[t] # NoKey /\ refresh'[t] = refresh[t]
           /\ refresh[t].sid \in Sids /\ session'[refresh[t].sid] = session[refresh[t].sid]
    BY DEF Removal, TypeOK, RefreshRec
  <1>4. RefreshIndexExact'
    <2>1. ASSUME NEW t \in Tokens, refresh'[t] # NoKey
          PROVE  LET s == refresh'[t].sid
                 IN  /\ session'[s] # NoKey /\ session'[s].digest = t
                     /\ session'[s].exp = refresh'[t].exp
      BY <1>3, <2>1 DEF RefreshIndexExact, Live
    <2>2. ASSUME NEW s \in Sids, session'[s] # NoKey
          PROVE  LET t == session'[s].digest
                 IN  refresh'[t] # NoKey /\ refresh'[t].sid = s
      BY <1>1, <1>2, <2>2
    <2> QED
      BY <2>1, <2>2 DEF RefreshIndexExact, Live
  <1>5. DrawnOnce'
    BY <1>2, <1>3 DEF DrawnOnce, Live, Removal, drawn
  <1>6. SupersededPairDead'
    BY <1>2 DEF SupersededPairDead, Live, Removal, drawn, TypeOK
  <1> QED
    BY <1>4, <1>5, <1>6 DEF RefreshSingleUse, Removal, drawn

\* deleteSessionScript takes the refresh key with the session.
LEMMA DeleteScriptRemoves ==
    ASSUME PairInv, NEW s \in Sids, DeleteScript(s), UNCHANGED drawn
    PROVE  Removal
  <1> USE DEF PairInv
  <1>1. CASE Live(s)
    <2>1. /\ session[s].digest \in Tokens
          /\ refresh[session[s].digest] # NoKey /\ refresh[session[s].digest].sid = s
      BY <1>1, LiveRecord DEF RefreshIndexExact
    <2>2. /\ session' = [session EXCEPT ![s] = NoKey]
          /\ refresh' = [refresh EXCEPT ![session[s].digest] = NoKey]
      BY <1>1 DEF DeleteScript
    <2>3. \A t \in Tokens : refresh[t] # NoKey => refresh[t].sid \in Sids
      BY DEF TypeOK, RefreshRec
    <2>4. \A t \in Tokens : refresh[t] # NoKey /\ refresh[t].sid = s => t = session[s].digest
      BY DEF RefreshIndexExact
    <2> QED
      BY <2>1, <2>2, <2>3, <2>4 DEF Removal, TypeOK
  <1>2. CASE ~Live(s)
    BY <1>2 DEF DeleteScript, keys, Removal
  <1> QED
    BY <1>1, <1>2

\* The invariant holds of an empty Redis.
LEMMA PairInit == Init => PairInv
  BY TypeInit DEF Init, PairInv, RefreshIndexExact, DrawnOnce, RefreshSingleUse,
                  SupersededPairDead, Live

\* Every step keeps the invariant.
LEMMA PairNext == PairInv /\ [Next]_vars => PairInv'
  <1> SUFFICES ASSUME PairInv, [Next]_vars PROVE PairInv'
    OBVIOUS
  <1> TypeOK'
    BY TypeNext DEF PairInv
  <1>1. ASSUME NEW c \in Calls, NEW s \in Sids, NEW t \in Tokens, CreateExec(c, s, t)
        PROVE  PairInv'
    <2> DEFINE rec == [user |-> call[c].user, digest |-> t, jti |-> t, exp |-> clock + call[c].ttl]
               key == [sid |-> s, exp |-> clock + call[c].ttl]
    <2> USE DEF PairInv
    <2>1. /\ session' = [session EXCEPT ![s] = rec]
          /\ refresh' = [refresh EXCEPT ![t] = key]
          /\ s \notin opened /\ t \notin minted
          /\ opened' = opened \cup {s} /\ minted' = minted \cup {t} /\ rotations' = rotations
      BY <1>1 DEF CreateExec
    <2>2. session[s] = NoKey /\ refresh[t] = NoKey
      BY <2>1 DEF DrawnOnce, Live
    <2>3. rec \in SessionRec /\ key \in RefreshRec
      <3>1. call[c].user \in Users /\ call[c].ttl \in Nat
        BY <1>1, CallShape, TimeAssumption DEF CreateExec, TypeOK
      <3> QED
        BY <3>1 DEF TypeOK, SessionRec, RefreshRec
    <2>4. rec # NoKey /\ key # NoKey
      BY <2>3, KeyAssumption
    <2>5. \A x \in Sids : Live(x) => session[x].digest \in Tokens /\ session[x].digest # t
      BY <2>1, LiveRecord DEF DrawnOnce
    <2>6. \A x \in Tokens : refresh[x] # NoKey => refresh[x].sid \in Sids /\ refresh[x].sid # s
      BY <2>2 DEF RefreshIndexExact, Live, TypeOK, RefreshRec
    <2>7. RefreshIndexExact'
      BY <2>1, <2>2, <2>4, <2>5, <2>6 DEF RefreshIndexExact, Live, TypeOK
    <2>8. DrawnOnce'
      BY <2>1, <2>2, <2>4 DEF DrawnOnce, Live, TypeOK
    <2>9. SupersededPairDead'
      BY <2>1, <2>2, <2>4 DEF SupersededPairDead, DrawnOnce, Live, TypeOK
    <2> QED
      BY <2>1, <2>7, <2>8, <2>9 DEF RefreshSingleUse
  <1>2. ASSUME NEW c \in Calls, NEW t \in Tokens, RotateExec(c, t)
        PROVE  PairInv'
    <2> DEFINE k == call[c]
               key == [sid |-> k.sid, exp |-> session[k.sid].exp]
    <2> USE DEF PairInv
    <2>1. k.sid \in Sids /\ k.digest \in Tokens
      BY <1>2, CallShape DEF RotateExec, TypeOK
    <2>2. /\ session' = [session EXCEPT ![k.sid] = [@ EXCEPT !.digest = t, !.jti = t]]
          /\ refresh' = [refresh EXCEPT ![k.digest] = NoKey, ![t] = key]
          /\ t \notin minted
          /\ opened' = opened /\ minted' = minted \cup {t}
          /\ rotations' = rotations \cup {<<k.digest, t>>}
      BY <1>2 DEF RotateExec, RotateApply
    <2>3. /\ refresh[k.digest] # NoKey /\ refresh[k.digest].sid = k.sid
          /\ Live(k.sid) /\ session[k.sid].digest = k.digest
      BY <1>2 DEF RotateExec, RotateMatches
    <2>4. session[k.sid] \in SessionRec /\ key \in RefreshRec /\ key # NoKey
      BY <2>1, <2>3, LiveRecord, KeyAssumption DEF RefreshRec
    <2>5. /\ session'[k.sid].digest = t /\ session'[k.sid].jti = t
          /\ session'[k.sid].exp = session[k.sid].exp
          /\ session'[k.sid] # NoKey
          /\ \A x \in Sids : x # k.sid => session'[x] = session[x]
      <3>1. session'[k.sid] = [session[k.sid] EXCEPT !.digest = t, !.jti = t]
        BY <2>1, <2>2 DEF TypeOK
      <3>2. session'[k.sid] \in SessionRec
        BY <2>4, <3>1 DEF SessionRec
      <3>3. \A x \in Sids : x # k.sid => session'[x] = session[x]
        BY <2>2 DEF TypeOK
      <3>4. /\ session'[k.sid].digest = t /\ session'[k.sid].jti = t
            /\ session'[k.sid].exp = session[k.sid].exp
        BY <2>4, <3>1 DEF SessionRec
      <3> QED
        BY <3>2, <3>3, <3>4, KeyAssumption
    <2>6. k.digest \in minted /\ t # k.digest /\ refresh[t] = NoKey /\ k.sid \in opened
      BY <2>1, <2>2, <2>3 DEF DrawnOnce
    <2>7. /\ refresh'[k.digest] = NoKey /\ refresh'[t] = key
          /\ \A x \in Tokens : x # t /\ x # k.digest => refresh'[x] = refresh[x]
      BY <2>1, <2>2, <2>6 DEF TypeOK
    <2>8. \A x \in Sids : x # k.sid /\ Live(x) =>
             /\ session[x].digest \in Tokens
             /\ session[x].digest # t /\ session[x].digest # k.digest
      BY <2>2, <2>3, LiveRecord DEF DrawnOnce, RefreshIndexExact
    <2>9. \A x \in Tokens : refresh[x] # NoKey /\ x # k.digest =>
             refresh[x].sid \in Sids /\ refresh[x].sid # k.sid
      BY <2>3 DEF RefreshIndexExact, TypeOK, RefreshRec
    <2>10. RefreshIndexExact'
      BY <2>1, <2>4, <2>5, <2>6, <2>7, <2>8, <2>9 DEF RefreshIndexExact, Live
    <2>11. DrawnOnce'
      <3>1. \A p \in rotations' : p[1] \in minted'
        BY <2>2, <2>6 DEF DrawnOnce
      <3>2. \A x \in Tokens : refresh'[x] # NoKey => x \in minted'
        BY <2>2, <2>7 DEF DrawnOnce
      <3>3. \A x \in Sids : session'[x] # NoKey =>
               /\ x \in opened' /\ session'[x].digest \in minted'
               /\ session'[x].jti = session'[x].digest
        BY <2>2, <2>5, <2>6 DEF DrawnOnce, Live
      <3> QED
        BY <3>1, <3>2, <3>3 DEF DrawnOnce, Live
    <2>12. SupersededPairDead'
      <3> SUFFICES ASSUME NEW p \in rotations \cup {<<k.digest, t>>}
                   PROVE  /\ refresh'[p[1]] = NoKey
                          /\ \A x \in Sids : session'[x] # NoKey => session'[x].jti # p[1]
        BY <2>2 DEF SupersededPairDead, Live
      <3>1. CASE p \in rotations
        <4>1. p[1] \in minted /\ p[1] # t /\ p[1] \in Tokens /\ refresh[p[1]] = NoKey
          BY <2>2, <3>1 DEF DrawnOnce, SupersededPairDead, TypeOK
        <4> QED
          BY <2>3, <2>5, <2>7, <3>1, <4>1 DEF SupersededPairDead, Live
      <3>2. CASE p = <<k.digest, t>>
        BY <2>5, <2>6, <2>7, <2>8, <3>2 DEF DrawnOnce, Live
      <3> QED
        BY <3>1, <3>2
    <2>13. RefreshSingleUse'
      <3>1. \A p \in rotations : p[1] # k.digest
        BY <2>3 DEF SupersededPairDead
      <3> QED
        BY <2>2, <3>1 DEF RefreshSingleUse
    <2> QED
      BY <2>10, <2>11, <2>12, <2>13
  <1>3. ASSUME NEW s \in Sids, Delete(s)
        PROVE  PairInv'
    BY <1>3, DeleteScriptRemoves, RemovalStep DEF Delete
  <1>4. ASSUME NEW c \in Calls, LogoutExec(c)
        PROVE  PairInv'
    <2>1. call[c].sid \in Sids
      BY <1>4, CallShape DEF LogoutExec, TypeOK, PairInv
    <2> QED
      BY <1>4, <2>1, DeleteScriptRemoves, RemovalStep DEF LogoutExec
  <1>5. ASSUME NEW u \in Users, DeleteUserSessions(u)
        PROVE  PairInv'
    <2> DEFINE gone == {s \in zset[u] : Live(s)}
    <2> USE DEF PairInv
    <2>1. /\ session' = [s \in Sids |-> IF s \in gone THEN NoKey ELSE session[s]]
          /\ refresh' = [t \in Tokens |-> IF \E s \in gone : session[s].digest = t
                                          THEN NoKey ELSE refresh[t]]
          /\ UNCHANGED drawn
      BY <1>5 DEF DeleteUserSessions
    <2>2. \A t \in Tokens : refresh[t] # NoKey =>
             /\ refresh[t].sid \in Sids /\ Live(refresh[t].sid)
             /\ (\E s \in gone : session[s].digest = t) <=> refresh[t].sid \in gone
      BY DEF RefreshIndexExact, TypeOK, RefreshRec
    <2>3. Removal
      BY <2>1, <2>2 DEF Removal
    <2> QED
      BY <2>3, RemovalStep
  <1>6. ASSUME RedisEmptied
        PROVE  PairInv'
    <2>1. Removal
      BY <1>6 DEF RedisEmptied, Removal, PairInv, TypeOK, RefreshRec
    <2> QED
      BY <2>1, RemovalStep
  <1>7. ASSUME Tick
        PROVE  PairInv'
    <2>1. \A t \in Tokens : refresh[t] # NoKey =>
             /\ refresh[t].sid \in Sids /\ session[refresh[t].sid] # NoKey
             /\ session[refresh[t].sid].exp = refresh[t].exp
      BY DEF PairInv, RefreshIndexExact, Live, TypeOK, RefreshRec
    <2>2. Removal
      BY <1>7, <2>1 DEF Tick, Kept, Removal
    <2> QED
      BY <2>2, RemovalStep
  <1>8. CASE UNCHANGED <<keys, drawn>>
    BY <1>8 DEF keys, drawn, PairInv, RefreshIndexExact, DrawnOnce, RefreshSingleUse,
                SupersededPairDead, Live
  <1> QED
    BY <1>1, <1>2, <1>3, <1>4, <1>5, <1>6, <1>7, <1>8
       DEF Next, vars, CreateStart, RotateLookup, RotateLoad, RotateRefused, LogoutLookup,
           OnlineRange, OnlineExists, CallFails

\* The refresh index and the session records never disagree.
THEOREM IndexExact == Spec => []RefreshIndexExact
  BY PairInit, PairNext, PTL DEF Spec, PairInv

\* A refresh token is exchanged at most once, for any number of concurrent
\* requests and repeated scripts.
THEOREM SingleUse == Spec => []RefreshSingleUse
  BY PairInit, PairNext, PTL DEF Spec, PairInv

\* An exchanged pair is dead: neither its refresh digest nor its access jti is
\* accepted again.
THEOREM PairDead == Spec => []SupersededPairDead
  BY PairInit, PairNext, PTL DEF Spec, PairInv

-----------------------------------------------------------------------------
(***************************************************************************)
(* What a step does to one session.                                        *)
(***************************************************************************)
\* The session s does not come back, and keeps its user and its expiry time.
Steady(s) ==
    /\ s \in opened /\ session[s] = NoKey => session'[s] = NoKey
    /\ session[s] # NoKey /\ session'[s] # NoKey =>
          session'[s].exp = session[s].exp /\ session'[s].user = session[s].user

\* No step of the store revives, prolongs or hands over a session: Create writes
\* an id never used before, rotateSessionScript checks that the record is there.
LEMMA SteadyStep ==
    ASSUME PairInv, [Next]_vars, NEW s \in Sids
    PROVE  Steady(s)
  <1> USE DEF PairInv, Steady
  <1>1. ASSUME NEW c \in Calls, NEW x \in Sids, NEW t \in Tokens, CreateExec(c, x, t)
        PROVE  Steady(s)
    <2>1. x \notin opened /\ session[x] = NoKey
      BY <1>1 DEF CreateExec, DrawnOnce, Live
    <2>2. s # x => session'[s] = session[s]
      BY <1>1 DEF CreateExec, TypeOK
    <2> QED
      BY <2>1, <2>2
  <1>2. ASSUME NEW c \in Calls, NEW t \in Tokens, RotateExec(c, t)
        PROVE  Steady(s)
    <2>1. call[c].sid \in Sids /\ Live(call[c].sid)
      BY <1>2, CallShape DEF RotateExec, RotateMatches, TypeOK
    <2>2. session' = [session EXCEPT ![call[c].sid] = [@ EXCEPT !.digest = t, !.jti = t]]
      BY <1>2 DEF RotateExec, RotateApply
    <2>3. CASE s = call[c].sid
      <3>1. session[s] \in SessionRec /\ session'[s] = [session[s] EXCEPT !.digest = t, !.jti = t]
        BY <2>1, <2>2, <2>3, LiveRecord DEF TypeOK
      <3>2. session'[s].exp = session[s].exp /\ session'[s].user = session[s].user
        BY <3>1 DEF SessionRec
      <3> QED
        BY <2>1, <2>3, <3>2 DEF Live
    <2>4. CASE s # call[c].sid
      BY <2>2, <2>4 DEF TypeOK
    <2> QED
      BY <2>3, <2>4
  <1>3. ASSUME NEW x \in Sids, DeleteScript(x)
        PROVE  Steady(s)
    BY <1>3 DEF DeleteScript, keys, TypeOK
  <1>4. ASSUME NEW c \in Calls, LogoutExec(c)
        PROVE  Steady(s)
    <2>1. call[c].sid \in Sids
      BY <1>4, CallShape DEF LogoutExec, TypeOK
    <2> QED
      BY <1>3, <1>4, <2>1 DEF LogoutExec
  <1>5. ASSUME NEW u \in Users, DeleteUserSessions(u)
        PROVE  Steady(s)
    BY <1>5 DEF DeleteUserSessions
  <1>6. CASE RedisEmptied
    BY <1>6 DEF RedisEmptied
  <1>7. CASE Tick
    BY <1>7 DEF Tick, Kept
  <1>8. CASE UNCHANGED session
    BY <1>8
  <1> QED
    BY <1>1, <1>2, <1>3, <1>4, <1>5, <1>6, <1>7, <1>8
       DEF Next, vars, keys, CreateStart, RotateLookup, RotateLoad, RotateRefused, Delete,
           LogoutLookup, OnlineRange, OnlineExists, CallFails

\* A session that has ended stays ended, whatever a slower Rotate has read.
THEOREM EndIsFinal == Spec => NoResurrection
  <1>1. PairInv /\ [Next]_vars =>
           [\A s \in opened : session[s] = NoKey => session'[s] = NoKey]_vars
    BY SteadyStep DEF Steady, PairInv, TypeOK
  <1> QED
    BY PairInit, PairNext, <1>1, PTL DEF Spec, NoResurrection

\* Refreshing never prolongs a login and never changes whose it is.
THEOREM ExpiryFixed == Spec => AbsoluteExpiry
  <1>1. PairInv /\ [Next]_vars =>
           [\A s \in Sids : session[s] # NoKey /\ session'[s] # NoKey =>
              /\ session'[s].exp = session[s].exp
              /\ session'[s].user = session[s].user]_vars
    BY SteadyStep DEF Steady
  <1> QED
    BY PairInit, PairNext, <1>1, PTL DEF Spec, AbsoluteExpiry
=============================================================================
