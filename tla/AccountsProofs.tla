--------------------------- MODULE AccountsProofs ---------------------------
(***************************************************************************)
(* Proofs about Accounts, for every set of users, sessions and requests.   *)
(***************************************************************************)
EXTENDS Accounts, TLAPS

\* What a request that has read something holds.
LEMMA RequestShape ==
    ASSUME NEW k \in Request
    PROVE  /\ k.op = "login" => /\ k.user \in Users /\ k.row \in Row /\ k.raced \in BOOLEAN
                                /\ k = [op |-> "login", user |-> k.user, row |-> k.row,
                                        raced |-> k.raced]
           /\ k.op = "issue" => k.sid \in Sids
           /\ k.op = "admin" => k.by \in Users
           /\ k.op = "boot" => k.user \in Users \cup {None}
           /\ k.op = "bootrevoke" => k.user \in Users
           /\ k.op \in {"revoke", "write"} => /\ k.user \in Users
                                              /\ k.handler = "Update" => k.arg \in Row
                                              /\ k.handler = "SetActive" => k.arg \in BOOLEAN
           /\ k.op = "revoke" => [k EXCEPT !.op = "write"] \in Request
  <1>1. CASE k = Idle
    BY <1>1 DEF Idle
  <1>2. CASE k \in [op : {"login"}, user : Users, row : Row, raced : BOOLEAN]
    BY <1>2
  <1>3. CASE k \in [op : {"issue"}, sid : Sids, active : BOOLEAN]
    BY <1>3
  <1>4. CASE k \in [op : {"admin"}, by : Users]
    BY <1>4
  <1>5. CASE k \in [op : {"revoke", "write"}, handler : {"Update"}, by : Users, user : Users, arg : Row]
    BY <1>5 DEF Request
  <1>6. CASE k \in [op : {"revoke", "write"}, handler : {"SetActive"}, user : Users, arg : BOOLEAN]
    BY <1>6 DEF Request
  <1>7. CASE k \in [op : {"revoke", "write"}, handler : {"Delete", "Kick"}, user : Users]
    BY <1>7 DEF Request
  <1>8. CASE k \in [op : {"boot"}, user : Users \cup {None}]
    BY <1>8
  <1>9. CASE k \in [op : {"bootrevoke"}, user : Users]
    BY <1>9
  <1> QED
    BY <1>1, <1>2, <1>3, <1>4, <1>5, <1>6, <1>7, <1>8, <1>9 DEF Request

-----------------------------------------------------------------------------
(***************************************************************************)
(* Type correctness.  A working session has a record and an owner, which   *)
(* is what Required and Refresh rely on.                                   *)
(***************************************************************************)
HasRecord == \A s \in Sids : Working(s) => profile[s] # None /\ owner[s] # None

Shape == TypeOK /\ HasRecord

StoreShape ==
    /\ profile \in [Sids -> [row : Row, raced : BOOLEAN] \cup {None}]
    /\ state \in [Sids -> {"new", "live", "fading", "ended"}]
    /\ owner \in [Sids -> Users \cup {None}]
    /\ pair \in [Sids -> Tokens \cup {None}]
    /\ minted \in SUBSET Tokens
    /\ HasRecord

\* A step of the store that ends the sessions of E, and lets those of F fade.
LEMMA ChangeShape ==
    ASSUME TypeOK, HasRecord, NEW E \in SUBSET Sids, NEW F \in SUBSET Sids,
           \A s \in F : state[s] = "live",
           Sessions!Change(E, F), KeepWorking \/ (E = {} /\ profile' = profile)
    PROVE  StoreShape'
  BY DEF StoreShape, TypeOK, HasRecord, Working, Sessions!Working, Sessions!Change, KeepWorking

\* Marking the logins that a change overtakes leaves well-shaped requests.
LEMMA OvertakingShape ==
    ASSUME TypeOK, NEW r \in Requests, NEW k \in Request, NEW u \in Users
    PROVE  Overtaking(r, k, u) \in [Requests -> Request]
  <1> SUFFICES ASSUME NEW q \in Requests, req[q].op = "login"
               PROVE  [op |-> "login", user |-> u, row |-> req[q].row, raced |-> TRUE] \in Request
    BY DEF Overtaking, TypeOK
  <1> req[q].row \in Row
    BY RequestShape DEF TypeOK
  <1> QED
    BY DEF Request

\* The initial table, with nobody logged in, is well shaped.
LEMMA ShapeInit == Init => Shape
  BY DEF Init, Shape, TypeOK, HasRecord, Working, Sessions!Init, Sessions!Working, Idle, Request

\* Every step of a request, a boot or the store keeps the shapes.
LEMMA ShapeNext == Shape /\ [Next]_vars => Shape'
  <1> SUFFICES ASSUME Shape, [Next]_vars PROVE Shape'
    OBVIOUS
  <1> USE DEF Shape
  <1>1. ASSUME NEW r \in Requests, NEW u \in Users, LoginFind(r, u)
        PROVE  Shape'
    <2>1. [op |-> "login", user |-> u, row |-> row[u], raced |-> Changing(u)] \in Request
      BY <1>1 DEF LoginFind, TypeOK, Request, Changing
    <2> QED
      BY <1>1, <2>1 DEF LoginFind, TypeOK, HasRecord, Working, Sessions!Working, store
  <1>2. ASSUME NEW r \in Requests, NEW s \in Sids, NEW t \in Tokens, LoginCreate(r, s, t)
        PROVE  Shape'
    <2>1. req[r].user \in Users /\ req[r].row \in Row /\ req[r].raced \in BOOLEAN
      BY <1>2, RequestShape DEF LoginCreate, TypeOK
    <2>2. Idle \in Request /\ [op |-> "issue", sid |-> s, active |-> TRUE] \in Request
      BY DEF Request, Idle
    <2>3. req' \in [Requests -> Request]
      BY <1>2, <2>2 DEF LoginCreate, TypeOK
    <2>4. profile'[s] # None
      BY <1>2, <2>1, NoneAssumption DEF LoginCreate, TypeOK
    <2>5. /\ profile' \in [Sids -> [row : Row, raced : BOOLEAN] \cup {None}]
          /\ state' \in [Sids -> {"new", "live", "fading", "ended"}]
          /\ owner' \in [Sids -> Users \cup {None}]
          /\ pair' \in [Sids -> Tokens \cup {None}]
          /\ minted' \in SUBSET Tokens
      BY <1>2, <2>1 DEF LoginCreate, TypeOK, Sessions!Open
    <2>6. HasRecord'
      BY <1>2, <2>1, <2>4, NoneAssumption
         DEF LoginCreate, TypeOK, HasRecord, Working, Sessions!Working, Sessions!Open
    <2> QED
      BY <1>2, <2>3, <2>5, <2>6 DEF LoginCreate, TypeOK
  <1>3. ASSUME NEW r \in Requests, NEW s \in Sids, NEW t \in Tokens, Refresh(r, s, t)
        PROVE  Shape'
    <2>1. profile[s].row.active \in BOOLEAN
      BY <1>3 DEF Refresh, Sessions!Rotate, TypeOK, HasRecord, Working, Row
    <2>2. Idle \in Request
          /\ [op |-> "issue", sid |-> s, active |-> profile[s].row.active] \in Request
      BY <2>1 DEF Request, Idle
    <2>3. req' \in [Requests -> Request]
      BY <1>3, <2>2 DEF Refresh, TypeOK
    <2> QED
      BY <1>3, <2>3
         DEF Refresh, Sessions!Rotate, TypeOK, HasRecord, Working, Sessions!Working
  <1>4. ASSUME NEW r \in Requests, IssueToken(r)
        PROVE  Shape'
    BY <1>4 DEF IssueToken, TypeOK, HasRecord, Working, Sessions!Working, store, Request
  <1>5. ASSUME NEW r \in Requests, IssueFails(r)
        PROVE  Shape'
    <2>1. req[r].sid \in Sids
      BY <1>5, RequestShape DEF IssueFails, TypeOK
    <2>2. Sessions!Change({req[r].sid}, {}) /\ KeepWorking
      BY <1>5 DEF IssueFails, Sessions!End
    <2>3. req' \in [Requests -> Request]
      BY <1>5 DEF IssueFails, TypeOK, Request
    <2>4. StoreShape'
      BY <2>1, <2>2, ChangeShape
    <2> QED
      BY <1>5, <2>3, <2>4 DEF IssueFails, TypeOK, StoreShape
  <1>6. ASSUME NEW s \in Sids, Logout(s)
        PROVE  Shape'
    <2>1. Sessions!Change({s}, {}) /\ KeepWorking
      BY <1>6 DEF Logout, Sessions!End
    <2>2. StoreShape'
      BY <2>1, ChangeShape
    <2> QED
      BY <1>6, <2>2 DEF Logout, TypeOK, StoreShape
  <1>7. ASSUME NEW s \in Sids, SessionFades(s)
        PROVE  Shape'
    <2>1. Sessions!Change({}, {s}) /\ profile' = profile /\ state[s] = "live"
      BY <1>7 DEF SessionFades, Sessions!Elapse
    <2>2. StoreShape'
      BY <2>1, ChangeShape
    <2> QED
      BY <1>7, <2>2 DEF SessionFades, TypeOK, StoreShape
  <1>8. ASSUME NEW r \in Requests, NEW s \in Sids, Required(r, s)
        PROVE  Shape'
    <2>1. [op |-> "admin", by |-> owner[s]] \in Request
      BY <1>8 DEF Required, TypeOK, HasRecord, Request
    <2> QED
      BY <1>8, <2>1 DEF Required, TypeOK, HasRecord, Working, Sessions!Working, store
  <1>9. ASSUME NEW r \in Requests, NEW u \in Users, NEW new \in Row, CreateUser(r, u, new)
        PROVE  Shape'
    <2>1. req' \in [Requests -> Request]
      BY <1>9 DEF CreateUser, TypeOK, Request
    <2> QED
      BY <1>9, <2>1 DEF CreateUser, Insert, TypeOK, HasRecord, Working, Sessions!Working, store
  <1>10. ASSUME NEW r \in Requests, NEW u \in Users, NEW e \in Emails, NEW p \in Passwords,
                NEW role \in Roles, UpdateFind(r, u, e, p, role)
         PROVE  Shape'
    <2>1. [row[u] EXCEPT !.email = e, !.pw = p, !.role = role] \in Row
      BY <1>10 DEF UpdateFind, Finds, TypeOK, Row
    <2>2. req[r].by \in Users
      BY <1>10, RequestShape DEF UpdateFind, Finds, TypeOK
    <2>3. req' \in [Requests -> Request]
      BY <1>10, <2>1, <2>2 DEF UpdateFind, TypeOK, Request
    <2> QED
      BY <1>10, <2>3 DEF UpdateFind, Finds, TypeOK, HasRecord, Working, Sessions!Working, store
  <1>11. ASSUME NEW r \in Requests, NEW u \in Users, NEW active \in BOOLEAN,
                SetActiveFind(r, u, active)
         PROVE  Shape'
    <2>1. req' \in [Requests -> Request]
      BY <1>11 DEF SetActiveFind, TypeOK, Request
    <2> QED
      BY <1>11, <2>1
         DEF SetActiveFind, Finds, TypeOK, HasRecord, Working, Sessions!Working, store
  <1>12. ASSUME NEW r \in Requests, NEW u \in Users, DeleteFind(r, u)
         PROVE  Shape'
    <2>1. req' \in [Requests -> Request]
      BY <1>12 DEF DeleteFind, TypeOK, Request
    <2> QED
      BY <1>12, <2>1 DEF DeleteFind, Finds, TypeOK, HasRecord, Working, Sessions!Working, store
  <1>13. ASSUME NEW r \in Requests, NEW u \in Users, KickFind(r, u)
         PROVE  Shape'
    <2>1. req' \in [Requests -> Request]
      BY <1>13 DEF KickFind, TypeOK, Request
    <2> QED
      BY <1>13, <2>1 DEF KickFind, Finds, TypeOK, HasRecord, Working, Sessions!Working, store
  <1>14. ASSUME NEW r \in Requests, Invalidate(r)
         PROVE  Shape'
    <2>1. /\ req[r].user \in Users
          /\ [req[r] EXCEPT !.op = "write"] \in Request
      BY <1>14, RequestShape DEF Invalidate, TypeOK
    <2>2. req' \in [Requests -> Request]
      <3>1. Overtaking(r, [req[r] EXCEPT !.op = "write"], req[r].user) \in [Requests -> Request]
        BY <2>1, OvertakingShape
      <3>2. [req EXCEPT ![r] = Idle] \in [Requests -> Request]
        BY DEF TypeOK, Request
      <3> QED
        BY <1>14, <3>1, <3>2 DEF Invalidate
    <2>3. Sessions!Change(Sessions!LiveOf(req[r].user), {}) /\ KeepWorking
      BY <1>14 DEF Invalidate, EndSessionsOf, Sessions!EndUser
    <2>4. Sessions!LiveOf(req[r].user) \in SUBSET Sids
      BY DEF Sessions!LiveOf
    <2>5. StoreShape'
      BY <2>3, <2>4, ChangeShape
    <2> QED
      BY <1>14, <2>2, <2>5 DEF Invalidate, EndSessionsOf, TypeOK, StoreShape
  <1>15. ASSUME NEW r \in Requests, UpdateUser(r)
         PROVE  Shape'
    <2>1. req[r].user \in Users /\ req[r].arg \in Row
      BY <1>15, RequestShape DEF UpdateUser, Writes, TypeOK
    <2>2. [req[r].arg EXCEPT !.active = row[req[r].user].active] \in Row
      BY <1>15, <2>1 DEF UpdateUser, Writes, TypeOK, Row
    <2>3. req' \in [Requests -> Request]
      BY <1>15 DEF UpdateUser, Writes, TypeOK, Request
    <2> QED
      BY <1>15, <2>1, <2>2, <2>3
         DEF UpdateUser, Writes, TypeOK, HasRecord, Working, Sessions!Working, store
  <1>16. ASSUME NEW r \in Requests, DeleteUser(r)
         PROVE  Shape'
    <2>1. req[r].user \in Users
      BY <1>16, RequestShape DEF DeleteUser, Writes, TypeOK
    <2>2. req' \in [Requests -> Request]
      BY <1>16 DEF DeleteUser, Writes, TypeOK, Request
    <2> QED
      BY <1>16, <2>1, <2>2
         DEF DeleteUser, Writes, TypeOK, HasRecord, Working, Sessions!Working, store
  <1>17. ASSUME NEW r \in Requests, SetUserActive(r)
         PROVE  Shape'
    <2>1. req[r].user \in Users /\ req[r].arg \in BOOLEAN
      BY <1>17, RequestShape DEF SetUserActive, Writes, TypeOK
    <2>2. [row[req[r].user] EXCEPT !.active = req[r].arg] \in Row
      BY <1>17, <2>1 DEF SetUserActive, Writes, TypeOK, Row
    <2>3. req' \in [Requests -> Request]
      BY <1>17 DEF SetUserActive, Writes, TypeOK, Request
    <2> QED
      BY <1>17, <2>1, <2>2, <2>3
         DEF SetUserActive, Writes, TypeOK, HasRecord, Working, Sessions!Working, store
  <1>18. ASSUME NEW r \in Requests, BootFind(r)
         PROVE  Shape'
    <2>1. req' \in [Requests -> Request]
      BY <1>18 DEF BootFind, AdminRows, TypeOK, Request
    <2> QED
      BY <1>18, <2>1 DEF BootFind, TypeOK, HasRecord, Working, Sessions!Working, store
  <1>19. ASSUME NEW r \in Requests, NEW u \in Users, NEW p \in Passwords, BootCreate(r, u, p)
         PROVE  Shape'
    <2>1. req' \in [Requests -> Request]
      BY <1>19 DEF BootCreate, TypeOK, Request
    <2>2. row' \in [Users -> Row \cup {None}]
      BY <1>19, AdminEmailAssumption DEF BootCreate, Insert, TypeOK, Row, Roles
    <2> QED
      BY <1>19, <2>1, <2>2 DEF BootCreate, Insert, TypeOK, HasRecord, Working, Sessions!Working, store
  <1>20. ASSUME NEW r \in Requests, NEW p \in Passwords, BootReset(r, p)
         PROVE  Shape'
    <2>1. req[r].user \in Users
      BY <1>20, RequestShape DEF BootReset, TypeOK
    <2>2. [op |-> "bootrevoke", user |-> req[r].user] \in Request
      BY <2>1 DEF Request
    <2>3. req' \in [Requests -> Request]
      BY <1>20, <2>1, <2>2, OvertakingShape DEF BootReset
    <2>4. row' \in [Users -> Row \cup {None}]
      BY <1>20, <2>1 DEF BootReset, TypeOK, Row, Roles
    <2> QED
      BY <1>20, <2>1, <2>3, <2>4
         DEF BootReset, TypeOK, HasRecord, Working, Sessions!Working, store
  <1>21. ASSUME NEW r \in Requests, BootRevoke(r)
         PROVE  Shape'
    <2>1. Sessions!Change(Sessions!LiveOf(req[r].user), {}) /\ KeepWorking
      BY <1>21 DEF BootRevoke, EndSessionsOf, Sessions!EndUser
    <2>2. Sessions!LiveOf(req[r].user) \in SUBSET Sids
      BY DEF Sessions!LiveOf
    <2>3. req' \in [Requests -> Request]
      BY <1>21 DEF BootRevoke, TypeOK, Request
    <2>4. StoreShape'
      BY <2>1, <2>2, ChangeShape
    <2> QED
      BY <1>21, <2>3, <2>4 DEF BootRevoke, EndSessionsOf, TypeOK, StoreShape
  <1>22. ASSUME NEW r \in Requests, RequestEnds(r)
         PROVE  Shape'
    BY <1>22 DEF RequestEnds, TypeOK, HasRecord, Working, Sessions!Working, store, Request
  <1>23. CASE UNCHANGED vars
    BY <1>23 DEF vars, store, TypeOK, HasRecord, Working, Sessions!Working
  <1> QED
    BY <1>1, <1>2, <1>3, <1>4, <1>5, <1>6, <1>7, <1>8, <1>9, <1>10, <1>11, <1>12, <1>13, <1>14,
       <1>15, <1>16, <1>17, <1>18, <1>19, <1>20, <1>21, <1>22, <1>23 DEF Next

\* Every reachable state has the shape the model gives it: no handler, login or
\* boot stores a row, a session record or an intermediate result that is
\* malformed, and a session that Required or Rotate accepts has the record that
\* its login wrote, and an owner.
THEOREM TypeCorrect == Spec => [](TypeOK /\ HasRecord)
  BY ShapeInit, ShapeNext, PTL DEF Spec, Shape

-----------------------------------------------------------------------------
(***************************************************************************)
(* A stale session needs an overlap.  StaleOnlyByRace is not inductive:    *)
(* what a login in progress has read must be current as well, and between  *)
(* the two writes of a handler every login and every live session of its   *)
(* user must already count as overlapped.                                  *)
(***************************************************************************)
\* A login that no change has overlapped holds the user's row of today.
LoginCurrent ==
    \A r \in Requests : req[r].op = "login" /\ ~req[r].raced => row[req[r].user] = req[r].row

\* While q is between ending the sessions of a user and writing the row, every
\* login of that user in progress has been overlapped...
LoginsOvertaken ==
    \A q, r \in Requests :
        req[q].op = "write" /\ req[r].op = "login" /\ req[r].user = req[q].user => req[r].raced

\* ... and so have the sessions that logins have opened since.
SessionsOvertaken ==
    \A q \in Requests, s \in Sids :
        req[q].op = "write" /\ state[s] = "live" /\ owner[s] = req[q].user => profile[s].raced

RevocationInv ==
    Shape /\ LoginCurrent /\ LoginsOvertaken /\ SessionsOvertaken /\ StaleOnlyByRace

\* Nobody is logged in at first, so that no session is stale.
LEMMA RevocationInit == Init => RevocationInv
  <1> SUFFICES ASSUME Init PROVE RevocationInv
    OBVIOUS
  <1>1. Shape
    BY ShapeInit
  <1> QED
    BY <1>1 DEF RevocationInv, Init, Idle, Sessions!Init, LoginCurrent, LoginsOvertaken,
                SessionsOvertaken, StaleOnlyByRace

\* Sessions end or fade, rows are created, but no login starts, no handler
\* gets between its two writes and no row that exists is changed.
Quiet(R) ==
    /\ \A u \in Users : row[u] # None => row'[u] = row[u]
    /\ \A s \in Sids : state'[s] = "live" =>
          /\ state[s] = "live" /\ owner'[s] = owner[s] /\ profile'[s] = profile[s]
          /\ owner[s] \in unrevoked => owner[s] \in unrevoked'
    /\ \A r \in Requests : r \notin R => req'[r] = req[r]
    /\ \A r \in R : req'[r].op \notin {"login", "write"}

\* A step that neither writes the table nor opens a session keeps the invariant.
LEMMA QuietStep ==
    ASSUME RevocationInv, Shape', NEW R \in SUBSET Requests, Quiet(R)
    PROVE  RevocationInv'
  <1> USE DEF RevocationInv, Shape, TypeOK
  <1>1. LoginCurrent'
    <2> SUFFICES ASSUME NEW r \in Requests, req'[r].op = "login", ~req'[r].raced
                 PROVE  row'[req'[r].user] = req'[r].row
      BY DEF LoginCurrent
    <2>1. req'[r] = req[r]
      BY DEF Quiet
    <2>2. req[r].user \in Users /\ req[r].row \in Row
      BY <2>1, RequestShape
    <2>3. row[req[r].user] = req[r].row
      BY <2>1 DEF LoginCurrent
    <2> QED
      BY <2>1, <2>2, <2>3, NoneAssumption DEF Quiet
  <1>2. LoginsOvertaken'
    BY DEF LoginsOvertaken, Quiet
  <1>3. SessionsOvertaken'
    BY DEF SessionsOvertaken, Quiet
  <1>4. StaleOnlyByRace'
    <2> SUFFICES ASSUME NEW s \in Sids, state'[s] = "live", ~profile'[s].raced,
                        owner'[s] \notin unrevoked'
                 PROVE  row'[owner'[s]] = profile'[s].row
      BY DEF StaleOnlyByRace, Fresh
    <2>1. /\ state[s] = "live" /\ owner'[s] = owner[s] /\ profile'[s] = profile[s]
          /\ owner[s] \notin unrevoked
      BY DEF Quiet
    <2>2. profile[s] # None /\ owner[s] \in Users
      BY <2>1 DEF HasRecord, Working, Sessions!Working
    <2>3. row[owner[s]] = profile[s].row /\ profile[s].row \in Row
      BY <2>1, <2>2 DEF StaleOnlyByRace, Fresh
    <2> QED
      BY <2>1, <2>2, <2>3, NoneAssumption DEF Quiet
  <1> QED
    BY <1>1, <1>2, <1>3, <1>4

\* Request r ends the sessions of u.
LEMMA RevokeStep ==
    ASSUME RevocationInv, Shape', NEW r \in Requests, NEW u \in Users,
           EndSessionsOf(u), row' = row
    PROVE  /\ \A s \in Sids : state'[s] = "live" =>
                 /\ state[s] = "live" /\ owner'[s] = owner[s] /\ profile'[s] = profile[s]
                 /\ owner[s] # u
           /\ StaleOnlyByRace'
  <1> USE DEF RevocationInv, Shape, TypeOK
  <1>1. \A s \in Sids : state'[s] = "live" =>
            /\ state[s] = "live" /\ owner'[s] = owner[s] /\ profile'[s] = profile[s]
            /\ owner[s] # u
    BY DEF EndSessionsOf, Sessions!EndUser, Sessions!Change, Sessions!LiveOf, KeepWorking
  <1> QED
    BY <1>1 DEF StaleOnlyByRace, Fresh, EndSessionsOf

\* The row of u is written by a handler that has ended the sessions of u.
LEMMA WriteStep ==
    ASSUME RevocationInv, Shape', NEW r \in Requests, req[r].op = "write",
           \A v \in Users : v # req[r].user => row'[v] = row[v],
           req' = [req EXCEPT ![r] = Idle], UNCHANGED <<profile, unrevoked, store>>
    PROVE  RevocationInv'
  <1> USE DEF RevocationInv, Shape, TypeOK, store
  <1>1. req[r].user \in Users
    BY RequestShape
  <1>2. \A q \in Requests : q # r => req'[q] = req[q]
    OBVIOUS
  <1>3. req'[r].op = "idle"
    BY DEF Idle
  <1>4. LoginCurrent'
    <2> SUFFICES ASSUME NEW q \in Requests, req'[q].op = "login", ~req'[q].raced
                 PROVE  row'[req'[q].user] = req'[q].row
      BY DEF LoginCurrent
    <2>1. req'[q] = req[q]
      BY <1>2, <1>3
    <2>2. req[q].user \in Users /\ req[q].user # req[r].user
      BY <2>1, RequestShape DEF LoginsOvertaken
    <2> QED
      BY <2>1, <2>2 DEF LoginCurrent
  <1>5. LoginsOvertaken'
    BY <1>2, <1>3 DEF LoginsOvertaken
  <1>6. SessionsOvertaken'
    BY <1>2, <1>3 DEF SessionsOvertaken
  <1>7. StaleOnlyByRace'
    <2> SUFFICES ASSUME NEW s \in Sids, state[s] = "live", ~profile[s].raced,
                        owner[s] \notin unrevoked
                 PROVE  row'[owner[s]] = profile[s].row
      BY DEF StaleOnlyByRace, Fresh
    <2>1. owner[s] \in Users /\ owner[s] # req[r].user
      BY DEF SessionsOvertaken, HasRecord, Working, Sessions!Working
    <2> QED
      BY <2>1 DEF StaleOnlyByRace, Fresh
  <1> QED
    BY <1>4, <1>5, <1>6, <1>7

\* Every step of a request, a boot or the store keeps the invariant.
LEMMA RevocationNext == RevocationInv /\ [Next]_vars => RevocationInv'
  <1> SUFFICES ASSUME RevocationInv, [Next]_vars PROVE RevocationInv'
    OBVIOUS
  <1> Shape'
    BY ShapeNext DEF RevocationInv
  <1>1. ASSUME NEW r \in Requests, NEW u \in Users, LoginFind(r, u)
        PROVE  RevocationInv'
    <2> USE <1>1 DEF LoginFind, RevocationInv, Shape, TypeOK, store
    <2>1. /\ req'[r] = [op |-> "login", user |-> u, row |-> row[u], raced |-> Changing(u)]
          /\ \A q \in Requests : q # r => req'[q] = req[q]
      OBVIOUS
    <2>2. LoginCurrent'
      BY <2>1 DEF LoginCurrent
    <2>3. LoginsOvertaken'
      BY <2>1 DEF LoginsOvertaken, Changing
    <2>4. SessionsOvertaken' /\ StaleOnlyByRace'
      BY <2>1 DEF SessionsOvertaken, StaleOnlyByRace, Fresh
    <2> QED
      BY <2>2, <2>3, <2>4
  <1>2. ASSUME NEW r \in Requests, NEW s \in Sids, NEW t \in Tokens, LoginCreate(r, s, t)
        PROVE  RevocationInv'
    <2> USE <1>2 DEF LoginCreate, RevocationInv, Shape, TypeOK
    <2>1. /\ req'[r].op \notin {"login", "write"}
          /\ \A q \in Requests : q # r => req'[q] = req[q]
      BY DEF Idle
    <2>2. /\ owner'[s] = req[r].user
          /\ profile'[s] = [row |-> req[r].row, raced |-> req[r].raced]
          /\ \A x \in Sids : x # s =>
                state'[x] = state[x] /\ owner'[x] = owner[x] /\ profile'[x] = profile[x]
      BY DEF Sessions!Open
    <2>3. LoginCurrent' /\ LoginsOvertaken'
      BY <2>1 DEF LoginCurrent, LoginsOvertaken
    <2>4. SessionsOvertaken'
      BY <2>1, <2>2 DEF SessionsOvertaken, LoginsOvertaken
    <2>5. StaleOnlyByRace'
      BY <2>2 DEF StaleOnlyByRace, Fresh, LoginCurrent
    <2> QED
      BY <2>3, <2>4, <2>5
  <1>3. ASSUME NEW r \in Requests, NEW s \in Sids, NEW t \in Tokens, Refresh(r, s, t)
        PROVE  RevocationInv'
    <2>1. Quiet({r})
      BY <1>3 DEF Quiet, RevocationInv, Shape, TypeOK, store, Refresh, Sessions!Rotate, Idle
    <2> QED
      BY <2>1, QuietStep
  <1>4. ASSUME NEW r \in Requests, IssueToken(r)
        PROVE  RevocationInv'
    <2>1. Quiet({r})
      BY <1>4 DEF Quiet, RevocationInv, Shape, TypeOK, store, IssueToken, Idle
    <2> QED
      BY <2>1, QuietStep
  <1>5. ASSUME NEW r \in Requests, IssueFails(r)
        PROVE  RevocationInv'
    <2>1. Quiet({r})
      BY <1>5 DEF Quiet, RevocationInv, Shape, TypeOK, store, IssueFails, Idle, KeepWorking,
                           Sessions!End, Sessions!Change
    <2> QED
      BY <2>1, QuietStep
  <1>6. ASSUME NEW s \in Sids, Logout(s)
        PROVE  RevocationInv'
    <2>1. Quiet({})
      BY <1>6 DEF Quiet, RevocationInv, Shape, TypeOK, store, Logout, KeepWorking, Sessions!End, Sessions!Change
    <2> QED
      BY <2>1, QuietStep
  <1>7. ASSUME NEW s \in Sids, SessionFades(s)
        PROVE  RevocationInv'
    <2>1. Quiet({})
      BY <1>7 DEF Quiet, RevocationInv, Shape, TypeOK, store, SessionFades, Sessions!Elapse, Sessions!Change
    <2> QED
      BY <2>1, QuietStep
  <1>8. ASSUME NEW r \in Requests, NEW s \in Sids, Required(r, s)
        PROVE  RevocationInv'
    <2>1. Quiet({r})
      BY <1>8 DEF Quiet, RevocationInv, Shape, TypeOK, store, Required
    <2> QED
      BY <2>1, QuietStep
  <1>9. ASSUME NEW r \in Requests, NEW u \in Users, NEW new \in Row, CreateUser(r, u, new)
        PROVE  RevocationInv'
    <2>1. Quiet({r})
      BY <1>9 DEF Quiet, RevocationInv, Shape, TypeOK, store, CreateUser, Insert, Idle
    <2> QED
      BY <2>1, QuietStep
  <1>10. ASSUME NEW r \in Requests, NEW u \in Users, NEW e \in Emails, NEW p \in Passwords,
               NEW role \in Roles, UpdateFind(r, u, e, p, role)
        PROVE  RevocationInv'
    <2>1. Quiet({r})
      BY <1>10 DEF Quiet, RevocationInv, Shape, TypeOK, store, UpdateFind, Finds
    <2> QED
      BY <2>1, QuietStep
  <1>11. ASSUME NEW r \in Requests, NEW u \in Users, NEW active \in BOOLEAN,
               SetActiveFind(r, u, active)
        PROVE  RevocationInv'
    <2>1. Quiet({r})
      BY <1>11 DEF Quiet, RevocationInv, Shape, TypeOK, store, SetActiveFind, Finds
    <2> QED
      BY <2>1, QuietStep
  <1>12. ASSUME NEW r \in Requests, NEW u \in Users, DeleteFind(r, u)
        PROVE  RevocationInv'
    <2>1. Quiet({r})
      BY <1>12 DEF Quiet, RevocationInv, Shape, TypeOK, store, DeleteFind, Finds
    <2> QED
      BY <2>1, QuietStep
  <1>13. ASSUME NEW r \in Requests, NEW u \in Users, KickFind(r, u)
        PROVE  RevocationInv'
    <2>1. Quiet({r})
      BY <1>13 DEF Quiet, RevocationInv, Shape, TypeOK, store, KickFind, Finds
    <2> QED
      BY <2>1, QuietStep
  <1>14. ASSUME NEW r \in Requests, Invalidate(r)
         PROVE  RevocationInv'
    <2> USE DEF RevocationInv, Shape, TypeOK
    <2>1. req[r].user \in Users /\ row' = row /\ EndSessionsOf(req[r].user)
      BY <1>14, RequestShape DEF Invalidate
    <2>2. /\ \A s \in Sids : state'[s] = "live" =>
                /\ state[s] = "live" /\ owner'[s] = owner[s] /\ profile'[s] = profile[s]
                /\ owner[s] # req[r].user
          /\ StaleOnlyByRace'
      BY <2>1, RevokeStep
    <2>3. CASE req[r].handler = "Kick"
      <3>1. Quiet({r})
        BY <1>14, <2>1, <2>2, <2>3 DEF Quiet, Invalidate, EndSessionsOf, Idle
      <3> QED
        BY <3>1, QuietStep
    <2>4. CASE req[r].handler # "Kick"
      <3>1. req' = Overtaking(r, [req[r] EXCEPT !.op = "write"], req[r].user)
        BY <1>14, <2>4 DEF Invalidate
      <3>2. req'[r].op = "write" /\ req'[r].user = req[r].user
        <4>1. req'[r] = [req[r] EXCEPT !.op = "write"]
          BY <3>1 DEF Overtaking
        <4>2. req[r] \in Request /\ req[r].op = "revoke"
          BY <1>14 DEF Invalidate
        <4> QED
          BY <4>1, <4>2, RequestShape
      <3>3. \A q \in Requests \ {r} :
               IF req[q].op = "login" /\ req[q].user = req[r].user
               THEN req'[q].op = "login" /\ req'[q].raced
               ELSE req'[q] = req[q]
        BY <3>1 DEF Overtaking
      <3>4. LoginCurrent'
        BY <2>1, <3>2, <3>3 DEF LoginCurrent
      <3>5. LoginsOvertaken'
        BY <3>2, <3>3 DEF LoginsOvertaken
      <3>6. SessionsOvertaken'
        BY <2>2, <3>2, <3>3 DEF SessionsOvertaken
      <3> QED
        BY <2>2, <3>4, <3>5, <3>6
    <2> QED
      BY <2>3, <2>4
  <1>15. ASSUME NEW r \in Requests, UpdateUser(r)
         PROVE  RevocationInv'
    BY <1>15, WriteStep DEF UpdateUser, Writes, RevocationInv, Shape, TypeOK
  <1>16. ASSUME NEW r \in Requests, DeleteUser(r)
         PROVE  RevocationInv'
    BY <1>16, WriteStep DEF DeleteUser, Writes, RevocationInv, Shape, TypeOK
  <1>17. ASSUME NEW r \in Requests, SetUserActive(r)
         PROVE  RevocationInv'
    BY <1>17, WriteStep DEF SetUserActive, Writes, RevocationInv, Shape, TypeOK
  <1>18. ASSUME NEW r \in Requests, BootFind(r)
        PROVE  RevocationInv'
    <2>1. Quiet({r})
      BY <1>18 DEF Quiet, RevocationInv, Shape, TypeOK, store, BootFind
    <2> QED
      BY <2>1, QuietStep
  <1>19. ASSUME NEW r \in Requests, NEW u \in Users, NEW p \in Passwords, BootCreate(r, u, p)
        PROVE  RevocationInv'
    <2>1. Quiet({r})
      BY <1>19 DEF Quiet, RevocationInv, Shape, TypeOK, store, BootCreate, Insert
    <2> QED
      BY <2>1, QuietStep
  <1>20. ASSUME NEW r \in Requests, NEW p \in Passwords, BootReset(r, p)
         PROVE  RevocationInv'
    <2> USE DEF RevocationInv, Shape, TypeOK, store
    <2>1. /\ req[r].user \in Users
          /\ \A v \in Users : v # req[r].user => row'[v] = row[v]
      BY <1>20, RequestShape DEF BootReset
    <2>2. req' = Overtaking(r, [op |-> "bootrevoke", user |-> req[r].user], req[r].user)
      BY <1>20 DEF BootReset
    <2>3. /\ req'[r].op = "bootrevoke"
          /\ \A q \in Requests \ {r} :
               IF req[q].op = "login" /\ req[q].user = req[r].user
               THEN req'[q].op = "login" /\ req'[q].raced
               ELSE req'[q] = req[q]
      BY <2>2 DEF Overtaking
    <2>4. LoginCurrent'
      <3> SUFFICES ASSUME NEW q \in Requests, req'[q].op = "login", ~req'[q].raced
                   PROVE  row'[req'[q].user] = req'[q].row
        BY DEF LoginCurrent
      <3>1. req'[q] = req[q] /\ req[q].user # req[r].user
        BY <2>3
      <3>2. req[q].user \in Users
        BY <3>1, RequestShape
      <3> QED
        BY <2>1, <3>1, <3>2 DEF LoginCurrent
    <2>5. LoginsOvertaken'
      BY <2>3 DEF LoginsOvertaken
    <2>6. SessionsOvertaken'
      BY <1>20, <2>3 DEF SessionsOvertaken, BootReset
    <2>7. StaleOnlyByRace'
      <3> SUFFICES ASSUME NEW s \in Sids, state[s] = "live", ~profile[s].raced,
                          owner[s] \notin unrevoked \cup {req[r].user}
                   PROVE  row'[owner[s]] = profile[s].row
        BY <1>20 DEF StaleOnlyByRace, Fresh, BootReset
      <3>1. owner[s] \in Users
        BY DEF HasRecord, Working, Sessions!Working
      <3> QED
        BY <2>1, <3>1 DEF StaleOnlyByRace, Fresh
    <2> QED
      BY <2>4, <2>5, <2>6, <2>7
  <1>21. ASSUME NEW r \in Requests, BootRevoke(r)
         PROVE  RevocationInv'
    <2> USE DEF RevocationInv, Shape, TypeOK
    <2>1. req[r].user \in Users /\ row' = row /\ EndSessionsOf(req[r].user)
      BY <1>21, RequestShape DEF BootRevoke
    <2>2. \A s \in Sids : state'[s] = "live" =>
             /\ state[s] = "live" /\ owner'[s] = owner[s] /\ profile'[s] = profile[s]
             /\ owner[s] # req[r].user
      BY <2>1, RevokeStep
    <2>3. Quiet({r})
      BY <1>21, <2>1, <2>2 DEF Quiet, BootRevoke, EndSessionsOf, Idle
    <2> QED
      BY <2>3, QuietStep
  <1>22. ASSUME NEW r \in Requests, RequestEnds(r)
        PROVE  RevocationInv'
    <2>1. Quiet({r})
      BY <1>22 DEF Quiet, RevocationInv, Shape, TypeOK, store, RequestEnds, Idle
    <2> QED
      BY <2>1, QuietStep
  <1>23. CASE UNCHANGED vars
    <2>1. Quiet({})
      BY <1>23 DEF Quiet, vars, store
    <2> QED
      BY <2>1, QuietStep
  <1> QED
    BY <1>1, <1>2, <1>3, <1>4, <1>5, <1>6, <1>7, <1>8, <1>9, <1>10, <1>11, <1>12, <1>13, <1>14,
       <1>15, <1>16, <1>17, <1>18, <1>19, <1>20, <1>21, <1>22, <1>23 DEF Next

\* Whatever requests, crashes and boots interleave, and for any number of them,
\* a session that no handler and no boot overlapped agrees with the users table
\* until a handler ends it: the order "revoke, then write" of Update, Delete and
\* SetActive is sound except for logins in progress.
THEOREM RevocationSound == Spec => []StaleOnlyByRace
  BY RevocationInit, RevocationNext, PTL DEF Spec, RevocationInv

-----------------------------------------------------------------------------
(***************************************************************************)
(* What a late write may not do to a row.                                  *)
(***************************************************************************)
\* The steps that write the table.
LEMMA RowSteps ==
    ASSUME Next, row' # row
    PROVE  \/ \E u \in Users : \E new : Insert(u, new)
           \/ \E r \in Requests : UpdateUser(r) \/ DeleteUser(r) \/ SetUserActive(r)
           \/ \E r \in Requests, p \in Passwords : BootReset(r, p)
  BY DEF Next, LoginFind, LoginCreate, Refresh, IssueToken, IssueFails, Logout, SessionFades,
         Required, CreateUser, UpdateFind, SetActiveFind, DeleteFind, KickFind, Finds,
         Invalidate, BootFind, BootCreate, BootRevoke, RequestEnds

\* A row that is gone stays gone: of the requests that found it before it was
\* deleted, none writes it back.
THEOREM DeletionFinal == Spec => DeletedStaysDeleted
  <1>1. ASSUME Shape, [Next]_vars
        PROVE  [\A u \in known : row[u] = None => row'[u] = None]_vars
    <2> SUFFICES ASSUME NEW u \in known, row[u] = None, row' # row, Next
                 PROVE  row'[u] = None
      BY <1>1 DEF vars
    <2>1. ASSUME NEW v \in Users, NEW new, Insert(v, new)
          PROVE  row'[u] = None
      BY <1>1, <2>1 DEF Insert, Shape, TypeOK
    <2>2. ASSUME NEW r \in Requests, UpdateUser(r) \/ DeleteUser(r) \/ SetUserActive(r)
          PROVE  row'[u] = None
      BY <1>1, <2>2 DEF UpdateUser, DeleteUser, SetUserActive, Writes, Shape, TypeOK
    <2>3. ASSUME NEW r \in Requests, NEW p \in Passwords, BootReset(r, p)
          PROVE  row'[u] = None
      BY <1>1, <2>3 DEF BootReset, Shape, TypeOK
    <2> QED
      BY <2>1, <2>2, <2>3, RowSteps
  <1> QED
    BY <1>1, ShapeInit, ShapeNext, PTL DEF Spec, DeletedStaysDeleted

\* A disabled account stays disabled until SetActive or a boot enables it: the
\* Update that read it while it was active leaves is_active alone.
THEOREM DisablingFinal == Spec => DisabledStaysDisabled
  <1> DEFINE Enabled(u) == row[u] # None /\ row'[u] # None /\ ~row[u].active /\ row'[u].active
             By(r) == /\ req[r] # Idle /\ req'[r] # req[r]
                      /\ \/ req[r].op = "write" /\ req[r].handler = "SetActive" /\ req[r].arg
                         \/ req[r].op = "boot"
  <1>1. ASSUME Shape, [Next]_vars
        PROVE  [\A u \in Users : Enabled(u) => \E r \in Requests : By(r)]_vars
    <2> SUFFICES ASSUME NEW u \in Users, Enabled(u), Next
                 PROVE  \E r \in Requests : By(r)
      BY <1>1 DEF vars
    <2>0. row' # row
      OBVIOUS
    <2>1. ASSUME NEW v \in Users, NEW new, Insert(v, new)
          PROVE  FALSE
      BY <1>1, <2>1 DEF Insert, Shape, TypeOK
    <2>2. ASSUME NEW r \in Requests, UpdateUser(r)
          PROVE  FALSE
      <3>1. req[r].user \in Users /\ req[r].arg \in Row
        BY <1>1, <2>2, RequestShape DEF UpdateUser, Writes, Shape, TypeOK
      <3> QED
        BY <1>1, <2>2, <3>1 DEF UpdateUser, Shape, TypeOK, Row
    <2>3. ASSUME NEW r \in Requests, DeleteUser(r)
          PROVE  FALSE
      BY <1>1, <2>3 DEF DeleteUser, Shape, TypeOK
    <2>4. ASSUME NEW r \in Requests, SetUserActive(r)
          PROVE  By(r)
      <3>1. req[r].user \in Users /\ req[r].arg \in BOOLEAN
        BY <1>1, <2>4, RequestShape DEF SetUserActive, Writes, Shape, TypeOK
      <3>2. u = req[r].user /\ req[r].arg
        BY <1>1, <2>4, <3>1 DEF SetUserActive, Writes, Shape, TypeOK, Row
      <3>3. req'[r] = Idle
        BY <1>1, <2>4 DEF SetUserActive, Writes, Shape, TypeOK
      <3> QED
        BY <2>4, <3>2, <3>3 DEF SetUserActive, Writes, Idle
    <2>5. ASSUME NEW r \in Requests, NEW p \in Passwords, BootReset(r, p)
          PROVE  By(r)
      BY <1>1, <2>5 DEF BootReset, Overtaking, Idle
    <2> QED
      BY <2>0, <2>1, <2>2, <2>3, <2>4, <2>5, RowSteps
  <1> QED
    BY <1>1, ShapeInit, ShapeNext, PTL DEF Spec, DisabledStaysDisabled
=============================================================================
