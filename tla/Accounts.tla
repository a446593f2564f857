------------------------------ MODULE Accounts ------------------------------
(***************************************************************************)
(* The users table and the login sessions together: AuthService and        *)
(* UserService (internal/service), UserRepository (internal/data/user.go), *)
(* AuthMiddleware.Required and the bootstrap of app.New, run by several    *)
(* requests and server processes at once.                                  *)
(*                                                                         *)
(* A database statement is one step and so is a call of the session store, *)
(* which is used through its specification SessionSpec.  Between two steps *)
(* a request holds what it has read in req[r], and any other request may   *)
(* run.  A handler that changes a user first ends the user's sessions in   *)
(* Redis and then writes to PostgreSQL; no transaction covers the two.     *)
(***************************************************************************)
CONSTANTS
    Users,      \* user ids (uuid.NewString: never given out twice)
    Sids,       \* session ids
    Tokens,     \* token pairs
    None,       \* no row, no session, no user
    Emails,     \* normalised e-mail addresses
    AdminEmail, \* bootstrapAdminEmail
    Passwords,  \* password hashes
    Requests,   \* requests in progress, and booting server processes
    Handlers    \* the revoking handlers of UserService that are called

ASSUME AdminEmailAssumption == AdminEmail \in Emails

ASSUME HandlersAssumption == Handlers \subseteq {"Update", "SetActive", "Delete", "Kick"}

Roles == {"admin", "user"}

\* model.User.  The remark is handled exactly as the password hash is and is
\* left out, as are the two times.
Row == [email : Emails, pw : Passwords, role : Roles, active : BOOLEAN]

ASSUME NoneAssumption ==
    /\ None \notin Users
    /\ None \notin Row
    /\ None \notin [row : Row, raced : BOOLEAN]

VARIABLES
    row,        \* row[u]: the row of u in users, or None
    known,      \* ids that have been given to a row
    req,        \* req[r]: what request r has read and is about to do
    profile,    \* profile[s]: the row that the login of s read
    unrevoked,  \* users a boot has written but whose sessions it has not ended
    state, owner, pair, minted      \* the session store

store == <<state, owner, pair, minted>>
vars == <<row, known, req, profile, unrevoked, store>>

Sessions == INSTANCE SessionSpec

Working(s) == Sessions!Working(s)

Idle == [op |-> "idle"]

Request ==
    {Idle}
    \cup [op : {"login"}, user : Users, row : Row, raced : BOOLEAN]
    \cup [op : {"issue"}, sid : Sids, active : BOOLEAN]
    \cup [op : {"admin"}, by : Users]
    \cup [op : {"revoke", "write"}, handler : {"Update"}, by : Users, user : Users, arg : Row]
    \cup [op : {"revoke", "write"}, handler : {"SetActive"}, user : Users, arg : BOOLEAN]
    \cup [op : {"revoke", "write"}, handler : {"Delete", "Kick"}, user : Users]
    \cup [op : {"boot"}, user : Users \cup {None}]
    \cup [op : {"bootrevoke"}, user : Users]

\* The UNIQUE constraint of users.email, as a write of u meets it.
Taken(e, u) == \E v \in Users \ {u} : row[v] # None /\ row[v].email = e

\* INSERT of a new row: a random id, an e-mail that nobody has.
Insert(u, new) ==
    /\ u \notin known
    /\ row[u] = None
    /\ ~Taken(new.email, u)
    /\ row' = [row EXCEPT ![u] = new]
    /\ known' = known \cup {u}

\* Some request has ended the sessions of u and has yet to write its row.
Changing(u) == \E r \in Requests : req[r].op = "write" /\ req[r].user = u

\* Request r goes on as k; logins of u in progress now overlap its change.
Overtaking(r, k, u) ==
    [q \in Requests |->
        IF q = r THEN k
        ELSE IF req[q].op = "login" /\ req[q].user = u
             THEN [op |-> "login", user |-> u, row |-> req[q].row, raced |-> TRUE]
             ELSE req[q]]

\* The table as earlier server processes have left it; nobody is logged in.
Init ==
    /\ row \in [Users -> Row \cup {None}]
    /\ \A u, v \in Users :
          row[u] # None /\ row[v] # None /\ row[u].email = row[v].email => u = v
    /\ known = {u \in Users : row[u] # None}
    /\ req = [r \in Requests |-> Idle]
    /\ profile = [s \in Sids |-> None]
    /\ unrevoked = {}
    /\ Sessions!Init

-----------------------------------------------------------------------------
(***************************************************************************)
(* Login, Refresh, Logout.                                                 *)
(***************************************************************************)
\* Login with the e-mail and the password of an active user.
LoginFind(r, u) ==
    /\ req[r] = Idle
    /\ row[u] # None
    /\ row[u].active
    /\ req' = [req EXCEPT ![r] = [op |-> "login", user |-> u, row |-> row[u],
                                  raced |-> Changing(u)]]
    /\ UNCHANGED <<row, known, profile, unrevoked, store>>

\* sessions.Create; if its reply is lost the login fails but the session is
\* there.
LoginCreate(r, s, t) ==
    /\ req[r].op = "login"
    /\ Sessions!Open(s, req[r].user, t, {})
    /\ profile' = [profile EXCEPT ![s] = [row |-> req[r].row, raced |-> req[r].raced]]
    /\ \E k \in {Idle, [op |-> "issue", sid |-> s, active |-> TRUE]} :
          req' = [req EXCEPT ![r] = k]
    /\ UNCHANGED <<row, known, unrevoked>>

\* Rotate is one step of the store (SessionStore!ImplementsSessionSpec); the
\* record it returns is the profile of the login, not the row of today.
Refresh(r, s, t) ==
    /\ req[r] = Idle
    /\ Sessions!Rotate(s, pair[s], t)
    /\ \E k \in {Idle, [op |-> "issue", sid |-> s, active |-> profile[s].row.active]} :
          req' = [req EXCEPT ![r] = k]
    /\ UNCHANGED <<row, known, profile, unrevoked>>

\* tokens.Issue succeeds and the client gets the pair.
IssueToken(r) ==
    /\ req[r].op = "issue"
    /\ req[r].active
    /\ req' = [req EXCEPT ![r] = Idle]
    /\ UNCHANGED <<row, known, profile, unrevoked, store>>

\* What a step of the store leaves of the records.
KeepWorking == profile' = [s \in Sids |-> IF state'[s] \in {"live", "fading"}
                                          THEN profile[s] ELSE None]

\* It fails, or the session is refused: the session is deleted.
IssueFails(r) ==
    /\ req[r].op = "issue"
    /\ Sessions!End(req[r].sid)
    /\ KeepWorking
    /\ req' = [req EXCEPT ![r] = Idle]
    /\ UNCHANGED <<row, known, unrevoked>>

\* DeleteByRefreshDigest.  An expiry, or Redis losing the session, is the
\* same step.
Logout(s) ==
    /\ Sessions!End(s)
    /\ KeepWorking
    /\ UNCHANGED <<row, known, req, unrevoked>>

\* The session drops out of its user's set shortly before it expires.
SessionFades(s) ==
    /\ Sessions!Elapse({}, {s})
    /\ UNCHANGED <<row, known, req, profile, unrevoked>>

-----------------------------------------------------------------------------
(***************************************************************************)
(* UserService.  Required lets the request in by the session record alone; *)
(* the handler then reads the target's row, applies the command to its     *)
(* copy and refuses what an administrator may not do to himself.           *)
(***************************************************************************)
Required(r, s) ==
    /\ req[r] = Idle
    /\ Working(s)
    /\ profile[s].row.active
    /\ profile[s].row.role = "admin"
    /\ req' = [req EXCEPT ![r] = [op |-> "admin", by |-> owner[s]]]
    /\ UNCHANGED <<row, known, profile, unrevoked, store>>

\* UserService.Create and CreateUser; a taken e-mail is a conflict.
CreateUser(r, u, new) ==
    /\ req[r].op = "admin"
    /\ Insert(u, new)
    /\ req' = [req EXCEPT ![r] = Idle]
    /\ UNCHANGED <<profile, unrevoked, store>>

\* FindUserByID finds u for a handler.
Finds(handler, r, u) ==
    /\ handler \in Handlers
    /\ req[r].op = "admin"
    /\ row[u] # None
    /\ UNCHANGED <<row, known, profile, unrevoked, store>>

\* Mutant of UpdateFind: a role that the command does not change is blanked.
UpdateFindBlanksRole(r, u, e, p, role) ==
    /\ Finds("Update", r, u)
    /\ role # row[u].role => req[r].by # u
    /\ req' = [req EXCEPT ![r] = [op |-> "revoke", handler |-> "Update", by |-> @.by, user |-> u,
                 arg |-> [row[u] EXCEPT !.email = e, !.pw = p,
                                        !.role = IF @ = role THEN None ELSE role]]]

\* Mutant of UpdateFind: the sessions are ended only if the password changes.
UpdateFindForgetsSessions(r, u, e, p, role) ==
    /\ Finds("Update", r, u)
    /\ role # row[u].role => req[r].by # u
    /\ req' = [req EXCEPT ![r] = [op |-> IF p = row[u].pw THEN "write" ELSE "revoke",
                 handler |-> "Update", by |-> @.by, user |-> u,
                 arg |-> [row[u] EXCEPT !.email = e, !.pw = p, !.role = role]]]

\* The handler holds the row it has read with the fields that the command
\* names replaced; a field the command does not name keeps the value read.
UpdateFind(r, u, e, p, role) ==
    /\ Finds("Update", r, u)
    /\ role # row[u].role => req[r].by # u      \* rejectSelfTarget
    /\ req' = [req EXCEPT ![r] = [op |-> "revoke", handler |-> "Update", by |-> @.by, user |-> u,
                 arg |-> [row[u] EXCEPT !.email = e, !.pw = p, !.role = role]]]

\* Mutant of SetActiveFind: the sessions are left to expire.
SetActiveFindForgetsSessions(r, u, active) ==
    /\ Finds("SetActive", r, u)
    /\ req[r].by # u
    /\ req' = [req EXCEPT ![r] = [op |-> "write", handler |-> "SetActive", user |-> u,
                 arg |-> active]]

SetActiveFind(r, u, active) ==
    /\ Finds("SetActive", r, u)
    /\ req[r].by # u                            \* rejectSelfTarget
    /\ req' = [req EXCEPT ![r] = [op |-> "revoke", handler |-> "SetActive", user |-> u,
                 arg |-> active]]

\* Mutant of DeleteFind: the sessions are left to expire.
DeleteFindForgetsSessions(r, u) ==
    /\ Finds("Delete", r, u)
    /\ req[r].by # u
    /\ req' = [req EXCEPT ![r] = [op |-> "write", handler |-> "Delete", user |-> u]]

DeleteFind(r, u) ==
    /\ Finds("Delete", r, u)
    /\ req[r].by # u                            \* rejectSelfTarget
    /\ req' = [req EXCEPT ![r] = [op |-> "revoke", handler |-> "Delete", user |-> u]]

KickFind(r, u) ==
    /\ Finds("Kick", r, u)
    /\ req' = [req EXCEPT ![r] = [op |-> "revoke", handler |-> "Kick", user |-> u]]

\* DeleteUserSessions of the store, seen from here.
EndSessionsOf(u) ==
    /\ Sessions!EndUser(u)
    /\ KeepWorking
    /\ unrevoked' = unrevoked \ {u}

\* invalidateSessions.  Kick is done; the others go on to the database.
Invalidate(r) ==
    LET k == req[r]
    IN  /\ k.op = "revoke"
        /\ EndSessionsOf(k.user)
        /\ req' = IF k.handler = "Kick"
                  THEN [req EXCEPT ![r] = Idle]
                  ELSE Overtaking(r, [k EXCEPT !.op = "write"], k.user)
        /\ UNCHANGED <<row, known>>

\* A write of handler by request r; the row is None when somebody else has
\* deleted it since.
Writes(r, handler) ==
    /\ req[r].op = "write"
    /\ req[r].handler = handler
    /\ row[req[r].user] # None
    /\ req' = [req EXCEPT ![r] = Idle]
    /\ UNCHANGED <<known, profile, unrevoked, store>>

\* Mutant of UpdateUser: is_active is written with the other columns.
UpdateUserAllColumns(r) ==
    /\ Writes(r, "Update")
    /\ ~Taken(req[r].arg.email, req[r].user)
    /\ row' = [row EXCEPT ![req[r].user] = req[r].arg]

\* Mutant of UpdateUser: a Save, which inserts the row if it is not there.
UpdateUserSave(r) ==
    /\ req[r].op = "write"
    /\ req[r].handler = "Update"
    /\ ~Taken(req[r].arg.email, req[r].user)
    /\ row' = [row EXCEPT ![req[r].user] = req[r].arg]
    /\ req' = [req EXCEPT ![r] = Idle]
    /\ UNCHANGED <<known, profile, unrevoked, store>>

\* Every selected column is written from the row held; is_active is not one
\* of them.
UpdateUser(r) ==
    LET u == req[r].user
    IN  /\ Writes(r, "Update")
        /\ ~Taken(req[r].arg.email, u)
        /\ row' = [row EXCEPT ![u] = [req[r].arg EXCEPT !.active = row[u].active]]

DeleteUser(r) ==
    /\ Writes(r, "Delete")
    /\ row' = [row EXCEPT ![req[r].user] = None]

SetUserActive(r) ==
    /\ Writes(r, "SetActive")
    /\ row' = [row EXCEPT ![req[r].user].active = req[r].arg]

-----------------------------------------------------------------------------
(***************************************************************************)
(* app.New: EnsureBootstrapAdmin, then InvalidateUserSessions.  Here the   *)
(* database is written first.                                              *)
(***************************************************************************)
AdminRows == {u \in Users : row[u] # None /\ row[u].email = AdminEmail}

BootFind(r) ==
    /\ req[r] = Idle
    /\ \E u \in IF AdminRows = {} THEN {None} ELSE AdminRows :
          req' = [req EXCEPT ![r] = [op |-> "boot", user |-> u]]
    /\ UNCHANGED <<row, known, profile, unrevoked, store>>

BootCreate(r, u, p) ==
    /\ req[r].op = "boot"
    /\ req[r].user = None
    /\ Insert(u, [email |-> AdminEmail, pw |-> p, role |-> "admin", active |-> TRUE])
    /\ req' = [req EXCEPT ![r] = [op |-> "bootrevoke", user |-> u]]
    /\ UNCHANGED <<profile, unrevoked, store>>

\* UpdateSimple by id.  That it may have changed no row is not looked at.
BootReset(r, p) ==
    LET u == req[r].user
    IN  /\ req[r].op = "boot"
        /\ u # None
        /\ row' = IF row[u] = None THEN row
                  ELSE [row EXCEPT ![u].pw = p, ![u].role = "admin", ![u].active = TRUE]
        /\ req' = Overtaking(r, [op |-> "bootrevoke", user |-> u], u)
        /\ unrevoked' = unrevoked \cup {u}
        /\ UNCHANGED <<known, profile, store>>

BootRevoke(r) ==
    /\ req[r].op = "bootrevoke"
    /\ EndSessionsOf(req[r].user)
    /\ req' = [req EXCEPT ![r] = Idle]
    /\ UNCHANGED <<row, known>>

-----------------------------------------------------------------------------
\* A request may end after any step: a refusal (404, 409, 400), an error of
\* PostgreSQL or Redis, a panic at boot, a crash of the process.
RequestEnds(r) ==
    /\ req[r] # Idle
    /\ req' = [req EXCEPT ![r] = Idle]
    /\ UNCHANGED <<row, known, profile, unrevoked, store>>

Next ==
    \/ \E r \in Requests, u \in Users : LoginFind(r, u)
    \/ \E r \in Requests, s \in Sids, t \in Tokens : LoginCreate(r, s, t)
    \/ \E r \in Requests, s \in Sids, t \in Tokens : Refresh(r, s, t)
    \/ \E r \in Requests : IssueToken(r)
    \/ \E r \in Requests : IssueFails(r)
    \/ \E s \in Sids : Logout(s)
    \/ \E s \in Sids : SessionFades(s)
    \/ \E r \in Requests, s \in Sids : Required(r, s)
    \/ \E r \in Requests, u \in Users, new \in Row : CreateUser(r, u, new)
    \/ \E r \in Requests, u \in Users, e \in Emails, p \in Passwords, role \in Roles :
          UpdateFind(r, u, e, p, role)
    \/ \E r \in Requests, u \in Users : DeleteFind(r, u)
    \/ \E r \in Requests, u \in Users, active \in BOOLEAN : SetActiveFind(r, u, active)
    \/ \E r \in Requests, u \in Users : KickFind(r, u)
    \/ \E r \in Requests : Invalidate(r)
    \/ \E r \in Requests : UpdateUser(r)
    \/ \E r \in Requests : DeleteUser(r)
    \/ \E r \in Requests : SetUserActive(r)
    \/ \E r \in Requests : BootFind(r)
    \/ \E r \in Requests, u \in Users, p \in Passwords : BootCreate(r, u, p)
    \/ \E r \in Requests, p \in Passwords : BootReset(r, p)
    \/ \E r \in Requests : BootRevoke(r)
    \/ \E r \in Requests : RequestEnds(r)

Spec == Init /\ [][Next]_vars

-----------------------------------------------------------------------------
(***************************************************************************)
(* Properties.                                                             *)
(***************************************************************************)
\* Rows, requests and session records hold values of their shape.
TypeOK ==
    /\ row \in [Users -> Row \cup {None}]
    /\ known \in SUBSET Users
    /\ req \in [Requests -> Request]
    /\ profile \in [Sids -> [row : Row, raced : BOOLEAN] \cup {None}]
    /\ unrevoked \in SUBSET Users
    /\ state \in [Sids -> {"new", "live", "fading", "ended"}]
    /\ owner \in [Sids -> Users \cup {None}]
    /\ pair \in [Sids -> Tokens \cup {None}]
    /\ minted \in SUBSET Tokens

\* The session says of its user what the users table says.
Fresh(s) == row[owner[s]] = profile[s].row

\* A login outlives a change of the user's row (profile, role, password,
\* status, deletion) only if it overlapped the handler's two writes, or a boot
\* stopped between its own two: Update, Delete and SetActive revoke before
\* they write, app.New writes before it revokes.
StaleOnlyByRace ==
    \A s \in Sids :
        state[s] = "live" /\ ~profile[s].raced /\ owner[s] \notin unrevoked => Fresh(s)

\* A disabled account is enabled by SetActive or by the boot alone: an Update
\* that read the row before it was disabled does not enable it again.
DisabledStaysDisabled ==
    [][\A u \in Users :
          row[u] # None /\ row'[u] # None /\ ~row[u].active /\ row'[u].active =>
              \E r \in Requests :
                  /\ req[r] # Idle /\ req'[r] # req[r]
                  /\ \/ req[r].op = "write" /\ req[r].handler = "SetActive" /\ req[r].arg
                     \/ req[r].op = "boot"]_vars

\* A deleted user does not come back: an Update, a SetActive or a boot that
\* found the row before it was deleted does not write it again.
DeletedStaysDeleted ==
    [][\A u \in known : row[u] = None => row'[u] = None]_vars

-----------------------------------------------------------------------------
(***************************************************************************)
(* What the documentation says, and the code does not do.                  *)
(***************************************************************************)
\* README: once a user is disabled or deleted the old tokens fail at once;
\* interface document: "online" is then false.  Refuted: with every request
\* finished, the session of a login that overlapped the handler still works.
DisabledUserIsOffline ==
    (\A r \in Requests : req[r] = Idle) =>
        \A s \in Sids : state[s] = "live" => row[owner[s]] # None /\ row[owner[s]].active

\* Interface document, section 6: an administrator cannot change his own role.
\* Refuted: his Update of his own profile writes back the role it read, after
\* another administrator has changed it.
NoSelfRoleChange ==
    [][\A r \in Requests :
          UpdateUser(r) /\ req[r].by = req[r].user =>
              row'[req[r].user].role = row[req[r].user].role]_vars
=============================================================================
