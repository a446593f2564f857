# Verification of springhere-gin-server

TLA+ models of the authentication and user management of springhere-gin-server,
the TLC runs that check them on small instances and TLAPS proofs of what holds
for every instance. Paths below are relative to the repository.

## 1. The system

A Gin HTTP server keeps users in PostgreSQL and login sessions in Redis. Any
number of server processes share the two; every request is a goroutine. There
is no lock and no transaction that spans both stores: what keeps them
consistent is the order of the writes and three Lua scripts.

| component | state | operations | interacts with |
|---|---|---|---|
| session store (`internal/data/auth_session*.go`) | per session a record and a refresh key, per user a sorted set of sessions, all with expiry times | Create, Get, Rotate, Delete, DeleteByRefreshDigest, DeleteUserSessions, OnlineMap | Redis; called by the services, the middleware and the boot |
| authentication service (`internal/service/auth.go`) | none of its own | Captcha, Login, Refresh, Logout, Me, InvalidateUserSessions, UsersOnline | user repository, session store, captcha store |
| user service (`internal/service/user.go`) | none | List, Get, Create, Update, SetActive, Delete, Kick | repository; revokes through the authentication service |
| user repository (`internal/data/user.go`) | table `users` (unique e-mail) | reads, CreateUser, UpdateUser, SetUserActive, DeleteUser, EnsureBootstrapAdmin | PostgreSQL |
| captcha store (`internal/data/captcha.go`) | answers by id, counters by IP | Put, Consume, AllowIssue | Redis |
| browser and cookie (`Login`, `Refresh`, `Logout` of `internal/service/auth.go`; the front end is external) | one refresh cookie shared by the tabs | send a request, apply the answer's Set-Cookie | authentication service, over a network |
| middleware `Required` (`pkg/middleware/auth.go`) | none | admits a request by its access token and the session record alone | session store |
| bootstrap (`pkg/app/app.go`) | none | resets the administrator, then revokes his sessions | repository, session store |
| server life cycle (`cmd/server`, `pkg/app`, `pkg/component`, `internal/server.go`) | clients, listener, handlers of one process | open the clients, listen, wait for a signal, shut down, close the clients | every handler; the operating system's signals |
| configuration (`pkg/config`) | the settings of a process | defaults, file, environment, Validate | read once by `app.New` |
| HTTP chain (`pkg/middleware`, `internal/router`, `NewServer`) | one request: headers, status, log lines | five global middlewares, those of the route, the handler, the way out | wraps every handler |
| migrations, generated queries | | | see section 8 |

What is hard here, and what makes each part correct:

- **Session store.** Rotate and Logout read in one round trip and write in
  another; scripts are run again when a reply is lost; three kinds of key expire
  by two clocks in two units. Correct means: the refresh keys and the records
  are one relation, a refresh token works once, an exchanged pair is dead, an
  ended session stays ended, refreshing does not prolong a login, and a session
  can be revoked as long as it lives.
- **Users and sessions together.** A handler ends the user's sessions in Redis
  and then writes PostgreSQL; Login reads PostgreSQL and then writes Redis; a
  boot writes first and revokes second; each may stop anywhere. Correct means: a
  session never says of its user what the table no longer says, and a write
  based on an old read undoes neither a deletion nor a disabling.
- **Captcha.** A counter with a fixed window, one-time answers, keys under a
  shared prefix. Correct means: one answer per captcha, a bound on what an IP
  gets, and an IP that is let in again.
- **Browser.** A rotation takes effect in Redis before the browser has the new
  cookie; answers get lost or overtake each other, and tabs do not know of each
  other. Correct means: the browser always has the current token, is refused only
  when the session is over, and "logged out" is true.
- **Chain.** A refusal or a panic may come from any depth. Correct means: the
  answer still has the headers, the log its line, and nothing behind a guard has
  run.
- **Configuration.** Three sources are merged. Correct means: what is validated is
  what runs.
- **Life cycle.** Main, the listening goroutine, the handlers and signals
  interleave; Shutdown has a time limit and handlers have none. Correct means: a
  process that was asked to stop stops, and as long as nothing times out no
  handler loses its answer or its clients.

`PROJECT.json` lists every hazard at its line with the properties aimed at it.

## 2. Modules

| module | content |
|---|---|
| `SessionStore` | the store, key by key and round trip by round trip, and the refinement mapping to `SessionSpec` |
| `SessionSpec` | what the store promises: sessions open once, rotate, end once |
| `MCSessionStore` | TLC instance |
| `Accounts` | users table, services, `Required`, boot; uses the store as `SessionSpec` |
| `MCAccounts` | TLC instance |
| `Captcha`, `MCCaptcha` | captcha store and its callers |
| `Browser`, `MCBrowser` | cookie, requests and answers of one browser; uses the store as `SessionSpec` |
| `Chain` | one request through the Gin chain |
| `Config` | defaults, file, environment, Validate, as operators |
| `Lifecycle`, `MCLifecycle` | one process from main to its exit; uses `Config` |
| `SessionStoreProofs`, `SessionIndexProofs` | theorems about `SessionStore`: token pairs; the sorted sets and the refinement |
| `AccountsProofs`, `CaptchaProofs`, `BrowserProofs`, `ChainProofs`, `LifecycleProofs` | theorems about the module of that name |

Operators whose comment begins "Mutant of" are faulty variants of the operator
that follows. No specification uses them. `PROJECT.json` names for each property
the variant that breaks it.

### SessionStore

`session`, `refresh`, `zset`/`score`/`idxExp` are the keys
`auth:v2:session:*`, `auth:v2:refresh:*`, `auth:v2:user-sessions:*`. `clock` is
Redis's time, one tick a millisecond; expiry is part of `Tick`. `call[c]` is the
local state of a store call in progress. A MULTI block or a script is one step,
so an operation is as many actions as it has round trips:

| code | actions |
|---|---|
| `Create` | `CreateStart` (reads `time.Now()`), `CreateExec` (MULTI) |
| `Rotate` | `RotateLookup`, `RotateLoad`, `RotateExec` / `RotateRefused` |
| `Delete` | `Delete` |
| `DeleteByRefreshDigest` | `LogoutLookup`, `LogoutExec` |
| `DeleteUserSessions` | `DeleteUserSessions` |
| `OnlineMap` (for one user) | `OnlineRange`, `OnlineExists` |
| errors, retries | `CallFails`; `RotateExec` and `LogoutExec` may keep the call where it is, which is the client library running the script again. A MULTI block is not run again once it has been sent, so `CreateExec` is not repeated |
| Redis | `Tick`, `RedisEmptied` |

`opened`, `minted` and `rotations` are histories. A token pair (refresh digest
and access jti, drawn together) is one value `t`; the record still holds digest
and jti as two fields, since Rotate could replace one and not the other. A
rotation that is run again draws no new pair in the code; in the model the
second run finds its guard false unless the first had no effect.

### Accounts

`row` is the users table, `req[r]` the state of a request between two database
or Redis calls, `profile[s]` the snapshot in the session record together with a
history bit: `raced` says that the login overlapped a change of its user. The
remark is treated by the code exactly as the password hash is, and left out.

| code | actions |
|---|---|
| `Login` | `LoginFind` (SELECT, password and status check), `LoginCreate`, then `IssueToken` or `IssueFails` |
| `Refresh` | `Refresh` (the store's Rotate, one step by the refinement), then `IssueToken` or `IssueFails` |
| `Logout`, expiry | `Logout`, `SessionFades` |
| `Required(admin)` | `Required` |
| `Create` | `CreateUser` |
| `Update`, `SetActive`, `Delete`, `Kick` | `UpdateFind`, `SetActiveFind`, `DeleteFind`, `KickFind`; `Invalidate`; `UpdateUser`, `SetUserActive`, `DeleteUser` |
| `EnsureBootstrapAdmin`, `app.New` | `BootFind`, `BootCreate` / `BootReset`, `BootRevoke` |
| every error path, panic or crash | `RequestEnds` |

Requests and boots interleave freely: that is a rolling restart, or a second
instance started next to a running one.

### Captcha

`captcha` and `counter` are the two families of keys, with the life they have
left. `IssueCaptcha` is AllowIssue, `Put` or `CaptchaFails` the rest of the
handler, `Login` the consumption. A login may name an id or a string that would
complete the prefix to a counter's key; `IsCaptchaID` is the check that
separates them. `recent` is a history: `recent[ip][k]` counts the captchas
allowed in this tick and the k before it, so its last entry is the last minute.
A login that is malformed is refused before Consume and does not use up its
captcha. With captchas disabled in the configuration `consumeLoginCaptcha` lets
every login pass and `Login` here does not happen; `GET /captcha` does not look at
that setting and still issues, counts and stores.

### Browser

`jar` is the refresh cookie, `flight[b]` the request of tab b: sent with the cookie
of that moment, then perhaps at the point where the server deletes a session,
then an answer with or without Set-Cookie. A tab sends one request at a time,
as the interface document asks (line 163).

| code | actions |
|---|---|
| `Login` (after its checks) | `Login`: Create, then cookie, clean-up, or 503 with the session left behind |
| `Refresh` | `Refresh` (Rotate found the session: cookie, clean-up, 503, or the script run twice), `RefreshRefused` |
| `Logout` | `LogoutLookup` or `LogoutFindsNone`, `Delete`, `DeleteFails` |
| `_ = s.sessions.Delete(...)` in Login and Refresh | `Delete`, `DeleteFails` |
| 500 and 503 without effect, refused logins | `Unavailable` |
| browser and network | `Send`, `Arrive` (in any order), `Lost`, `CookieGone` |
| expiry, kick, change of the user | `EndedElsewhere` |

`home`, `crossed`, `loose` and `out` are histories. `loose` collects the sessions the
browser has had a reason to lose, by cause and not by effect: an answer with a new
token was lost; Redis carried out a call and reported an error; an answer to a
request that overlapped another tab's removed the cookie or replaced it by
another session's; a login replaced the cookie; the cookie was removed or its
MaxAge, cut to whole seconds, passed. The properties say that there is no other
cause. That a session stops being revocable shortly before it expires
(`SessionSpec`'s "fading") makes no difference to its browser and is left out.

### Chain

`chain` holds the handlers still to be called, `around` those that have code after
`Next` (AccessLogger, Recovery), `going` the direction. A request is a combination
of path, method, origin, body and what `Required` makes of its token; all of them
are initial states. `Answers` lists the statuses of each handler, or of a group of
routes (201 is `UserService.Create`'s); one that binds a body too large only as
read may also answer 413, or act on a JSON value that ends or is found malformed
before the limit. Any handler may panic, before or after writing. Gin's redirect of a trailing slash happens outside of the chain
(no request id, no log line, no CORS headers) and is exempt from two properties.

### Config and Lifecycle

A configuration is a function from setting names. `Unmarshal` lays the file over
`Defaults`, `Override` the environment over both, and `LoadConfig` panics unless
`Validate` accepts the result.

`pc` is where the main goroutine is, `listener` the goroutine that runs
`ListenAndServe`, `serverErr` and `signals` the two channels of `Run`, `req[r]`
an HTTP request. Each step of `app.New` (`LoadConfig`, `NewLogger`,
`OpenPostgres`, `NewRedis`, `Bootstrap`) succeeds or panics. `Run` is
`StartListening`, `Notify`, `SelectSignal` or `SelectServerErr`, then
`ShutdownDone` or `ShutdownTimesOut`; main's deferred cleanups are `CloseRedis`,
`CloseDatabase`, `SyncLogger`. `Signal` may come at any time: between `Notify` and
the return of `Run` it goes into the channel, otherwise it ends the process. A
request has a connection (`Accept`) before its handler starts (`Serve`); a connection
that Shutdown finds accepted and unread may still start its handler, and Shutdown
waits for it (`Busy`).

## 3. Runs

| run | bounds | states | result |
|---|---|---|---|
| `SessionStore` | 2 users, 2 sessions, 3 pairs, 2 calls, lifetimes 1 and 2, 3 ticks | 160 thousand | all hold, and `SessionSpec` is implemented |
| `SessionClocks` | 1 user, 2 sessions, lifetimes 1 and 7, second = 2 ticks, delay 1, clock difference 1, 8 ticks | 219 thousand | holds |
| `Accounts` | 2 users, 2 sessions, 2 pairs, 2 requests, all handlers, `MaxLoad` 3 | 1.25 million | all hold |
| `Captcha` | 2 captchas, 2 answers, 1 IP, 2 calls, limit 2, window 3, life 2 | 14 thousand | all hold |
| `Browser` | 1 user, 2 sessions, 4 pairs, 2 tabs | 78 thousand | all hold |
| `Chain` | every request | 34 thousand | all hold |
| `Lifecycle` | 3 requests, 30 files, 4 environments | 60 thousand | all hold |
| `OnlineMissed`, `KickMissed`, `StaleLogin`, `SelfRole`, `LogoutMissed` | | | violated, see section 4 |

Why these bounds: two concurrent calls on one token are enough for every race
of Rotate, Logout and Create with each other, since each has one read that can
be stale; three pairs allow a rotation of a rotation or a rotation beside a
second login; two sessions of one user are the least for which the sorted set
and OnlineMap matter. Lateness and clock difference need one call only, so
`SessionClocks` has one and spends its states on time: seven ticks of life are
more than the `MaxDelay + 2 * Skew = 3` that the property forgives, and the
property with one tick less is violated. In `Accounts` a race needs one request
that changes a user and one that logs in, changes or boots. Whether a
session outlives a change of its user needs two sessions, that of the user and
that of the administrator who changes him; with `SetActive`, `Delete` or `Update`
not revoking, the run fails. To keep it near a minute and a half, `LoadBound` explores
no further where more than three sessions and requests with something read are
under way at once (`MaxLoad`): two sessions with one handler, or one session with
a handler and a login, a boot or a second handler are all explored. Without the
bound the invariants were checked once (4.0 million states), and all four
properties are proved without any bound. In `Browser` every loss
needs at most two requests that overlap; two sessions are needed for a login
that replaces another, four pairs for a rotation of each. The files of
`Lifecycle` deviate from a good one in one setting each, so every conjunct of
`Validate` refuses one, and the environments repair, spoil or sharpen them.

Symmetry is used for all interchangeable values in all runs but `Captcha`,
`Chain` and `Lifecycle`. `Lifecycle.cfg` and `Chain.cfg` switch deadlock checking
off: the process exits, the request ends.

Fairness: `Captcha!Spec` has weak fairness of `Tick`, that is, time passes and
Redis expires keys. `Lifecycle!Spec` has weak fairness of `Stopping`: the Go
scheduler runs the main goroutine, and the timer of Shutdown's context fires. It
assumes nothing of the handlers, which may never return. No other liveness is
claimed: requests may fail at any point, and nothing in the code promises that
one succeeds.

## 4. Where the documents and the code disagree

- `StaleLogin`: a login that reads the row, is overtaken by SetActive, Update or
  Delete, and then creates its session leaves a working session with the old
  snapshot for the whole refresh lifetime (README line 5). `StaleOnlyByRace`
  shows that this overlap and an unfinished boot are the only ways.
- `KickMissed`: a session may leave the sorted set shortly before it expires and
  is then missed by a kick (interface document, line 583). `SessionClocks` bounds
  the time.
- `OnlineMissed`: OnlineMap looks at one session per user and can report offline
  a user who is not (comment, `auth_session.go` line 140).
- `SelfRole`: UpdateUser writes every selected column from an old read; an
  administrator's own profile update can restore his role (interface document,
  line 414).
- `LogoutMissed`: a logout that crosses a refresh of another tab presents a token
  that has just been exchanged. `DeleteByRefreshDigest` finds nothing, which is no
  error, the answer is "logged out", and the session goes on under the new token
  (interface document, lines 169 to 171 and 400). `LogoutFinal` shows that this,
  a rotation whose answer was lost and the other causes named above are the only
  ways.

Without a run, because a line or a behaviour already shown tells it:

- README line 209 counts a logout among the operations that end all tokens of the
  user; `Logout` deletes one session.
- README line 89 says that every start ensures the bootstrap account. `BootReset`
  in `Accounts` does not look at the number of rows its UPDATE changed: if another
  process deletes the account between the boot's SELECT and UPDATE, the boot
  reports an account that does not exist.
- Interface document, line 317, allows 20 captchas a minute. The counter's window
  starts with a first request, so two windows may lie in one minute;
  `AtMostTwiceTheLimit` is what holds.

## 5. Proofs

All theorems hold for arbitrary sets of users, sessions, pairs, calls, requests,
addresses and tabs and arbitrary lifetimes, limits, delays and bounds.
Assumptions, which TLC evaluates:

| assumption | module | why the code justifies it |
|---|---|---|
| `TimeAssumption` | `SessionStore` | what `config.Validate` and the units give: positive lifetimes, natural bounds |
| `KeyAssumption`, `NoneAssumption` | `SessionStore`, `Accounts`, `Browser` | the value that stands for "no key", "no row" or "no cookie" is not one |
| `LimitAssumption` | `Captcha` | `config.Validate`: limit and lifetime are positive; a minute is not empty |
| `NameAssumption` | `Captcha` | no IP reads as a UUID, so that `IsCaptchaID` can tell them apart |
| `AdminEmailAssumption`, `HandlersAssumption` | `Accounts` | the e-mail is one; the handlers are among the four that exist |

Every inductive invariant below was checked with TLC as an invariant of the
module's run before it was proved.

**SessionStoreProofs.** `SingleUse` is not inductive: it needs that the digest
about to be exchanged has not been exchanged before. That follows from
`SupersededPairDead` (an exchanged digest has no refresh key), which survives a
step because by `RefreshIndexExact` no other session names the digest, which in
turn needs `DrawnOnce` (whatever the keys name has been drawn, so that a new
value is new). `PairInv` is the conjunction with `TypeOK`. The four ways in which
sessions disappear (delete script, kick, expiry, loss of data) are instances of
`Removal`, treated once in `RemovalStep`. `EndIsFinal` and `ExpiryFixed` follow
from `PairInv` by one lemma on what a step does to one session (`SteadyStep`).

**SessionIndexProofs.** Three results about the sorted sets, all on top of
`PairInv`.

- `OnlineSound`. OnlineMap keeps a session id from its first round trip. It can be
  wrong only if that id comes to name another user's session. `OwnInv` excludes
  it: the ids in a set, and those an OnlineMap holds, were given out
  (`IndexOwn`, `LookupOwn`), and Create writes only ids that were not.
- `Revocable`. A session leaves its set by ZREMRANGEBYSCORE of a later Create or
  with the whole set. `RevocableInv` bounds both: a Create under way read a clock
  at most `MaxDelay` ago and `Skew` off (`ReadingRecent`), so a session's score is at
  most `MaxDelay + Skew` behind its expiry (`ScoreBehind`), and a second clock adds one
  more `Skew` when it is compared; the set's EXPIRE loses less than a second
  (`IndexOutlives`).
- `Implementation`. Under the mapping a session is live while its set has it and
  fading otherwise. Each operation takes effect in one step, its MULTI block or
  script; the lookups before it are stutters. Create is `Open` (with the sessions
  it drops from the set as `F`), RotateExec is `Rotate` when its guard holds, the
  delete script is `End`, DeleteUserSessions is `EndUser`, a tick or the loss of
  Redis's data is `Elapse`. `Elapse` lets any sessions end, those of a kicked user
  too, so the refinement by itself would allow a kick that ends only some of
  them: it bounds what the store may do, and that a kick ends every session in
  the user's set is the definition of `DeleteUserSessions` with `Revocable`, which
  says which sessions are in it. `Accounts` uses `EndUser` for a kick, which ends
  every live session. `PairInv` supplies that the presented digest is the
  session's and that new pairs are new; `OwnInv` that a user's set and his live
  sessions agree.

**AccountsProofs.** `RevocationSound` proves `StaleOnlyByRace`. The strengthening
`RevocationInv` adds that a login in progress which nothing has overlapped holds
the current row (`LoginCurrent`), and that between the two writes of a handler
every login in progress (`LoginsOvertaken`) and every live session
(`SessionsOvertaken`) of its user counts as overlapped; so the second write makes
no other session stale. `TypeCorrect` states, besides `TypeOK`, that a session the store
accepts has a record and an owner (`HasRecord`). `DeletionFinal` and `DisablingFinal` are action
properties of the type invariant and the six steps that write the table.

**CaptchaProofs.** `CaptchaOnce` needs `OnceInv`: what is stored was given out and has
not been tried. `IssueBound` needs an account of the fixed windows (`Accounted`): what
was allowed since the counter began is charged to it, and of what was allowed
before, in the last minute, there is at most one more limit, because an earlier
counter that allowed any of it had at most `Limit`. `CountingStep` shows that a
request, counted or not allowed, keeps the account, `AgeingStep` that a tick does.
That no login reaches a counter is part of the argument (`WindowNext`).

**BrowserProofs.** None of the three properties is inductive. `Inv` adds: cookies and
answers name pairs that were drawn, and a pair keeps its session (`MintInv`); two
requests under way are both crossed (`CrossInv`); a request that is not crossed
carries the cookie of the jar, or one that was removed since (`CarryInv`); a pair
on its way to the browser is the current one of its session and is nowhere else
(`FreshInv`); an answer is about the session of the request's cookie (`ReplyInv`);
an answer that removes the cookie is for a session that is over, was lost, or for
a crossed request (`ClearInv`). `HeldUnlessLoose` itself had to be strengthened: a
logout that is about to delete does not count as a hold (`FirmInv`), since its
deletion may fail and leave the session to nobody. The server's steps are two
lemmas, one for those that draw a pair (`IssueStep`) and one for those that do not
(`ReplyStep`). The step where everything comes together is `ArriveStep`.

**ChainProofs.** `Inv` says, for each handler that may be next, which headers are set
and what wraps the rest (`InInv`), that a panic is always inside of Recovery and
what has left the access log is in it (`WayOutInv`), and what an answer has at the
end (`EndInv`). `Called` shows that a handler runs only in its place, from the
order in `Use` and the routers.

**LifecycleProofs.** `OrderlyExit`, `ClientsLast` and `SignalGaps` follow from `LifeInv`, which
says where the main goroutine is when a client is closed: nothing listens while
`New` runs (`BootInv`), both clients are open while `Run` runs (`RunInv`), and once
`Run` has returned nil no handler runs and none can start (`StopInv`). `SoundConfig`
holds for arbitrary files and environments; its invariant `ConfigInv` says that
past `LoadConfig` the settings are those that `Validate` accepted after the
override, and that nothing listens before.

Only model-checked: `LimitedIsReleased` and `StopsWhenAsked`. They are liveness
properties, which need fairness and ENABLED, out of the reach of these provers.
Every other property of a passing run is stated by a theorem.

## 6. Assumptions about what is not in the repository

Redis runs scripts and MULTI blocks atomically and removes a key once its time
has passed; `EXPIRE` counts whole seconds, and the client library truncates a
duration to them and raises one below a second to a second; the client library
repeats a command whose reply it lost, but not a MULTI block it has sent.
PostgreSQL runs one statement atomically and enforces `UNIQUE (email)`. UUIDs and
random tokens never repeat. `http.Server.Shutdown` returns nil only when no
connection is busy and takes no request afterwards, as its documentation says; until
then a connection it accepted earlier may start its handler. A browser
sends the cookie it has when it sends the request and applies Set-Cookie when
the answer arrives. The deployment's Redis syncs its log once a second:
that a host crash undoes the last second is not modelled (only a Redis that comes
back empty is), and would break every promise of revocation for that second.

## 7. Plan

Done: 1. `SessionStore`, 2. `SessionSpec` and the refinement, 3. `Accounts` on top
of it, 4. `Captcha`, 5. `Lifecycle`, 6. `Browser` on top of `SessionSpec`,
7. `Chain`, 8. `Config` inside `Lifecycle`, 9. the proofs of section 5.

Open: Redis coming back with an older state: what `SupersededPairDead`, `NoResurrection`
and `StaleOnlyByRace` still promise, counted from the state it came back with.

## 8. Not modelled

- Cryptography and formats: JWT signing and parsing, bcrypt, JSON, YAML, the
  attributes of the cookie, images. The models use what they guarantee. That
  Parse checks `iat` without leeway, and so refuses for a moment a token issued
  by a server whose clock is ahead, is listed as a hazard only.
- List and Get: they read, filter and page, and change nothing. Their online flag
  is `OnlineMap`.
- The response envelope and the texts of answers and log lines.
- The migrate command: it parses a flag, prints, and calls golang-migrate once; its
  SQL is the initial state and the UNIQUE constraint of `Accounts`.
- Generated query code: the statements the repository runs are the actions of
  `Accounts`.
- A Redis that comes back with an older state: see section 6.
