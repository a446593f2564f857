------------------------------ MODULE Lifecycle ------------------------------
(***************************************************************************)
(* One server process from main to its exit: app.New (pkg/app/app.go) with *)
(* the clients of pkg/component, Server.Run (internal/server.go), the      *)
(* goroutine that listens, the handlers it starts, signals, and the        *)
(* cleanups that main defers.                                              *)
(***************************************************************************)
EXTENDS Config

CONSTANTS
    Requests,   \* HTTP requests that clients may send
    Files,      \* configuration files: functions from some of the settings
    Envs        \* environments: functions from the overridable settings

VARIABLES
    file, env,  \* what the process is started with
    cfg,        \* the configuration it runs with, or NoConfig
    pc,         \* where the main goroutine is
    clients,    \* the clients that are open
    listener,   \* the listening goroutine: "none" before it is started, then
                \* "starting", "open", "failed" (connections that are open stay
                \* so), "closing" or "closed"
    serverErr,  \* the channel: "empty", or what ListenAndServe returned
    signals,    \* the channel holds a signal
    result,     \* what Run returned: "none", "ok" or "failed"
    req,        \* req[r]: "new", "accepted" (on a connection, not yet read),
                \* "running", "done", "failed" or "cut"
    exit        \* how the process ended: "none", "ok", "panic" or "killed"

vars == <<file, env, cfg, pc, clients, listener, serverErr, signals, result, req, exit>>

Clients == {"postgres", "redis"}

NoConfig == << >>

Init ==
    /\ file \in Files
    /\ env \in Envs
    /\ cfg = NoConfig
    /\ pc = "config"
    /\ clients = {}
    /\ listener = "none"
    /\ serverErr = "empty"
    /\ signals = FALSE
    /\ result = "none"
    /\ req = [r \in Requests |-> "new"]
    /\ exit = "none"

\* The process is gone, and every connection and handler with it.
Exit(how) ==
    /\ pc' = "exited"
    /\ exit' = how
    /\ req' = [r \in Requests |-> IF req[r] \in {"accepted", "running"} THEN "cut" ELSE req[r]]

-----------------------------------------------------------------------------
(***************************************************************************)
(* app.New.  A step that fails panics; main has not deferred anything yet, *)
(* so what is open stays open until the process is gone.                   *)
(***************************************************************************)
BootStep(from, to, opened) ==
    /\ pc = from
    /\ \/ /\ pc' = to
          /\ clients' = clients \cup opened
          /\ UNCHANGED <<req, exit>>
       \/ Exit("panic") /\ UNCHANGED clients
    /\ UNCHANGED <<file, env, cfg, listener, serverErr, signals, result>>

\* Mutant of LoadConfig: the file is validated, and then overridden.
LoadConfigValidatesFile ==
    /\ pc = "config"
    /\ \/ /\ Validate(Unmarshal(file))
          /\ pc' = "logger"
          /\ cfg' = Loaded(file, env)
          /\ UNCHANGED <<req, exit>>
       \/ Exit("panic") /\ UNCHANGED cfg
    /\ UNCHANGED <<file, env, clients, listener, serverErr, signals, result>>

\* Otherwise the file cannot be read or parsed, or is refused.
LoadConfig ==
    /\ pc = "config"
    /\ \/ /\ Validate(Loaded(file, env))
          /\ pc' = "logger"
          /\ cfg' = Loaded(file, env)
          /\ UNCHANGED <<req, exit>>
       \/ Exit("panic") /\ UNCHANGED cfg
    /\ UNCHANGED <<file, env, clients, listener, serverErr, signals, result>>

NewLogger == BootStep("logger", "postgres", {})

OpenPostgres == BootStep("postgres", "redis", {"postgres"})

NewRedis == BootStep("redis", "bootstrap", {"redis"})

\* EnsureBootstrapAdmin and InvalidateUserSessions (Accounts has their steps).
Bootstrap == BootStep("bootstrap", "run", {})

-----------------------------------------------------------------------------
(***************************************************************************)
(* Server.Run.                                                             *)
(***************************************************************************)
\* The listening goroutine is started before the signals are asked for.
StartListening ==
    /\ pc = "run"
    /\ pc' = "notify"
    /\ listener' = "starting"
    /\ UNCHANGED <<file, env, cfg, clients, serverErr, signals, result, req, exit>>

Notify ==
    /\ pc = "notify"
    /\ pc' = "select"
    /\ UNCHANGED <<file, env, cfg, clients, listener, serverErr, signals, result, req, exit>>

\* Shutdown closes the listener and the idle connections at once; a connection
\* accepted before is still served.
SelectSignal ==
    /\ pc = "select"
    /\ signals
    /\ pc' = "shutdown"
    /\ signals' = FALSE
    /\ listener' = IF listener \in {"failed", "closed"} THEN "closed" ELSE "closing"
    /\ UNCHANGED <<file, env, cfg, clients, serverErr, result, req, exit>>

SelectServerErr ==
    /\ pc = "select"
    /\ serverErr # "empty"
    /\ pc' = "cleanup"
    /\ serverErr' = "empty"
    /\ result' = "failed"
    /\ UNCHANGED <<file, env, cfg, clients, listener, signals, req, exit>>

Running == {r \in Requests : req[r] = "running"}

\* The connections that Shutdown waits for.
Busy == {r \in Requests : req[r] \in {"accepted", "running"}}

\* Mutant of ShutdownDone: Close, which does not wait for the handlers.
ShutdownAtOnce ==
    /\ pc = "shutdown"
    /\ pc' = "cleanup"
    /\ result' = "ok"
    /\ UNCHANGED <<file, env, cfg, clients, listener, serverErr, signals, req, exit>>

ShutdownDone ==
    /\ pc = "shutdown"
    /\ Busy = {}
    /\ pc' = "cleanup"
    /\ result' = "ok"
    /\ UNCHANGED <<file, env, cfg, clients, listener, serverErr, signals, req, exit>>

\* Mutant of ShutdownTimesOut: Shutdown with a context that never ends.
ShutdownWaits == FALSE /\ UNCHANGED vars

\* shutdown_timeout has passed; the handlers go on.
ShutdownTimesOut ==
    /\ pc = "shutdown"
    /\ pc' = "cleanup"
    /\ result' = "failed"
    /\ UNCHANGED <<file, env, cfg, clients, listener, serverErr, signals, req, exit>>

-----------------------------------------------------------------------------
(***************************************************************************)
(* The deferred cleanups of main: Redis, then PostgreSQL, then the log.    *)
(* They also run when main panics with the error of Run.                   *)
(***************************************************************************)
\* Mutant of CloseRedis: the client is closed as soon as the signal is seen.
CloseRedisAtOnce ==
    /\ pc \in {"shutdown", "cleanup"}
    /\ pc' = IF pc = "cleanup" THEN "closedb" ELSE pc
    /\ clients' = clients \ {"redis"}
    /\ UNCHANGED <<file, env, cfg, listener, serverErr, signals, result, req, exit>>

CloseRedis ==
    /\ pc = "cleanup"
    /\ pc' = "closedb"
    /\ clients' = clients \ {"redis"}
    /\ UNCHANGED <<file, env, cfg, listener, serverErr, signals, result, req, exit>>

CloseDatabase ==
    /\ pc = "closedb"
    /\ pc' = "sync"
    /\ clients' = clients \ {"postgres"}
    /\ UNCHANGED <<file, env, cfg, listener, serverErr, signals, result, req, exit>>

SyncLogger ==
    /\ pc = "sync"
    /\ Exit(IF result = "ok" THEN "ok" ELSE "panic")
    /\ UNCHANGED <<file, env, cfg, clients, listener, serverErr, signals, result>>

-----------------------------------------------------------------------------
(***************************************************************************)
(* The listening goroutine and the handlers.                               *)
(***************************************************************************)
Listen ==
    /\ pc # "exited"
    /\ listener = "starting"
    /\ listener' = "open"
    /\ UNCHANGED <<file, env, cfg, pc, clients, serverErr, signals, result, req, exit>>

\* The address is taken, or accepting fails for good; then the connections that
\* are kept alive go on.
ServerFails ==
    /\ pc # "exited"
    /\ listener \in {"starting", "open"}
    /\ listener' = IF listener = "open" THEN "failed" ELSE "closed"
    /\ serverErr' = "failed"
    /\ UNCHANGED <<file, env, cfg, pc, clients, signals, result, req, exit>>

\* Shutdown has been called: ListenAndServe returns ErrServerClosed, also if it
\* had not got as far as listening.  Nobody receives it; the channel has room.
ServerClosed ==
    /\ pc # "exited"
    /\ listener = "closing"
    /\ listener' = "closed"
    /\ serverErr' = "closed"
    /\ UNCHANGED <<file, env, cfg, pc, clients, signals, result, req, exit>>

\* The request has a connection: a new one, or one that was kept alive.
Accept(r) ==
    /\ pc # "exited"
    /\ listener \in {"open", "failed"}
    /\ req[r] = "new"
    /\ req' = [req EXCEPT ![r] = "accepted"]
    /\ UNCHANGED <<file, env, cfg, pc, clients, listener, serverErr, signals, result, exit>>

\* It has been read and its handler starts, also during and after Shutdown; or
\* nothing comes (the client is gone, a timeout, a new connection that Shutdown
\* takes for idle) and the connection is closed.
Serve(r) ==
    /\ pc # "exited"
    /\ req[r] = "accepted"
    /\ \E how \in {"running", "new"} : req' = [req EXCEPT ![r] = how]
    /\ UNCHANGED <<file, env, cfg, pc, clients, listener, serverErr, signals, result, exit>>

\* Mutant of Answer: a panic that nobody recovers leaves the request open.
AnswerOrPanic(r) ==
    /\ pc # "exited"
    /\ req[r] = "running"
    /\ \E how \in {"done", "panicked"} : req' = [req EXCEPT ![r] = how]
    /\ UNCHANGED <<file, env, cfg, pc, clients, listener, serverErr, signals, result, exit>>

\* The handler answers; a panic is answered too (middleware.Recovery).  A handler
\* that needs a client that is closed answers with an error.
Answer(r) ==
    /\ pc # "exited"
    /\ req[r] = "running"
    /\ \/ req' = [req EXCEPT ![r] = "done"]
       \/ clients # Clients /\ req' = [req EXCEPT ![r] = "failed"]
    /\ UNCHANGED <<file, env, cfg, pc, clients, listener, serverErr, signals, result, exit>>

-----------------------------------------------------------------------------
\* Mutant of Signal: Run asks for no more signals once it has got one.
SignalOnce ==
    /\ pc # "exited"
    /\ IF pc = "select"
       THEN signals' = TRUE /\ UNCHANGED <<pc, req, exit>>
       ELSE Exit("killed") /\ UNCHANGED signals
    /\ UNCHANGED <<file, env, cfg, clients, listener, serverErr, result>>

\* SIGINT or SIGTERM.  Between Notify and the return of Run it goes into the
\* channel, where there is room for one; at any other time it ends the process.
Signal ==
    /\ pc # "exited"
    /\ IF pc \in {"select", "shutdown"}
       THEN signals' = TRUE /\ UNCHANGED <<pc, req, exit>>
       ELSE Exit("killed") /\ UNCHANGED signals
    /\ UNCHANGED <<file, env, cfg, clients, listener, serverErr, result>>

\* What the main goroutine does once it waits in Run.
Stopping ==
    \/ SelectSignal \/ SelectServerErr
    \/ ShutdownDone \/ ShutdownTimesOut
    \/ CloseRedis \/ CloseDatabase \/ SyncLogger

Next ==
    \/ LoadConfig \/ NewLogger \/ OpenPostgres \/ NewRedis \/ Bootstrap
    \/ StartListening \/ Notify
    \/ SelectSignal \/ SelectServerErr
    \/ ShutdownDone \/ ShutdownTimesOut
    \/ CloseRedis \/ CloseDatabase \/ SyncLogger
    \/ Listen \/ ServerFails \/ ServerClosed
    \/ \E r \in Requests : Accept(r)
    \/ \E r \in Requests : Serve(r)
    \/ \E r \in Requests : Answer(r)
    \/ Signal

\* The main goroutine is scheduled and the timer of Shutdown fires; nothing is
\* assumed of the handlers.
Spec == Init /\ [][Next]_vars /\ WF_vars(Stopping)

-----------------------------------------------------------------------------
(***************************************************************************)
(* Properties.                                                             *)
(***************************************************************************)
\* Every variable holds one of the values named with it.
TypeOK ==
    /\ file \in Files
    /\ env \in Envs
    /\ cfg \in {NoConfig, Loaded(file, env)}
    /\ pc \in {"config", "logger", "postgres", "redis", "bootstrap", "run", "notify",
               "select", "shutdown", "cleanup", "closedb", "sync", "exited"}
    /\ clients \in SUBSET Clients
    /\ listener \in {"none", "starting", "open", "failed", "closing", "closed"}
    /\ serverErr \in {"empty", "failed", "closed"}
    /\ signals \in BOOLEAN
    /\ result \in {"none", "ok", "failed"}
    /\ req \in [Requests -> {"new", "accepted", "running", "done", "failed", "cut"}]
    /\ exit \in {"none", "ok", "panic", "killed"}

\* A process that ends without an error has answered every request it began to
\* handle, also one that Shutdown found unread on its connection, and none of
\* them with a client already closed (Run waits in Shutdown before main's
\* deferred cleanups run).
OrderlyExitAnswersAll ==
    exit = "ok" => \A r \in Requests : req[r] \in {"new", "done"}

\* A handler finds a client closed only if Run gave up: Shutdown timed out or the
\* listener failed.  No new handler starts while the cleanups run after an
\* orderly shutdown.
ClientsOutliveHandlers ==
    clients # Clients /\ Running # {} => result = "failed"

\* A signal, a second one too, kills running handlers only in the two gaps in
\* which Run does not listen for signals: before signal.Notify, and after Run
\* has given up on them.
SignalCutsOnlyInGaps ==
    [][exit' = "killed" /\ exit = "none" /\ Running # {} =>
          pc = "notify" \/ result = "failed"]_vars

\* A process that listens runs with sound settings, whatever mixture of defaults,
\* file and environment they come from: the lifetimes and limits that the
\* session and captcha stores and Shutdown rely on are positive, production has
\* the secure cookie and the captcha, and every variable of the environment that
\* is set is in effect.
ServesSoundConfig ==
    listener # "none" =>
        /\ \A n \in {"auth.refresh_token_ttl", "auth.access_token_ttl", "captcha.ttl",
                     "captcha.issue_limit_per_minute", "server.shutdown_timeout"} : cfg[n] > 0
        /\ cfg["app.env"] = "production" =>
              cfg["auth.refresh_cookie_secure"] /\ cfg["captcha.enabled"]
        /\ cfg["auth.jwt_secret"] \notin {"", "short"}
        /\ \A n \in Overridable : env[n] # "" => cfg[n] = env[n]

\* A signal or a failed listener ends the process, even if some handler never
\* returns: Shutdown is bounded by shutdown_timeout.
StopsWhenAsked ==
    (pc = "select" /\ (signals \/ serverErr = "failed")) ~> (pc = "exited")
=============================================================================
