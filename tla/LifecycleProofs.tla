--------------------------- MODULE LifecycleProofs ---------------------------
(***************************************************************************)
(* Proofs about Lifecycle, for any number of requests, any configuration   *)
(* file and any environment.                                               *)
(***************************************************************************)
EXTENDS Lifecycle, TLAPS

Unharmed == \A r \in Requests : req[r] \in {"new", "accepted", "running", "done"}

\* While New runs nothing listens.
BootInv ==
    /\ pc \in {"config", "logger", "postgres", "redis", "bootstrap", "run"} =>
          listener = "none" /\ result = "none" /\ \A r \in Requests : req[r] = "new"
    /\ pc \in {"config", "logger", "postgres"} => clients = {}
    /\ pc = "redis" => clients = {"postgres"}
    /\ pc \in {"bootstrap", "run"} => clients = Clients

\* While Run runs the clients are open.
RunInv ==
    /\ pc \in {"notify", "select", "shutdown"} =>
          clients = Clients /\ result = "none" /\ Unharmed
    /\ pc = "shutdown" => listener \in {"closing", "closed"}

\* Once Run has returned nil there are no handlers, and there will be none.
StopInv ==
    /\ pc \in {"cleanup", "closedb", "sync"} => result # "none"
    /\ result = "ok" =>
          /\ pc \in {"cleanup", "closedb", "sync", "exited"}
          /\ listener \in {"closing", "closed"}
          /\ \A r \in Requests : req[r] \in {"new", "done"}
    /\ pc = "exited" => Running = {}
    /\ pc = "cleanup" => clients = Clients
    /\ exit = "ok" => result = "ok"

\* The inductive invariant.
LifeInv == TypeOK /\ BootInv /\ RunInv /\ StopInv

\* The invariant holds when main starts.
LEMMA LifeInit == Init => LifeInv
  BY DEF Init, LifeInv, TypeOK, BootInv, RunInv, StopInv, Unharmed, Running, Clients

\* The invariant gives the two properties.
LEMMA LifeImplies == LifeInv => OrderlyExitAnswersAll /\ ClientsOutliveHandlers
  BY DEF LifeInv, TypeOK, BootInv, RunInv, StopInv, OrderlyExitAnswersAll,
         ClientsOutliveHandlers, Running

\* Leaving the process keeps the invariant: the handlers are gone, and what Run
\* has returned stands.
LEMMA ExitKeeps ==
  ASSUME LifeInv, NEW how \in {"ok", "panic", "killed"}, how = "ok" => result = "ok",
         Exit(how), UNCHANGED <<file, env, cfg, clients, listener, serverErr, result>>,
         signals' \in BOOLEAN
  PROVE  LifeInv'
  <1>1. TypeOK'
    BY DEF LifeInv, TypeOK, Exit
  <1>2. BootInv' /\ RunInv'
    BY DEF BootInv, RunInv, Exit
  <1>3. Running' = {}
    BY DEF Exit, Running
  <1>4. \A r \in Requests : req[r] \in {"new", "done"} => req'[r] = req[r]
    BY DEF Exit
  <1>5. StopInv'
    BY <1>3, <1>4 DEF LifeInv, StopInv, Exit
  <1> QED
    BY <1>1, <1>2, <1>5 DEF LifeInv

\* Every step of the main goroutine, the listener, a handler or the operator
\* keeps the invariant.
LEMMA LifeNext == LifeInv /\ [Next]_vars => LifeInv'
  <1> SUFFICES ASSUME LifeInv, [Next]_vars PROVE LifeInv'
    OBVIOUS
  <1>0. ASSUME Exit("panic") \/ Exit("killed"),
               UNCHANGED <<file, env, cfg, clients, listener, serverErr, signals, result>>
        PROVE  LifeInv'
    <2>1. signals' \in BOOLEAN
      BY <1>0 DEF LifeInv, TypeOK
    <2> QED
      BY <1>0, <2>1, ExitKeeps
  <1> USE DEF LifeInv, TypeOK, BootInv, RunInv, StopInv, Unharmed, Running, Busy, Clients
  <1>1a. CASE LoadConfig
    <2>1. CASE Exit("panic") /\ UNCHANGED <<file, env, cfg, clients, listener, serverErr, signals, result>>
      BY <2>1, <1>0
    <2>2. CASE /\ UNCHANGED <<file, env, clients, listener, serverErr, signals, result, req, exit>>
               /\ pc' = "logger" /\ cfg' = Loaded(file, env)
      BY <1>1a, <2>2 DEF LoadConfig
    <2> QED
      BY <1>1a, <2>1, <2>2 DEF LoadConfig
  <1>1. CASE NewLogger \/ OpenPostgres \/ NewRedis \/ Bootstrap
    <2>1. CASE Exit("panic") /\ UNCHANGED <<file, env, cfg, clients, listener, serverErr, signals, result>>
      BY <2>1, <1>0
    <2>2. CASE UNCHANGED <<file, env, cfg, listener, serverErr, signals, result, req, exit>> /\ pc' # "exited"
      BY <1>1, <2>2 DEF NewLogger, OpenPostgres, NewRedis, Bootstrap, BootStep, Exit
    <2> QED
      BY <1>1, <2>1, <2>2 DEF NewLogger, OpenPostgres, NewRedis, Bootstrap, BootStep
  <1>2. CASE StartListening \/ Notify
    <2>1. CASE StartListening
      BY <2>1 DEF StartListening
    <2>2. CASE Notify
      BY <2>2 DEF Notify
    <2> QED
      BY <1>2, <2>1, <2>2
  <1>3. CASE SelectSignal \/ SelectServerErr
    <2>1. CASE SelectSignal
      BY <2>1 DEF SelectSignal
    <2>2. CASE SelectServerErr
      BY <2>2 DEF SelectServerErr
    <2> QED
      BY <1>3, <2>1, <2>2
  <1>4. CASE ShutdownDone \/ ShutdownTimesOut
    <2>1. CASE ShutdownDone
      BY <2>1 DEF ShutdownDone
    <2>2. CASE ShutdownTimesOut
      BY <2>2 DEF ShutdownTimesOut
    <2> QED
      BY <1>4, <2>1, <2>2
  <1>5. CASE CloseRedis \/ CloseDatabase
    <2>1. CASE CloseRedis
      BY <2>1 DEF CloseRedis
    <2>2. CASE CloseDatabase
      BY <2>2 DEF CloseDatabase
    <2> QED
      BY <1>5, <2>1, <2>2
  <1>6. CASE SyncLogger
    BY <1>6, ExitKeeps DEF SyncLogger
  <1>7. CASE Listen \/ ServerFails \/ ServerClosed
    <2>1. CASE Listen
      BY <2>1 DEF Listen
    <2>2. CASE ServerFails
      BY <2>2 DEF ServerFails
    <2>3. CASE ServerClosed
      BY <2>3 DEF ServerClosed
    <2> QED
      BY <1>7, <2>1, <2>2, <2>3
  <1>8. ASSUME NEW r \in Requests, Accept(r)
        PROVE  LifeInv'
    BY <1>8 DEF Accept
  <1>8a. ASSUME NEW r \in Requests, Serve(r)
        PROVE  LifeInv'
    BY <1>8a DEF Serve
  <1>9. ASSUME NEW r \in Requests, Answer(r)
        PROVE  LifeInv'
    BY <1>9 DEF Answer
  <1>10. CASE Signal
    <2>1. CASE pc \in {"select", "shutdown"}
      BY <1>10, <2>1 DEF Signal
    <2>2. CASE pc \notin {"select", "shutdown"}
      BY <1>10, <2>2, <1>0 DEF Signal
    <2> QED
      BY <2>1, <2>2
  <1>11. CASE UNCHANGED vars
    BY <1>11 DEF vars
  <1> QED
    BY <1>1a, <1>1, <1>2, <1>3, <1>4, <1>5, <1>6, <1>7, <1>8, <1>8a, <1>9, <1>10, <1>11
       DEF Next

\* A process that has loaded its configuration, or that listens, runs with what
\* the file and the environment give, and Validate has passed it.
ConfigInv ==
    (pc \notin {"config", "exited"} \/ listener # "none") =>
        cfg = Loaded(file, env) /\ Validate(cfg)

\* LoadConfig alone leads out of "config", and no later step changes a setting.
LEMMA ConfigNext == ConfigInv /\ [Next]_vars => ConfigInv'
  <1> SUFFICES ASSUME ConfigInv, [Next]_vars PROVE ConfigInv'
    OBVIOUS
  <1> USE DEF ConfigInv
  <1>1. CASE LoadConfig
    BY <1>1 DEF LoadConfig, Exit
  <1>2. CASE NewLogger \/ OpenPostgres \/ NewRedis \/ Bootstrap
    BY <1>2 DEF NewLogger, OpenPostgres, NewRedis, Bootstrap, BootStep, Exit
  <1>3. CASE StartListening \/ Notify \/ SelectSignal \/ SelectServerErr
    BY <1>3 DEF StartListening, Notify, SelectSignal, SelectServerErr
  <1>4. CASE ShutdownDone \/ ShutdownTimesOut \/ CloseRedis \/ CloseDatabase \/ SyncLogger
    BY <1>4 DEF ShutdownDone, ShutdownTimesOut, CloseRedis, CloseDatabase, SyncLogger, Exit
  <1>5. CASE Listen \/ ServerFails \/ ServerClosed
    BY <1>5 DEF Listen, ServerFails, ServerClosed
  <1>6. ASSUME NEW r \in Requests, Accept(r) \/ Serve(r) \/ Answer(r)
        PROVE  ConfigInv'
    BY <1>6 DEF Accept, Serve, Answer
  <1>7. CASE Signal
    BY <1>7 DEF Signal, Exit
  <1>8. CASE UNCHANGED vars
    BY <1>8 DEF vars
  <1> QED
    BY <1>1, <1>2, <1>3, <1>4, <1>5, <1>6, <1>7, <1>8 DEF Next

\* What Validate has passed after the override is sound, and shows the
\* environment.
LEMMA ConfigImplies == ConfigInv => ServesSoundConfig
  <1> SUFFICES ASSUME ConfigInv, listener # "none" PROVE ServesSoundConfig
    BY DEF ServesSoundConfig
  <1>1. cfg = Loaded(file, env) /\ Validate(cfg)
    BY DEF ConfigInv
  <1>2. \A n \in Positive : cfg[n] > 0
    BY <1>1 DEF Validate
  <1>3. \A n \in Overridable : env[n] # "" => cfg[n] = env[n]
    BY <1>1 DEF Loaded, Override, Settings
  <1>4. cfg["app.env"] = "production" =>
            cfg["auth.refresh_cookie_secure"] /\ cfg["captcha.enabled"]
    BY <1>1 DEF Validate
  <1>5. cfg["auth.jwt_secret"] \notin {"", "short"}
    BY <1>1 DEF Validate
  <1> QED
    BY <1>2, <1>3, <1>4, <1>5 DEF ServesSoundConfig, Positive

\* A signal that is not caught finds no handler unless Run is in a gap.
LEMMA SignalStep ==
  ASSUME LifeInv, [Next]_vars
  PROVE  exit' = "killed" /\ exit = "none" /\ Running # {} =>
             pc = "notify" \/ result = "failed"
  <1>1. CASE Signal
    BY <1>1 DEF LifeInv, TypeOK, BootInv, RunInv, StopInv, Running, Signal, Exit
  <1>2. CASE ~Signal
    <2>1. CASE exit' = exit
      BY <2>1
    <2>2. CASE Exit("panic") \/ Exit("ok")
      BY <2>2 DEF Exit
    <2> QED
      BY <1>2, <2>1, <2>2
         DEF Next, vars, LoadConfig, NewLogger, OpenPostgres, NewRedis, Bootstrap, BootStep,
             StartListening, Notify, SelectSignal, SelectServerErr, ShutdownDone,
             ShutdownTimesOut, CloseRedis, CloseDatabase, SyncLogger, Listen, ServerFails,
             ServerClosed, Accept, Serve, Answer
  <1> QED
    BY <1>1, <1>2

\* Every variable of the process keeps its shape.
THEOREM TypeCorrect == Spec => []TypeOK
  <1>1. LifeInv => TypeOK
    BY DEF LifeInv
  <1> QED
    BY LifeInit, LifeNext, <1>1, PTL DEF Spec

\* A process that listens runs with sound settings, for every file and every
\* environment.
THEOREM SoundConfig == Spec => []ServesSoundConfig
  <1>1. Init => ConfigInv
    BY DEF Init, ConfigInv
  <1> QED
    BY <1>1, ConfigNext, ConfigImplies, PTL DEF Spec

\* A signal kills running handlers only before signal.Notify or after Run gave
\* up on them.
THEOREM SignalGaps == Spec => SignalCutsOnlyInGaps
  <1>1. LifeInv /\ [Next]_vars =>
            [exit' = "killed" /\ exit = "none" /\ Running # {} =>
                pc = "notify" \/ result = "failed"]_vars
    BY SignalStep
  <1> QED
    BY LifeInit, LifeNext, <1>1, PTL DEF Spec, SignalCutsOnlyInGaps

\* A process that ends without an error has answered every request it began to
\* handle.
THEOREM OrderlyExit == Spec => []OrderlyExitAnswersAll
  BY LifeInit, LifeNext, LifeImplies, PTL DEF Spec

\* Redis and PostgreSQL are closed under a running handler only after Shutdown
\* has timed out or the listener has failed.
THEOREM ClientsLast == Spec => []ClientsOutliveHandlers
  BY LifeInit, LifeNext, LifeImplies, PTL DEF Spec
=============================================================================
