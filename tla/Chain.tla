-------------------------------- MODULE Chain --------------------------------
(***************************************************************************)
(* One HTTP request on its way through the Gin chain: the five global      *)
(* middlewares of NewServer, those of its route, the handler, and back out *)
(* through what is wrapped around them, after an abort or a panic too.     *)
(*                                                                         *)
(* What the handlers do to the stores is in Accounts, Captcha and Browser; *)
(* here a handler answers with some status or panics.                      *)
(***************************************************************************)
EXTENDS Naturals, Sequences

Roles == {"admin", "user"}

Probes == {"healthz", "readyz"}

\* The request: the path ("unknown" has no route, "slash" would have one without
\* its trailing slash; "users" stands for the routes of the user service without
\* a body, "usersBody" for those with one), the method ("other" has no route), the
\* Origin header, the length of the body (over the limit as declared, or only as
\* read), and what Required finds out from the Authorization header.
Request ==
    [path : Probes \cup {"captcha", "login", "refresh", "logout", "me", "users",
                         "usersBody", "unknown", "slash"},
     method : {"routed", "OPTIONS", "other"},
     origin : {"", "allowed", "foreign", "malformed"},
     body : {"fits", "declaredTooLarge", "readTooLarge"},
     bearer : {"malformed", "badToken", "noSession", "redisDown", "otherPair"} \cup Roles]

VARIABLES
    req,        \* the request
    chain,      \* the handlers still to be called
    around,     \* the handlers called that wrap the rest, innermost first
    going,      \* "in", "out", "panic" (unwinding), "done" or "cut"
    status,     \* the status written, or 0
    headers,    \* the headers set: "X-Request-ID", "CORS"
    principal,  \* "" or the role of the principal in the context
    handled,    \* the route's handler has been called
    log         \* the lines written: "access", "panic"

vars == <<req, chain, around, going, status, headers, principal, handled, log>>

-----------------------------------------------------------------------------
(***************************************************************************)
(* The chain of a request.                                                 *)
(***************************************************************************)
\* Mutant of Use: a panic goes past the access log.
UseRecoveryFirst == <<"RequestID", "Recovery", "AccessLogger", "CORS", "BodyLimit">>

\* Mutant of Use: an oversized body is refused before the CORS headers are set.
UseBodyLimitFirst == <<"RequestID", "AccessLogger", "Recovery", "BodyLimit", "CORS">>

Use == <<"RequestID", "AccessLogger", "Recovery", "CORS", "BodyLimit">>

\* Mutant of AuthRouter: logout is registered without the check of the origin.
AuthRouterOpenLogout(path) ==
    IF path = "refresh" THEN <<"RequireAllowedOrigin">>
    ELSE IF path = "me" THEN <<"Required">> ELSE << >>

\* The handlers that AuthRouter.Register puts before the service.
AuthRouter(path) ==
    IF path \in {"refresh", "logout"} THEN <<"RequireAllowedOrigin">>
    ELSE IF path = "me" THEN <<"Required">> ELSE << >>

\* UserRouter.Register: the whole group.
UserRouter(path) == IF path \in {"users", "usersBody"} THEN <<"Required">> ELSE << >>

\* The roles that the routers name for Required.
RolesOf(path) == IF path = "me" THEN Roles ELSE {"admin"}

\* Gin redirects a path with a trailing slash by itself, outside of the chain.
Redirected(q) == q.path = "slash" /\ q.method = "routed"

\* HandleMethodNotAllowed is set; both fallbacks run behind the global chain.
HandlersOf(q) ==
    CASE Redirected(q) -> <<"Redirect">>
      [] ~Redirected(q) /\ q.path \in {"unknown", "slash"} -> Use \o <<"NoRoute">>
      [] q.path \notin {"unknown", "slash"} /\ q.method # "routed" -> Use \o <<"NoMethod">>
      [] OTHER -> Use \o AuthRouter(q.path) \o UserRouter(q.path) \o <<"Handler">>

Init ==
    /\ req \in Request
    /\ chain = HandlersOf(req)
    /\ around = << >>
    /\ going = "in"
    /\ status = 0
    /\ headers = {}
    /\ principal = ""
    /\ handled = FALSE
    /\ log = {}

\* The handler is called.
Calls(h) ==
    /\ going = "in"
    /\ chain # << >>
    /\ Head(chain) = h
    /\ chain' = Tail(chain)

\* It calls Next and has nothing to do afterwards, or keeps what wraps the rest.
Passes == UNCHANGED <<around, going, status>>
Wraps(h) == around' = <<h>> \o around /\ UNCHANGED <<going, status>>

\* It writes its answer; the rest of the chain is not called.
Aborts(code) ==
    /\ status' = code
    /\ going' = "out"
    /\ UNCHANGED around

-----------------------------------------------------------------------------
(***************************************************************************)
(* The global middlewares.                                                 *)
(***************************************************************************)
\* The client's id if it is well formed, else a new one.
RequestID ==
    /\ Calls("RequestID")
    /\ headers' = headers \cup {"X-Request-ID"}
    /\ Passes
    /\ UNCHANGED <<req, principal, handled, log>>

\* These two come back to work after the rest.
Wrapper(h) ==
    /\ Calls(h)
    /\ Wraps(h)
    /\ UNCHANGED <<req, headers, principal, handled, log>>

AccessLogger == Wrapper("AccessLogger")

Recovery == Wrapper("Recovery")

\* Any OPTIONS of an allowed origin is a preflight and is answered here.
CORS ==
    /\ Calls("CORS")
    /\ IF req.origin = "allowed"
       THEN /\ headers' = headers \cup {"CORS"}
            /\ IF req.method = "OPTIONS" THEN Aborts(204) ELSE Passes
       ELSE Passes /\ UNCHANGED headers
    /\ UNCHANGED <<req, principal, handled, log>>

BodyLimit ==
    /\ Calls("BodyLimit")
    /\ IF req.body = "declaredTooLarge" THEN Aborts(413) ELSE Passes
    /\ UNCHANGED <<req, headers, principal, handled, log>>

-----------------------------------------------------------------------------
(***************************************************************************)
(* The middlewares of the routes, and the handlers.                        *)
(***************************************************************************)
\* A request without Origin does not come from a page of another site.
RequireAllowedOrigin ==
    /\ Calls("RequireAllowedOrigin")
    /\ IF req.origin \in {"", "allowed"} THEN Passes ELSE Aborts(403)
    /\ UNCHANGED <<req, headers, principal, handled, log>>

Required ==
    /\ Calls("Required")
    /\ CASE req.bearer \in RolesOf(req.path) -> Passes /\ principal' = req.bearer
         [] req.bearer \in Roles \ RolesOf(req.path) -> Aborts(403) /\ UNCHANGED principal
         [] req.bearer = "redisDown" -> Aborts(503) /\ UNCHANGED principal
         [] OTHER -> Aborts(401) /\ UNCHANGED principal
    /\ UNCHANGED <<req, headers, handled, log>>

\* The handlers that bind a JSON body.
ReadsBody == req.path \in {"login", "usersBody"}

\* The statuses that each handler, or the handlers of each group of routes,
\* answer with if the limit on the body is not met (AuthService, UserService, and
\* the probes of NewServer).
Answers ==
    [healthz |-> {200},
     readyz |-> {200, 503},
     captcha |-> {200, 429, 500, 503},
     login |-> {200, 400, 401, 500, 503},
     refresh |-> {200, 401, 500, 503},
     logout |-> {200, 503},
     me |-> {200, 401},
     users |-> {200, 400, 401, 404, 500, 503},
     usersBody |-> {200, 201, 400, 401, 404, 409, 500, 503}]

\* ShouldBindJSON meets the limit of MaxBytesReader, unless the JSON value ends,
\* or is found malformed, before it.
MeetsLimit == ReadsBody /\ req.body = "readTooLarge"

\* Mutant of Handler: the error of MaxBytesReader is not answered.
HandlerDropsTooLarge ==
    /\ Calls("Handler")
    /\ handled' = TRUE
    /\ LET codes == Answers[req.path] \cup IF MeetsLimit THEN {0} ELSE {}
       IN  \/ \E code \in codes : Aborts(code)
           \/ going' = "panic" /\ status' \in codes \cup {0} /\ UNCHANGED around
    /\ UNCHANGED <<req, headers, principal, log>>

\* It answers, or it panics, before or after it has begun to write.  The probes
\* are handlers too.
Handler ==
    /\ Calls("Handler")
    /\ handled' = TRUE
    /\ LET codes == Answers[req.path] \cup IF MeetsLimit THEN {413} ELSE {}
       IN  \/ \E code \in codes : Aborts(code)
           \/ going' = "panic" /\ status' \in codes \cup {0} /\ UNCHANGED around
    /\ UNCHANGED <<req, headers, principal, log>>

\* What is called when no handler matches.
Fallback(h, codes) ==
    /\ Calls(h)
    /\ \E code \in codes : Aborts(code)
    /\ UNCHANGED <<req, headers, principal, handled, log>>

NoRoute == Fallback("NoRoute", {404})

NoMethod == Fallback("NoMethod", {405})

Redirect == Fallback("Redirect", {301, 307})

-----------------------------------------------------------------------------
(***************************************************************************)
(* The way out.                                                            *)
(***************************************************************************)
Leaves(h) ==
    /\ going \in {"out", "panic"}
    /\ around # << >>
    /\ Head(around) = h
    /\ around' = Tail(around)

\* The deferred function of Recovery ends a panic, and answers if nobody has.
LeaveRecovery ==
    /\ Leaves("Recovery")
    /\ going' = "out"
    /\ log' = IF going = "panic" THEN log \cup {"panic"} ELSE log
    /\ status' = IF going = "panic" /\ status = 0 THEN 500 ELSE status
    /\ UNCHANGED <<req, chain, headers, principal, handled>>

\* Successful probes are not logged.  The code after Next does not run in a
\* panic.
LeaveAccessLogger ==
    /\ Leaves("AccessLogger")
    /\ log' = IF going = "panic" \/ (req.path \in Probes /\ status < 500)
              THEN log ELSE log \cup {"access"}
    /\ UNCHANGED <<req, chain, going, status, headers, principal, handled>>

\* net/http sends the answer, or closes the connection of a handler that panics.
Finish ==
    /\ going \in {"out", "panic"}
    /\ around = << >>
    /\ going' = IF going = "panic" THEN "cut" ELSE "done"
    /\ UNCHANGED <<req, chain, around, status, headers, principal, handled, log>>

Next ==
    \/ RequestID \/ AccessLogger \/ Recovery \/ CORS \/ BodyLimit
    \/ RequireAllowedOrigin \/ Required
    \/ Handler \/ NoRoute \/ NoMethod \/ Redirect
    \/ LeaveRecovery \/ LeaveAccessLogger \/ Finish

Spec == Init /\ [][Next]_vars

-----------------------------------------------------------------------------
(***************************************************************************)
(* Properties.                                                             *)
(***************************************************************************)
\* The statuses that the chain and the services answer with.
Codes == {200, 201, 204, 301, 307, 400, 401, 403, 404, 405, 409, 413, 429, 500, 503}

\* Every variable holds values of its shape; no answer has status 0.
TypeOK ==
    /\ req \in Request
    /\ going \in {"in", "out", "panic", "done", "cut"}
    /\ status \in Codes \cup {0}
    /\ going \in {"out", "done"} => status # 0
    /\ headers \in SUBSET {"X-Request-ID", "CORS"}
    /\ principal \in {""} \cup Roles
    /\ handled \in BOOLEAN
    /\ log \in SUBSET {"access", "panic"}

\* Whatever stops a request (a preflight, a refusal of a middleware, a panic), it
\* is answered with its X-Request-ID and leaves a line in the log; a panic, and
\* a probe that fails, is never silent.  Gin's own redirects are the exception.
EveryEndIsTraced ==
    /\ going # "cut"
    /\ going = "done" /\ ~Redirected(req) =>
          /\ "X-Request-ID" \in headers
          /\ "access" \in log \/ (req.path \in Probes /\ status < 500)

\* The front end can read every answer it gets: whatever part of the chain the
\* answer comes from, an allowed origin, and no other, finds the CORS headers on
\* it, except on a redirect.
FrontEndReadsEveryAnswer ==
    going = "done" /\ ~Redirected(req) => (req.origin = "allowed" <=> "CORS" \in headers)

\* A handler runs only for whom its route is meant: Refresh and Logout, which the
\* cookie alone authenticates, never for a page of another site, and the user
\* service never without an administrator's session; and never for a preflight.
HandledOnlyIfMeant ==
    handled =>
        /\ req.path \in {"refresh", "logout"} => req.origin \in {"", "allowed"}
        /\ req.path \in {"users", "usersBody"} => req.bearer = "admin" /\ principal = "admin"
        /\ req.path = "me" => principal \in Roles /\ req.bearer = principal
        /\ req.method = "routed"
=============================================================================
