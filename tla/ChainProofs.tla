----------------------------- MODULE ChainProofs -----------------------------
(***************************************************************************)
(* Proofs about Chain: why every request comes out as it should, by where  *)
(* it is in the chain.                                                     *)
(***************************************************************************)
EXTENDS Chain, TLAPS

-----------------------------------------------------------------------------
(***************************************************************************)
(* The chain, handler by handler.                                          *)
(***************************************************************************)
\* What stands behind the global middlewares.
Behind(q) ==
    CASE q.path \in {"unknown", "slash"} -> <<"NoRoute">>
      [] q.path \notin {"unknown", "slash"} /\ q.method # "routed" -> <<"NoMethod">>
      [] q.path \in {"refresh", "logout"} /\ q.method = "routed" ->
            <<"RequireAllowedOrigin", "Handler">>
      [] q.path \in {"me", "users", "usersBody"} /\ q.method = "routed" ->
            <<"Required", "Handler">>
      [] OTHER -> <<"Handler">>

\* The chain of a request is the global middlewares and what is behind them.
LEMMA WholeChain ==
    ASSUME NEW q \in Request
    PROVE  HandlersOf(q) = IF Redirected(q) THEN <<"Redirect">> ELSE Use \o Behind(q)
  <1>1. /\ Use \o <<"RequireAllowedOrigin">> \o << >> \o <<"Handler">>
               = Use \o <<"RequireAllowedOrigin", "Handler">>
        /\ Use \o <<"Required">> \o << >> \o <<"Handler">> = Use \o <<"Required", "Handler">>
        /\ Use \o << >> \o <<"Required">> \o <<"Handler">> = Use \o <<"Required", "Handler">>
        /\ Use \o << >> \o << >> \o <<"Handler">> = Use \o <<"Handler">>
    BY DEF Use
  <1> QED
    BY <1>1 DEF Request, Redirected, HandlersOf, AuthRouter, UserRouter, Behind

\* The five ways a chain can end, and for which requests.
LEMMA BehindCases ==
    ASSUME NEW q \in Request
    PROVE  \/ Behind(q) \in {<<"NoRoute">>, <<"NoMethod">>}
           \/ /\ Behind(q) = <<"RequireAllowedOrigin", "Handler">>
              /\ q.path \in {"refresh", "logout"} /\ q.method = "routed"
           \/ /\ Behind(q) = <<"Required", "Handler">>
              /\ q.path \in {"me", "users", "usersBody"} /\ q.method = "routed"
           \/ /\ Behind(q) = <<"Handler">> /\ q.method = "routed"
              /\ q.path \notin {"refresh", "logout", "me", "users", "usersBody", "unknown", "slash"}
  BY DEF Behind

\* The handlers.
Names == {"RequestID", "AccessLogger", "Recovery", "CORS", "BodyLimit", "RequireAllowedOrigin",
          "Required", "Handler", "NoRoute", "NoMethod"}

\* The first handler of two stretches of a chain is that of the first.
LEMMA FirstOf ==
    ASSUME NEW S, NEW s \in Seq(S), NEW r \in Seq(S), s # << >>
    PROVE  s \o r # << >> /\ Head(s \o r) = Head(s) /\ Tail(s \o r) = Tail(s) \o r
  <1>1. s \o r \in Seq(S) /\ Len(s \o r) = Len(s) + Len(r) /\ Len(s) > 0
    OBVIOUS
  <1>2. Head(s \o r) = Head(s)
    BY <1>1
  <1>3. Tail(s \o r) = Tail(s) \o r
    <2>1. Len(Tail(s)) = Len(s) - 1 /\ Tail(s) \in Seq(S)
      OBVIOUS
    <2>2. /\ Len(Tail(s \o r)) = Len(Tail(s) \o r)
          /\ Tail(s \o r) \in Seq(S) /\ Tail(s) \o r \in Seq(S)
      BY <1>1, <2>1
    <2>3. \A i \in 1..Len(Tail(s \o r)) : Tail(s \o r)[i] = (Tail(s) \o r)[i]
      BY <1>1, <2>1, <2>2
    <2> QED
      BY <2>2, <2>3
  <1> QED
    BY <1>1, <1>2, <1>3

\* Two handlers, one put before the other.
LEMMA TwoOf ==
    ASSUME NEW S, NEW a \in S, NEW b \in S
    PROVE  <<a>> \o <<b>> = <<a, b>>
  <1>1. /\ <<a>> \o <<b>> \in Seq(S) /\ Len(<<a>> \o <<b>>) = 2
        /\ <<a, b>> \in Seq(S) /\ Len(<<a, b>>) = 2
    OBVIOUS
  <1>2. (<<a>> \o <<b>>)[1] = a /\ (<<a>> \o <<b>>)[2] = b
    OBVIOUS
  <1>3. \A i \in 1..Len(<<a>> \o <<b>>) : (<<a>> \o <<b>>)[i] = <<a, b>>[i]
    BY <1>1, <1>2
  <1>4. ASSUME NEW s \in Seq(S), NEW r \in Seq(S), Len(s) = Len(r),
               \A i \in 1..Len(s) : s[i] = r[i]
        PROVE  s = r
    BY <1>4
  <1> QED
    BY <1>1, <1>3, <1>4

-----------------------------------------------------------------------------
(***************************************************************************)
(* The invariant.                                                          *)
(***************************************************************************)
\* The headers that CORS leaves on an answer.
Named(q) == IF q.origin = "allowed" THEN {"X-Request-ID", "CORS"} ELSE {"X-Request-ID"}

\* The rest of the chain from AccessLogger, Recovery, CORS and BodyLimit on.
FromLogger(q) == <<"AccessLogger", "Recovery", "CORS", "BodyLimit">> \o Behind(q)
FromRecovery(q) == <<"Recovery", "CORS", "BodyLimit">> \o Behind(q)
FromCORS(q) == <<"CORS", "BodyLimit">> \o Behind(q)
FromLimit(q) == <<"BodyLimit">> \o Behind(q)

Both == <<"Recovery", "AccessLogger">>

\* The route's own middlewares have let the request pass.
Admitted ==
    /\ req.path \notin {"unknown", "slash"} /\ req.method = "routed"
    /\ req.path \in {"refresh", "logout"} => req.origin \in {"", "allowed"}
    /\ req.path \in {"users", "usersBody"} => req.bearer = "admin" /\ principal = "admin"
    /\ req.path = "me" => principal \in Roles /\ req.bearer = principal

\* On the way in: what wraps the rest and which headers are set, by what is next.
InInv ==
    going = "in" =>
        /\ handled = FALSE
        /\ \/ Redirected(req) /\ chain = <<"Redirect">> /\ around = << >>
           \/ /\ ~Redirected(req)
              /\ \/ chain = Use \o Behind(req) /\ around = << >> /\ headers = {}
                 \/ /\ chain = FromLogger(req) /\ around = << >>
                    /\ headers = {"X-Request-ID"}
                 \/ /\ chain = FromRecovery(req) /\ around = <<"AccessLogger">>
                    /\ headers = {"X-Request-ID"}
                 \/ /\ chain = FromCORS(req) /\ around = Both
                    /\ headers = {"X-Request-ID"}
                 \/ chain = FromLimit(req) /\ around = Both /\ headers = Named(req)
                 \/ chain = Behind(req) /\ around = Both /\ headers = Named(req)
                 \/ chain = <<"Handler">> /\ around = Both /\ headers = Named(req) /\ Admitted

Logged == "access" \in log \/ (req.path \in Probes /\ status < 500)

\* On the way out: a panic is still inside of Recovery, and what has left the
\* access log is in it.
WayOutInv ==
    going \in {"out", "panic"} =>
        \/ Redirected(req) /\ around = << >> /\ going = "out"
        \/ /\ ~Redirected(req) /\ headers = Named(req)
           /\ \/ around = Both
              \/ around = <<"AccessLogger">> /\ going = "out"
              \/ around = << >> /\ going = "out" /\ Logged

\* At the end.
EndInv ==
    /\ going # "cut"
    /\ going = "done" /\ ~Redirected(req) => headers = Named(req) /\ Logged

\* The inductive invariant.
Inv == TypeOK /\ InInv /\ WayOutInv /\ EndInv /\ HandledOnlyIfMeant

\* The invariant gives the properties.
LEMMA InvImplies == Inv => EveryEndIsTraced /\ FrontEndReadsEveryAnswer
  BY DEF Inv, EndInv, Named, Logged, EveryEndIsTraced, FrontEndReadsEveryAnswer

\* The invariant holds when a request comes in.
LEMMA InvInit == Init => Inv
  <1> SUFFICES ASSUME Init PROVE Inv
    OBVIOUS
  <1>1. TypeOK
    BY DEF Init, TypeOK
  <1>2. InInv
    BY WholeChain DEF Init, InInv
  <1>3. WayOutInv /\ EndInv /\ HandledOnlyIfMeant
    BY DEF Init, WayOutInv, EndInv, HandledOnlyIfMeant
  <1> QED
    BY <1>1, <1>2, <1>3 DEF Inv

\* What holds when handler h is called, and what is left of the chain then.
Where(h) ==
    /\ going = "in" /\ handled = FALSE
    /\ \/ h = "Redirect" /\ Redirected(req) /\ around = << >>
       \/ /\ ~Redirected(req)
          /\ \/ /\ h = "RequestID" /\ chain' = FromLogger(req)
                /\ around = << >> /\ headers = {}
             \/ /\ h = "AccessLogger" /\ chain' = FromRecovery(req)
                /\ around = << >> /\ headers = {"X-Request-ID"}
             \/ /\ h = "Recovery" /\ chain' = FromCORS(req)
                /\ around = <<"AccessLogger">> /\ headers = {"X-Request-ID"}
             \/ /\ h = "CORS" /\ chain' = FromLimit(req)
                /\ around = Both /\ headers = {"X-Request-ID"}
             \/ /\ h = "BodyLimit" /\ chain' = Behind(req)
                /\ around = Both /\ headers = Named(req)
             \/ /\ around = Both /\ headers = Named(req)
                /\ \/ h \in {"NoRoute", "NoMethod"}
                   \/ h = "Handler" /\ Admitted
                   \/ /\ h = "RequireAllowedOrigin" /\ chain' = <<"Handler">>
                      /\ req.path \in {"refresh", "logout"} /\ req.method = "routed"
                   \/ /\ h = "Required" /\ chain' = <<"Handler">> /\ req.method = "routed"
                      /\ req.path \in {"me", "users", "usersBody"}

\* A handler is called only in its place.
LEMMA Called ==
    ASSUME Inv, NEW h, Calls(h)
    PROVE  Where(h)
  <1>1. going = "in" /\ Head(chain) = h /\ chain' = Tail(chain) /\ req \in Request
    BY DEF Calls, Inv, TypeOK
  <1>2. Behind(req) \in Seq(Names)
    <2>1. /\ <<"NoRoute">> \in Seq(Names) /\ <<"NoMethod">> \in Seq(Names)
          /\ <<"RequireAllowedOrigin", "Handler">> \in Seq(Names)
          /\ <<"Required", "Handler">> \in Seq(Names) /\ <<"Handler">> \in Seq(Names)
      BY DEF Names
    <2> QED
      BY <1>1, <2>1, BehindCases
  <1> DEFINE r == Behind(req)
  <1>3. /\ Head(Use \o r) = "RequestID" /\ Tail(Use \o r) = FromLogger(req)
        /\ Head(FromLogger(req)) = "AccessLogger" /\ Tail(FromLogger(req)) = FromRecovery(req)
    <2>1. Use \in Seq(Names) /\ <<"AccessLogger", "Recovery", "CORS", "BodyLimit">> \in Seq(Names)
      BY DEF Use, Names
    <2> QED
      BY <1>2, <2>1, FirstOf DEF Use, FromLogger, FromRecovery
  <1>4. /\ Head(FromRecovery(req)) = "Recovery" /\ Tail(FromRecovery(req)) = FromCORS(req)
        /\ Head(FromCORS(req)) = "CORS" /\ Tail(FromCORS(req)) = FromLimit(req)
    <2>1. <<"Recovery", "CORS", "BodyLimit">> \in Seq(Names) /\ <<"CORS", "BodyLimit">> \in Seq(Names)
      BY DEF Names
    <2> QED
      BY <1>2, <2>1, FirstOf DEF FromRecovery, FromCORS, FromLimit
  <1>5. Head(FromLimit(req)) = "BodyLimit" /\ Tail(FromLimit(req)) = r
    <2>1. <<"BodyLimit">> \in Seq(Names) /\ << >> \o r = r
      BY <1>2 DEF Names
    <2> QED
      BY <1>2, <2>1, FirstOf DEF FromLimit
  <1>6. ASSUME chain = r
        PROVE  \/ h \in {"NoRoute", "NoMethod"}
               \/ h = "Handler" /\ Admitted
               \/ /\ h = "RequireAllowedOrigin" /\ chain' = <<"Handler">>
                  /\ req.path \in {"refresh", "logout"} /\ req.method = "routed"
               \/ /\ h = "Required" /\ chain' = <<"Handler">> /\ req.method = "routed"
                  /\ req.path \in {"me", "users", "usersBody"}
    <2>1. CASE r \in {<<"NoRoute">>, <<"NoMethod">>}
      BY <1>1, <1>6, <2>1
    <2>2. CASE /\ r = <<"RequireAllowedOrigin", "Handler">>
               /\ req.path \in {"refresh", "logout"} /\ req.method = "routed"
      BY <1>1, <1>6, <2>2
    <2>3. CASE /\ r = <<"Required", "Handler">>
               /\ req.path \in {"me", "users", "usersBody"} /\ req.method = "routed"
      BY <1>1, <1>6, <2>3
    <2>4. CASE /\ r = <<"Handler">> /\ req.method = "routed"
               /\ req.path \notin {"refresh", "logout", "me", "users", "usersBody", "unknown", "slash"}
      <3>1. h = "Handler"
        BY <1>1, <1>6, <2>4
      <3> QED
        BY <2>4, <3>1 DEF Admitted
    <2> QED
      BY <1>1, <2>1, <2>2, <2>3, <2>4, BehindCases
  <1>7. /\ chain = <<"Redirect">> => h = "Redirect"
        /\ chain = <<"Handler">> => h = "Handler"
    BY <1>1
  <1> HIDE DEF r
  <1>8. handled = FALSE /\ going = "in"
    BY <1>1 DEF Inv, InInv
  <1>9. CASE Redirected(req)
    BY <1>1, <1>7, <1>8, <1>9 DEF Inv, InInv, Where
  <1>10. CASE ~Redirected(req)
    BY <1>1, <1>3, <1>4, <1>5, <1>6, <1>7, <1>8, <1>10 DEF Inv, InInv, Where, r
  <1> QED
    BY <1>9, <1>10

-----------------------------------------------------------------------------
(***************************************************************************)
(* Steps on the way in.                                                    *)
(***************************************************************************)
\* A handler that passes the request on keeps the invariant if it is further along.
LEMMA PassStep ==
    ASSUME Inv, TypeOK', going = "in", going' = "in", req' = req, handled = FALSE,
           handled' = handled, ~Redirected(req),
           \/ chain' = FromLogger(req) /\ around' = << >> /\ headers' = {"X-Request-ID"}
           \/ chain' = FromRecovery(req) /\ around' = <<"AccessLogger">> /\ headers' = {"X-Request-ID"}
           \/ chain' = FromCORS(req) /\ around' = Both /\ headers' = {"X-Request-ID"}
           \/ chain' = FromLimit(req) /\ around' = Both /\ headers' = Named(req)
           \/ chain' = Behind(req) /\ around' = Both /\ headers' = Named(req)
           \/ chain' = <<"Handler">> /\ around' = Both /\ headers' = Named(req) /\ Admitted'
    PROVE  Inv'
  <1>1. InInv'
    BY DEF InInv, Redirected, FromLogger, FromRecovery, FromCORS, FromLimit
  <1>2. WayOutInv' /\ EndInv' /\ HandledOnlyIfMeant'
    BY DEF WayOutInv, EndInv, HandledOnlyIfMeant
  <1> QED
    BY <1>1, <1>2 DEF Inv

\* A handler that ends the way in keeps the invariant: the headers are set, both
\* wrappers are around it, and if it is the route's own it was meant to run.
LEMMA TurnStep ==
    ASSUME Inv, TypeOK', going' \in {"out", "panic"}, req' = req,
           \/ /\ ~Redirected(req) /\ around' = Both /\ headers' = Named(req)
           \/ Redirected(req) /\ around' = << >> /\ going' = "out",
           handled' = FALSE \/ Admitted'
    PROVE  Inv'
  <1>1. InInv' /\ WayOutInv' /\ EndInv'
    BY DEF InInv, WayOutInv, EndInv, Redirected, Named, Both
  <1>2. HandledOnlyIfMeant'
    BY DEF HandledOnlyIfMeant, Admitted
  <1> QED
    BY <1>1, <1>2 DEF Inv

\* The statuses that the chain uses are statuses, and 0 is none.
LEMMA CodeFacts ==
    /\ 0 \notin Codes /\ 204 \in Codes /\ 403 \in Codes /\ 413 \in Codes /\ 500 \in Codes
    /\ \A c \in {401, 403, 503} : c \in Codes
    /\ \A c \in {301, 307, 404, 405} : c \in Codes
  BY DEF Codes

\* Every handler answers with one of these statuses.
LEMMA AnswerCodes ==
    ASSUME req \in Request, req.path \notin {"unknown", "slash"}
    PROVE  Answers[req.path] \subseteq Codes
  <1>1. req.path \in Probes \cup {"captcha", "login", "refresh", "logout", "me", "users",
                                  "usersBody"}
    BY DEF Request
  <1> QED
    BY <1>1 DEF Answers, Codes, Probes

\* The three middlewares before CORS.
LEMMA OuterStep ==
    ASSUME Inv, RequestID \/ AccessLogger \/ Recovery
    PROVE  Inv'
  <1>1. CASE RequestID
    <2>1. /\ Calls("RequestID") /\ headers' = headers \cup {"X-Request-ID"}
          /\ UNCHANGED <<around, going, status, req, principal, handled, log>>
      BY <1>1 DEF RequestID, Passes
    <2>2. /\ going = "in" /\ handled = FALSE /\ ~Redirected(req)
          /\ chain' = FromLogger(req) /\ around = << >> /\ headers = {}
      <3>1. Where("RequestID")
        BY <2>1, Called
      <3> QED
        BY <3>1 DEF Where
    <2>3. TypeOK'
      BY <2>1 DEF Inv, TypeOK
    <2> QED
      BY <2>1, <2>2, <2>3, PassStep
  <1>2. CASE AccessLogger
    <2>1. /\ Calls("AccessLogger") /\ around' = <<"AccessLogger">> \o around
          /\ UNCHANGED <<going, status, req, headers, principal, handled, log>>
      BY <1>2 DEF AccessLogger, Wrapper, Wraps
    <2>2. /\ going = "in" /\ handled = FALSE /\ ~Redirected(req)
          /\ chain' = FromRecovery(req) /\ around = << >> /\ headers = {"X-Request-ID"}
      <3>1. Where("AccessLogger")
        BY <2>1, Called
      <3> QED
        BY <3>1 DEF Where
    <2>3. around' = <<"AccessLogger">>
      BY <2>1, <2>2
    <2>4. TypeOK'
      BY <2>1 DEF Inv, TypeOK
    <2> QED
      BY <2>1, <2>2, <2>3, <2>4, PassStep
  <1>3. CASE Recovery
    <2>1. /\ Calls("Recovery") /\ around' = <<"Recovery">> \o around
          /\ UNCHANGED <<going, status, req, headers, principal, handled, log>>
      BY <1>3 DEF Recovery, Wrapper, Wraps
    <2>2. /\ going = "in" /\ handled = FALSE /\ ~Redirected(req)
          /\ chain' = FromCORS(req) /\ around = <<"AccessLogger">> /\ headers = {"X-Request-ID"}
      <3>1. Where("Recovery")
        BY <2>1, Called
      <3> QED
        BY <3>1 DEF Where
    <2>3. around' = Both
      <3>1. "Recovery" \in Names /\ "AccessLogger" \in Names
        BY DEF Names
      <3>2. <<"Recovery">> \o <<"AccessLogger">> = Both
        BY <3>1, TwoOf DEF Both
      <3> QED
        BY <2>1, <2>2, <3>2
    <2>4. TypeOK'
      BY <2>1 DEF Inv, TypeOK
    <2> QED
      BY <2>1, <2>2, <2>3, <2>4, PassStep
  <1> QED
    BY <1>1, <1>2, <1>3

\* CORS sets its headers before it lets a request pass or answers a preflight.
LEMMA CORSStep ==
    ASSUME Inv, CORS
    PROVE  Inv'
  <1>1. /\ Calls("CORS")
        /\ headers' = IF req.origin = "allowed" THEN headers \cup {"CORS"} ELSE headers
        /\ \/ going' = going /\ around' = around /\ status' = status
           \/ going' = "out" /\ around' = around /\ status' = 204
        /\ UNCHANGED <<req, principal, handled, log>>
    BY DEF CORS, Passes, Aborts
  <1>2. /\ going = "in" /\ handled = FALSE /\ ~Redirected(req)
        /\ chain' = FromLimit(req) /\ around = Both /\ headers = {"X-Request-ID"}
    <2>1. Where("CORS")
      BY <1>1, Called
    <2> QED
      BY <2>1 DEF Where
  <1>3. headers' = Named(req)
    BY <1>1, <1>2 DEF Named
  <1>4. TypeOK'
    <2>1. status' \in Codes \cup {0} /\ (going' \in {"out", "done"} => status' # 0)
      <3>1. status \in Codes \cup {0}
        BY DEF Inv, TypeOK
      <3> QED
        BY <1>1, <1>2, <3>1, CodeFacts
    <2>2. going' \in {"in", "out", "panic", "done", "cut"}
      BY <1>1, <1>2
    <2>3. headers' \in SUBSET {"X-Request-ID", "CORS"}
      BY <1>3 DEF Named
    <2> QED
      BY <1>1, <2>1, <2>2, <2>3 DEF Inv, TypeOK
  <1> QED
    BY <1>1, <1>2, <1>3, <1>4, PassStep, TurnStep

\* BodyLimit lets a request pass or refuses it, with the headers of CORS.
LEMMA BodyLimitStep ==
    ASSUME Inv, BodyLimit
    PROVE  Inv'
  <1>1. /\ Calls("BodyLimit")
        /\ \/ going' = going /\ around' = around /\ status' = status
           \/ going' = "out" /\ around' = around /\ status' = 413
        /\ UNCHANGED <<req, headers, principal, handled, log>>
    BY DEF BodyLimit, Passes, Aborts
  <1>2. /\ going = "in" /\ handled = FALSE /\ ~Redirected(req)
        /\ chain' = Behind(req) /\ around = Both /\ headers = Named(req)
    <2>1. Where("BodyLimit")
      BY <1>1, Called
    <2> QED
      BY <2>1 DEF Where
  <1>3. TypeOK'
    <2>1. status' \in Codes \cup {0} /\ (going' \in {"out", "done"} => status' # 0)
      <3>1. status \in Codes \cup {0}
        BY DEF Inv, TypeOK
      <3> QED
        BY <1>1, <1>2, <3>1, CodeFacts
    <2>2. going' \in {"in", "out", "panic", "done", "cut"}
      BY <1>1, <1>2
    <2> QED
      BY <1>1, <2>1, <2>2 DEF Inv, TypeOK
  <1> QED
    BY <1>1, <1>2, <1>3, PassStep, TurnStep

\* RequireAllowedOrigin lets pass only whom Refresh and Logout are meant for.
LEMMA OriginStep ==
    ASSUME Inv, RequireAllowedOrigin
    PROVE  Inv'
  <1>1. /\ Calls("RequireAllowedOrigin")
        /\ \/ /\ req.origin \in {"", "allowed"}
              /\ going' = going /\ around' = around /\ status' = status
           \/ going' = "out" /\ around' = around /\ status' = 403
        /\ UNCHANGED <<req, headers, principal, handled, log>>
    BY DEF RequireAllowedOrigin, Passes, Aborts
  <1>2. /\ going = "in" /\ handled = FALSE /\ ~Redirected(req)
        /\ chain' = <<"Handler">> /\ around = Both /\ headers = Named(req)
        /\ req.path \in {"refresh", "logout"} /\ req.method = "routed"
    <2>1. Where("RequireAllowedOrigin")
      BY <1>1, Called
    <2> QED
      BY <2>1 DEF Where
  <1>3. TypeOK'
    <2>1. status' \in Codes \cup {0} /\ (going' \in {"out", "done"} => status' # 0)
      <3>1. status \in Codes \cup {0}
        BY DEF Inv, TypeOK
      <3>2. \/ going' = "in" /\ status' = status
            \/ going' = "out" /\ status' = 403
        BY <1>1, <1>2
      <3> QED
        BY <3>1, <3>2, CodeFacts
    <2>2. going' \in {"in", "out", "panic", "done", "cut"}
      BY <1>1, <1>2
    <2> QED
      BY <1>1, <2>1, <2>2 DEF Inv, TypeOK
  <1>4. going' = "in" => Admitted'
    BY <1>1, <1>2 DEF Admitted
  <1> QED
    BY <1>1, <1>2, <1>3, <1>4, PassStep, TurnStep

\* Required lets pass only whom the route's roles name.
LEMMA RequiredStep ==
    ASSUME Inv, Required
    PROVE  Inv'
  <1>1. /\ Calls("Required")
        /\ \/ /\ req.bearer \in RolesOf(req.path) /\ principal' = req.bearer
              /\ going' = going /\ around' = around /\ status' = status
           \/ /\ going' = "out" /\ around' = around /\ status' \in {401, 403, 503}
              /\ principal' = principal
        /\ UNCHANGED <<req, headers, handled, log>>
    BY DEF Required, Passes, Aborts
  <1>2. /\ going = "in" /\ handled = FALSE /\ ~Redirected(req)
        /\ chain' = <<"Handler">> /\ around = Both /\ headers = Named(req)
        /\ req.path \in {"me", "users", "usersBody"} /\ req.method = "routed"
    <2>1. Where("Required")
      BY <1>1, Called
    <2> QED
      BY <2>1 DEF Where
  <1>3. TypeOK'
    <2>1. status' \in Codes \cup {0} /\ (going' \in {"out", "done"} => status' # 0)
      <3>1. status \in Codes \cup {0}
        BY DEF Inv, TypeOK
      <3> QED
        BY <1>1, <1>2, <3>1, CodeFacts
    <2>2. going' \in {"in", "out", "panic", "done", "cut"}
      BY <1>1, <1>2
    <2>3. principal' \in {""} \cup Roles
      BY <1>1 DEF Inv, TypeOK, RolesOf, Roles
    <2> QED
      BY <1>1, <2>1, <2>2, <2>3 DEF Inv, TypeOK
  <1>4. going' = "in" => Admitted'
    BY <1>1, <1>2 DEF Admitted, RolesOf, Roles
  <1> QED
    BY <1>1, <1>2, <1>3, <1>4, PassStep, TurnStep

\* The route's handler answers or panics; it was meant to be called.
LEMMA HandlerStep ==
    ASSUME Inv, Handler
    PROVE  Inv'
  <1>0. Admitted
    <2>1. Calls("Handler")
      BY DEF Handler
    <2>2. Where("Handler")
      BY <2>1, Called
    <2> QED
      BY <2>2 DEF Where
  <1>1. /\ Calls("Handler") /\ handled' = TRUE /\ around' = around
        /\ \/ /\ going' = "out"
              /\ status' \in Codes /\ status' # 0
           \/ going' = "panic" /\ status' \in Codes \cup {0}
        /\ UNCHANGED <<req, headers, principal, log>>
    <2>1. Answers[req.path] \subseteq Codes
      BY <1>0, AnswerCodes DEF Inv, TypeOK, Admitted
    <2> DEFINE codes == Answers[req.path] \cup IF MeetsLimit THEN {413} ELSE {}
    <2>2. codes \subseteq Codes
      BY <2>1, CodeFacts
    <2> HIDE DEF codes
    <2>3. /\ Calls("Handler") /\ handled' = TRUE
          /\ \/ \E code \in codes : Aborts(code)
             \/ going' = "panic" /\ status' \in codes \cup {0} /\ UNCHANGED around
          /\ UNCHANGED <<req, headers, principal, log>>
      BY DEF Handler, codes
    <2> QED
      BY <2>2, <2>3, CodeFacts DEF Aborts
  <1>2. /\ going = "in" /\ ~Redirected(req) /\ around = Both /\ headers = Named(req)
        /\ Admitted
    <2>1. Where("Handler")
      BY <1>1, Called
    <2> QED
      BY <2>1 DEF Where
  <1>3. TypeOK'
    <2>1. status' \in Codes \cup {0} /\ (going' \in {"out", "done"} => status' # 0)
      BY <1>1, CodeFacts
    <2>2. going' \in {"in", "out", "panic", "done", "cut"}
      BY <1>1
    <2> QED
      BY <1>1, <2>1, <2>2 DEF Inv, TypeOK
  <1>4. Admitted'
    BY <1>1, <1>2 DEF Admitted
  <1> QED
    BY <1>1, <1>2, <1>3, <1>4, TurnStep

\* Where no handler matches, and where Gin redirects.
LEMMA FallbackStep ==
    ASSUME Inv, NoRoute \/ NoMethod \/ Redirect
    PROVE  Inv'
  <1>1. PICK h \in {"NoRoute", "NoMethod", "Redirect"} :
           /\ Calls(h) /\ going' = "out" /\ around' = around
           /\ status' \in {301, 307, 404, 405}
           /\ UNCHANGED <<req, headers, principal, handled, log>>
    BY DEF NoRoute, NoMethod, Redirect, Fallback, Aborts
  <1>2. /\ going = "in" /\ handled = FALSE
        /\ \/ ~Redirected(req) /\ around = Both /\ headers = Named(req)
           \/ Redirected(req) /\ around = << >>
    <2>1. Where(h)
      BY <1>1, Called
    <2> QED
      BY <1>1, <2>1 DEF Where
  <1>3. TypeOK'
    <2>1. status' \in Codes \cup {0} /\ status' # 0
      BY <1>1, CodeFacts
    <2> QED
      BY <1>1, <2>1 DEF Inv, TypeOK
  <1> QED
    BY <1>1, <1>2, <1>3, TurnStep

-----------------------------------------------------------------------------
(***************************************************************************)
(* Steps on the way out.                                                   *)
(***************************************************************************)
\* A panic ends at Recovery, inside of the access log.
LEMMA LeaveRecoveryStep ==
    ASSUME Inv, LeaveRecovery
    PROVE  Inv'
  <1>1. /\ going \in {"out", "panic"} /\ around # << >> /\ Head(around) = "Recovery"
        /\ around' = Tail(around) /\ going' = "out"
        /\ log' = IF going = "panic" THEN log \cup {"panic"} ELSE log
        /\ status' = IF going = "panic" /\ status = 0 THEN 500 ELSE status
        /\ UNCHANGED <<req, chain, headers, principal, handled>>
    BY DEF LeaveRecovery, Leaves
  <1>2. Head(<<"AccessLogger">>) = "AccessLogger" /\ Tail(Both) = <<"AccessLogger">>
    BY DEF Both
  <1>3. ~Redirected(req) /\ headers = Named(req) /\ around' = <<"AccessLogger">>
    BY <1>1, <1>2 DEF Inv, WayOutInv
  <1>4. TypeOK'
    <2>1. status' \in Codes \cup {0} /\ status' # 0
      <3>1. status \in Codes \cup {0} /\ (going = "out" => status # 0)
        BY DEF Inv, TypeOK
      <3> QED
        BY <1>1, <3>1, CodeFacts
    <2>2. log' \in SUBSET {"access", "panic"}
      BY <1>1 DEF Inv, TypeOK
    <2> QED
      BY <1>1, <2>1, <2>2 DEF Inv, TypeOK
  <1>5. WayOutInv'
    BY <1>1, <1>3 DEF WayOutInv, Redirected, Named
  <1>6. InInv' /\ EndInv' /\ HandledOnlyIfMeant'
    BY <1>1 DEF Inv, InInv, EndInv, HandledOnlyIfMeant
  <1> QED
    BY <1>4, <1>5, <1>6 DEF Inv

\* The access log writes its line after every handler inside of it.
LEMMA LeaveLoggerStep ==
    ASSUME Inv, LeaveAccessLogger
    PROVE  Inv'
  <1>1. /\ going \in {"out", "panic"} /\ around # << >> /\ Head(around) = "AccessLogger"
        /\ around' = Tail(around)
        /\ log' = IF going = "panic" \/ (req.path \in Probes /\ status < 500)
                  THEN log ELSE log \cup {"access"}
        /\ UNCHANGED <<req, chain, going, status, headers, principal, handled>>
    BY DEF LeaveAccessLogger, Leaves
  <1>2. Head(Both) = "Recovery" /\ Tail(<<"AccessLogger">>) = << >>
    BY DEF Both
  <1>3. going = "out" /\ ~Redirected(req) /\ headers = Named(req) /\ around' = << >>
    BY <1>1, <1>2 DEF Inv, WayOutInv
  <1>4. TypeOK'
    <2>1. log' \in SUBSET {"access", "panic"}
      BY <1>1 DEF Inv, TypeOK
    <2> QED
      BY <1>1, <2>1 DEF Inv, TypeOK
  <1>5. Logged'
    BY <1>1, <1>3 DEF Logged
  <1>6. WayOutInv'
    BY <1>1, <1>3, <1>5 DEF WayOutInv, Redirected, Named
  <1>7. InInv' /\ EndInv' /\ HandledOnlyIfMeant'
    BY <1>1, <1>3 DEF Inv, InInv, EndInv, HandledOnlyIfMeant
  <1> QED
    BY <1>4, <1>6, <1>7 DEF Inv

\* Once nothing is around it, the request is through Recovery and the access log.
LEMMA FinishStep ==
    ASSUME Inv, Finish
    PROVE  Inv'
  <1>1. /\ going \in {"out", "panic"} /\ around = << >>
        /\ going' = IF going = "panic" THEN "cut" ELSE "done"
        /\ UNCHANGED <<req, chain, around, status, headers, principal, handled, log>>
    BY DEF Finish
  <1>2. Both # << >> /\ <<"AccessLogger">> # << >>
    BY DEF Both
  <1>3. going = "out" /\ (Redirected(req) \/ (headers = Named(req) /\ Logged))
    BY <1>1, <1>2 DEF Inv, WayOutInv
  <1>4. TypeOK'
    BY <1>1, <1>3 DEF Inv, TypeOK
  <1>5. EndInv'
    BY <1>1, <1>3 DEF EndInv, Redirected, Named, Logged
  <1>6. InInv' /\ WayOutInv' /\ HandledOnlyIfMeant'
    BY <1>1, <1>3 DEF Inv, InInv, WayOutInv, HandledOnlyIfMeant
  <1> QED
    BY <1>4, <1>5, <1>6 DEF Inv

-----------------------------------------------------------------------------
(***************************************************************************)
(* The theorems.                                                           *)
(***************************************************************************)
\* Every step keeps the invariant.
LEMMA InvStep == Inv /\ [Next]_vars => Inv'
  <1> SUFFICES ASSUME Inv, [Next]_vars PROVE Inv'
    OBVIOUS
  <1>1. CASE RequestID \/ AccessLogger \/ Recovery
    BY <1>1, OuterStep
  <1>2. CASE CORS
    BY <1>2, CORSStep
  <1>3. CASE BodyLimit
    BY <1>3, BodyLimitStep
  <1>4. CASE RequireAllowedOrigin
    BY <1>4, OriginStep
  <1>5. CASE Required
    BY <1>5, RequiredStep
  <1>6. CASE Handler
    BY <1>6, HandlerStep
  <1>7. CASE NoRoute \/ NoMethod \/ Redirect
    BY <1>7, FallbackStep
  <1>8. CASE LeaveRecovery
    BY <1>8, LeaveRecoveryStep
  <1>9. CASE LeaveAccessLogger
    BY <1>9, LeaveLoggerStep
  <1>10. CASE Finish
    BY <1>10, FinishStep
  <1>11. CASE UNCHANGED vars
    <2>1. /\ req' = req /\ chain' = chain /\ around' = around /\ going' = going
          /\ status' = status /\ headers' = headers /\ principal' = principal
          /\ handled' = handled /\ log' = log
      BY <1>11 DEF vars
    <2>2. TypeOK'
      BY <2>1 DEF Inv, TypeOK
    <2>3. InInv'
      BY <2>1 DEF Inv, InInv, Admitted
    <2>4. WayOutInv' /\ EndInv'
      BY <2>1 DEF Inv, WayOutInv, EndInv, Logged
    <2>5. HandledOnlyIfMeant'
      BY <2>1 DEF Inv, HandledOnlyIfMeant
    <2> QED
      BY <2>2, <2>3, <2>4, <2>5 DEF Inv
  <1> QED
    BY <1>1, <1>2, <1>3, <1>4, <1>5, <1>6, <1>7, <1>8, <1>9, <1>10, <1>11 DEF Next

\* The invariant always holds.
LEMMA Invariance == Spec => []Inv
  BY InvInit, InvStep, PTL DEF Spec

\* Every variable keeps its shape, and an answer has a status.
THEOREM TypeCorrect == Spec => []TypeOK
  <1>1. Inv => TypeOK
    BY DEF Inv
  <1> QED
    BY <1>1, Invariance, PTL

\* Every request, refused, answered or in a panic, ends with its request id and a
\* line in the log.
THEOREM Traced == Spec => []EveryEndIsTraced
  BY InvImplies, Invariance, PTL

\* Every answer to an allowed origin, and to no other, has the CORS headers.
THEOREM Readable == Spec => []FrontEndReadsEveryAnswer
  BY InvImplies, Invariance, PTL

\* No handler runs for a request that the guards of its route refuse.
THEOREM Guarded == Spec => []HandledOnlyIfMeant
  <1>1. Inv => HandledOnlyIfMeant
    BY DEF Inv
  <1> QED
    BY <1>1, Invariance, PTL
=============================================================================
