------------------------------- MODULE Captcha -------------------------------
(***************************************************************************)
(* The captcha that precedes a login: RedisCaptchaStore (internal/data/    *)
(* captcha.go) and its callers AuthService.Captcha and                     *)
(* consumeLoginCaptcha.  Redis holds, under the one prefix "captcha:v1:",  *)
(*   {uuid}    the expected answer of a captcha        captcha[id]         *)
(*   ip:{ip}   the captchas this IP has asked for      counter[ip]         *)
(* Times are what is left of a key's life, in ticks.  A script is one      *)
(* step.  When its reply is lost the client library runs it again.         *)
(***************************************************************************)
EXTENDS Integers

CONSTANTS
    Ids,        \* captcha ids (uuid.NewString: never repeated)
    Ips,        \* client IPs
    Answers,    \* answers as NormalizeCaptcha leaves them
    Calls,      \* captcha requests in progress
    None,
    Limit,      \* issue_limit_per_minute
    Window,     \* ticks in a minute
    TTL         \* ticks in the life of a captcha

\* config.Validate: the issue limit and the lifetime are positive.
ASSUME LimitAssumption ==
    /\ Limit \in Nat \ {0}
    /\ Window \in Nat \ {0}
    /\ TTL \in Nat \ {0}

\* No IP reads as a UUID.
ASSUME NameAssumption == Ids \cap Ips = {}

\* The names a login may give as captcha_id: an id, or a string that would
\* complete the prefix to a counter's key.
Names == Ids \cup Ips

VARIABLES
    captcha,    \* captcha[id]: [answer, left], or None
    counter,    \* counter[ip]: [n, left]; n = 0 if there is no key
    call,       \* call[c]: "idle", or "put" once a captcha has been allowed
    drawn,      \* ids given out so far
    spent,      \* ids given out that a login has sent to Consume
    passes,     \* passes[id]: logins that id has let through
    recent      \* recent[ip][k]: captchas allowed to ip in this tick and the
                \* k ticks before it

redis == <<captcha, counter>>
history == <<drawn, spent, passes, recent>>
vars == <<redis, call, history>>

NoCounter == [n |-> 0, left |-> 0]

Init ==
    /\ captcha = [id \in Ids |-> None]
    /\ counter = [ip \in Ips |-> NoCounter]
    /\ call = [c \in Calls |-> "idle"]
    /\ drawn = {}
    /\ spent = {}
    /\ passes = [id \in Ids |-> 0]
    /\ recent = [ip \in Ips |-> [k \in 0..(Window - 1) |-> 0]]

-----------------------------------------------------------------------------
\* Mutant of Incremented: EXPIRE with every INCR.
IncrementedProlongs(k) ==
    [n |-> IF k.n > Limit THEN k.n ELSE k.n + 1, left |-> Window]

\* issueCaptchaScript: INCR, and EXPIRE if this made the key.  AllowIssue only
\* compares the result with the limit, so that the model stops counting at
\* Limit + 1.
Incremented(k) ==
    [n    |-> IF k.n > Limit THEN k.n ELSE k.n + 1,
     left |-> IF k.n = 0 THEN Window ELSE k.left]

\* AllowIssue: the request that makes the count n is let in.
Allows(n) == n <= Limit

OneMore(f) == [k \in 0..(Window - 1) |-> f[k] + 1]

\* Captcha asks AllowIssue; a request that is not let in ends with 429.
IssueCaptcha(c, ip) ==
    LET allowed == Allows(Incremented(counter[ip]).n)
    IN  /\ call[c] = "idle"
        /\ counter' = [counter EXCEPT ![ip] = Incremented(@)]
        /\ call' = [call EXCEPT ![c] = IF allowed THEN "put" ELSE "idle"]
        /\ recent' = IF allowed THEN [recent EXCEPT ![ip] = OneMore(@)] ELSE recent
        /\ UNCHANGED <<captcha, drawn, spent, passes>>

\* The script has run but its reply is lost; it will be run again.
IssueReplyLost(ip) ==
    /\ counter' = [counter EXCEPT ![ip] = Incremented(@)]
    /\ UNCHANGED <<captcha, call, history>>

\* Mutant of Put: the answer is stored as the image shows it, not normalised.
PutAsShown(c, id, a) ==
    /\ call[c] = "put"
    /\ id \notin drawn
    /\ captcha' = [captcha EXCEPT ![id] = [answer |-> <<"shown", a>>, left |-> TTL]]
    /\ drawn' = drawn \cup {id}
    /\ call' = [call EXCEPT ![c] = "idle"]
    /\ UNCHANGED <<counter, spent, passes, recent>>

\* Generate and Put.
Put(c, id, a) ==
    /\ call[c] = "put"
    /\ id \notin drawn
    /\ captcha' = [captcha EXCEPT ![id] = [answer |-> a, left |-> TTL]]
    /\ drawn' = drawn \cup {id}
    /\ call' = [call EXCEPT ![c] = "idle"]
    /\ UNCHANGED <<counter, spent, passes, recent>>

\* Generate or Put fails, or the process stops: no captcha, but the IP has
\* been charged for it.
CaptchaFails(c) ==
    /\ call[c] = "put"
    /\ call' = [call EXCEPT ![c] = "idle"]
    /\ UNCHANGED <<redis, history>>

-----------------------------------------------------------------------------
\* Mutant of IsCaptchaID: captcha_id is put behind the prefix as it comes.
AnyName(name) == name \in Names

\* uuid.Parse accepts the name and prints it again unchanged.
IsCaptchaID(name) == name \in Ids

\* Mutant of ConsumeScript: GET without DEL.
ConsumeScriptKeeps(name) == name \in Names /\ UNCHANGED redis

\* consumeCaptchaScript: whatever is under the key is read and deleted.
ConsumeScript(name) ==
    /\ captcha' = [id \in Ids |-> IF id = name THEN None ELSE captcha[id]]
    /\ counter' = [ip \in Ips |-> IF ip = name THEN NoCounter ELSE counter[ip]]

\* What Consume answers: an answer was stored and it is the one given.
Consumes(id, a) == captcha[id] # None /\ captcha[id].answer = a

\* A login whose body binds and whose answer is neither empty nor too long; any
\* other is turned away before Consume and changes nothing.  A second run of
\* the script, after a lost reply, finds nothing: the login then fails.
Login(name, a, lost) ==
    /\ IsCaptchaID(name)
    /\ ConsumeScript(name)
    /\ spent' = spent \cup ({name} \cap drawn)
    /\ passes' = [id \in Ids |->
                    IF id = name /\ Consumes(id, a) /\ ~lost
                    THEN passes[id] + 1 ELSE passes[id]]
    /\ UNCHANGED <<call, drawn, recent>>

-----------------------------------------------------------------------------
Older(f) == [k \in 0..(Window - 1) |-> IF k = 0 THEN 0 ELSE f[k - 1]]

Tick ==
    /\ captcha' = [id \in Ids |->
                     IF captcha[id] = None \/ captcha[id].left = 1 THEN None
                     ELSE [captcha[id] EXCEPT !.left = @ - 1]]
    /\ counter' = [ip \in Ips |->
                     IF counter[ip].left <= 1 THEN NoCounter
                     ELSE [counter[ip] EXCEPT !.left = @ - 1]]
    /\ recent' = [ip \in Ips |-> Older(recent[ip])]
    /\ UNCHANGED <<call, drawn, spent, passes>>

Next ==
    \/ \E c \in Calls, ip \in Ips : IssueCaptcha(c, ip)
    \/ \E ip \in Ips : IssueReplyLost(ip)
    \/ \E c \in Calls, id \in Ids, a \in Answers : Put(c, id, a)
    \/ \E c \in Calls : CaptchaFails(c)
    \/ \E name \in Names, a \in Answers, lost \in BOOLEAN : Login(name, a, lost)
    \/ Tick

\* Time goes on.
Spec == Init /\ [][Next]_vars /\ WF_vars(Tick)

-----------------------------------------------------------------------------
(***************************************************************************)
(* Properties.                                                             *)
(***************************************************************************)
\* Captchas, counters and histories hold values of their shape.
TypeOK ==
    /\ captcha \in [Ids -> [answer : Answers, left : 1..TTL] \cup {None}]
    /\ counter \in [Ips -> [n : 0..(Limit + 1), left : 0..Window]]
    /\ call \in [Calls -> {"idle", "put"}]
    /\ drawn \in SUBSET Ids
    /\ spent \in SUBSET Ids
    /\ passes \in [Ids -> Nat]
    /\ recent \in [Ips -> [0..(Window - 1) -> Nat]]

\* A captcha lets at most one login through, and none after an answer has been
\* tried, right or wrong, whether or not the reply arrived
\* (consumeCaptchaScript).
OneTime ==
    \A id \in Ids : passes[id] <= 1 /\ (id \in spent => captcha[id] = None)

\* What ip was allowed in the last minute.
Allowed(ip) == recent[ip][Window - 1]

\* An IP gets at most twice the limit in any minute, however its requests fall
\* on the fixed windows of AllowIssue, whatever replies are lost, and whatever
\* names logins give as captcha_id (consumeLoginCaptcha keeps the counters out
\* of Consume's reach).
AtMostTwiceTheLimit == \A ip \in Ips : Allowed(ip) <= 2 * Limit

Limited(ip) == counter[ip].n > Limit

\* An IP that is over the limit is let in again, even if it never stops asking:
\* only the request that makes the counter sets its expiry.
LimitedIsReleased == \A ip \in Ips : Limited(ip) ~> ~Limited(ip)
=============================================================================
