---------------------------- MODULE CaptchaProofs ----------------------------
(***************************************************************************)
(* Proofs about Captcha, for any sets of captchas, IPs and calls, and any  *)
(* limit, window and lifetime.                                             *)
(***************************************************************************)
EXTENDS Captcha, TLAPS

USE LimitAssumption

-----------------------------------------------------------------------------
(***************************************************************************)
(* Type correctness.                                                       *)
(***************************************************************************)
\* The script that counts keeps the shape of a counter.
LEMMA IncrementedType ==
    ASSUME NEW k \in [n : 0..(Limit + 1), left : 0..Window]
    PROVE  Incremented(k) \in [n : 0..(Limit + 1), left : 0..Window]
  BY DEF Incremented

\* So do the two operators on the history.
LEMMA HistoryType ==
    ASSUME NEW f \in [0..(Window - 1) -> Nat]
    PROVE  /\ OneMore(f) \in [0..(Window - 1) -> Nat]
           /\ Older(f) \in [0..(Window - 1) -> Nat]
  BY DEF OneMore, Older

\* An empty Redis is well shaped.
LEMMA TypeInit == Init => TypeOK
  BY DEF Init, TypeOK, NoCounter

\* Every step keeps the shapes.
LEMMA TypeNext == TypeOK /\ [Next]_vars => TypeOK'
  <1> SUFFICES ASSUME TypeOK, [Next]_vars PROVE TypeOK'
    OBVIOUS
  <1>1. ASSUME NEW c \in Calls, NEW ip \in Ips, IssueCaptcha(c, ip)
        PROVE  TypeOK'
    <2>1. counter' \in [Ips -> [n : 0..(Limit + 1), left : 0..Window]]
      BY <1>1, IncrementedType DEF IssueCaptcha, TypeOK
    <2>2. recent' \in [Ips -> [0..(Window - 1) -> Nat]]
      BY <1>1, HistoryType DEF IssueCaptcha, TypeOK
    <2>3. call' \in [Calls -> {"idle", "put"}]
      BY <1>1 DEF IssueCaptcha, TypeOK
    <2> QED
      BY <1>1, <2>1, <2>2, <2>3 DEF IssueCaptcha, TypeOK
  <1>2. ASSUME NEW ip \in Ips, IssueReplyLost(ip)
        PROVE  TypeOK'
    BY <1>2, IncrementedType DEF IssueReplyLost, history, TypeOK
  <1>3. ASSUME NEW c \in Calls, NEW id \in Ids, NEW a \in Answers, Put(c, id, a)
        PROVE  TypeOK'
    BY <1>3 DEF Put, TypeOK
  <1>4. ASSUME NEW c \in Calls, CaptchaFails(c)
        PROVE  TypeOK'
    BY <1>4 DEF CaptchaFails, redis, history, TypeOK
  <1>5. ASSUME NEW name \in Names, NEW a \in Answers, NEW lost \in BOOLEAN, Login(name, a, lost)
        PROVE  TypeOK'
    BY <1>5 DEF Login, ConsumeScript, NoCounter, TypeOK
  <1>6. CASE Tick
    <2>1. captcha' \in [Ids -> [answer : Answers, left : 1..TTL] \cup {None}]
      BY <1>6 DEF Tick, TypeOK
    <2>2. counter' \in [Ips -> [n : 0..(Limit + 1), left : 0..Window]]
      <3> SUFFICES ASSUME NEW ip \in Ips
                   PROVE  (IF counter[ip].left <= 1 THEN NoCounter
                           ELSE [counter[ip] EXCEPT !.left = @ - 1])
                             \in [n : 0..(Limit + 1), left : 0..Window]
        BY <1>6 DEF Tick
      <3>1. counter[ip] \in [n : 0..(Limit + 1), left : 0..Window]
        BY DEF TypeOK
      <3> QED
        BY <3>1 DEF NoCounter
    <2>3. recent' \in [Ips -> [0..(Window - 1) -> Nat]]
      BY <1>6, HistoryType DEF Tick, TypeOK
    <2> QED
      BY <1>6, <2>1, <2>2, <2>3 DEF Tick, TypeOK
  <1>7. CASE UNCHANGED vars
    BY <1>7 DEF vars, redis, history, TypeOK
  <1> QED
    BY <1>1, <1>2, <1>3, <1>4, <1>5, <1>6, <1>7 DEF Next

\* Captchas, counters and histories keep their shape; in particular the script
\* never counts past the first refusal that AllowIssue can tell apart.
THEOREM TypeCorrect == Spec => []TypeOK
  BY TypeInit, TypeNext, PTL DEF Spec

-----------------------------------------------------------------------------
(***************************************************************************)
(* One login per captcha.                                                  *)
(***************************************************************************)
\* A captcha that is stored was given out and has not been tried; one that has
\* let a login through has been tried.
OnceInv ==
    /\ TypeOK
    /\ spent \subseteq drawn
    /\ \A id \in Ids : captcha[id] # None =>
          id \in drawn /\ id \notin spent /\ passes[id] = 0
    /\ \A id \in Ids : passes[id] <= 1 /\ (passes[id] = 1 => id \in spent)

\* Every step keeps the invariant: Put writes a new id, Login deletes what it
\* reads, and expiry only removes.
LEMMA OnceNext == OnceInv /\ [Next]_vars => OnceInv'
  <1> SUFFICES ASSUME OnceInv, [Next]_vars PROVE OnceInv'
    OBVIOUS
  <1> TypeOK'
    BY TypeNext DEF OnceInv
  <1> USE DEF OnceInv, TypeOK
  <1>1. ASSUME NEW c \in Calls, NEW id \in Ids, NEW a \in Answers, Put(c, id, a)
        PROVE  OnceInv'
    <2>1. id \notin spent /\ passes[id] = 0
      BY <1>1 DEF Put
    <2> QED
      BY <1>1, <2>1 DEF Put
  <1>2. ASSUME NEW name \in Names, NEW a \in Answers, NEW lost \in BOOLEAN, Login(name, a, lost)
        PROVE  OnceInv'
    <2>1. name \in Ids
      BY <1>2 DEF Login, IsCaptchaID
    <2>2. \A id \in Ids : captcha'[id] = IF id = name THEN None ELSE captcha[id]
      BY <1>2 DEF Login, ConsumeScript
    <2>3. spent' = spent \cup ({name} \cap drawn) /\ drawn' = drawn
      BY <1>2 DEF Login
    <2>4. \A id \in Ids :
             \/ passes'[id] = passes[id]
             \/ id = name /\ captcha[id] # None /\ passes'[id] = passes[id] + 1
      BY <1>2 DEF Login, Consumes
    <2>5. \A id \in Ids : captcha'[id] # None =>
             id # name /\ captcha[id] # None /\ passes'[id] = passes[id]
      BY <2>2, <2>4
    <2>6. ASSUME NEW id \in Ids
          PROVE  passes'[id] <= 1 /\ (passes'[id] = 1 => id \in spent')
      <3>1. passes[id] \in Nat
        OBVIOUS
      <3>2. CASE passes'[id] = passes[id]
        BY <2>3, <3>1, <3>2
      <3>3. CASE id = name /\ captcha[id] # None /\ passes'[id] = passes[id] + 1
        BY <2>3, <3>3
      <3> QED
        BY <2>4, <3>2, <3>3
    <2> QED
      BY <2>1, <2>3, <2>5, <2>6
  <1>3. CASE Tick
    <2>1. \A id \in Ids : captcha[id] = None => captcha'[id] = None
      BY <1>3 DEF Tick
    <2> QED
      BY <1>3, <2>1 DEF Tick
  <1>4. CASE UNCHANGED <<captcha, drawn, spent, passes>>
    BY <1>4
  <1> HIDE DEF OnceInv, TypeOK
  <1> QED
    BY <1>1, <1>2, <1>3, <1>4
       DEF Next, IssueCaptcha, IssueReplyLost, CaptchaFails, vars, redis, history

\* A captcha lets at most one login through, and none once it has been tried,
\* for any number of concurrent logins and lost replies.
THEOREM CaptchaOnce == Spec => []OneTime
  <1>1. Init => OnceInv
    BY TypeInit DEF Init, OnceInv
  <1>2. OnceInv => OneTime
    BY DEF OnceInv, OneTime
  <1> QED
    BY <1>1, <1>2, OnceNext, PTL DEF Spec

-----------------------------------------------------------------------------
(***************************************************************************)
(* The issue limit.  A minute meets at most two windows of the counter,    *)
(* the one that is open now and the one before it.                         *)
(***************************************************************************)
Counters == [n : 0..(Limit + 1), left : 0..Window]
Histories == [0..(Window - 1) -> Nat]

\* Captchas that the window of counter k can have been charged for.
Charged(k) == IF k.n > Limit THEN Limit ELSE k.n

\* A counter that is there has been so for Window - left ticks, and all that the
\* history f has since then is charged to it.  The window before it allowed at
\* most Limit, and without a counter nothing was allowed in this tick.
Accounted(k, f) ==
    /\ k.n = 0 <=> k.left = 0
    /\ k.n = 0 => f[0] = 0
    /\ \A i \in 0..(Window - 1) : f[i] <= Limit + Charged(k)
    /\ k.n # 0 => \A i \in 0..(Window - 1) : i <= Window - k.left => f[i] <= Charged(k)

\* What a counter is charged for is a number up to the limit.
LEMMA ChargedType ==
    ASSUME NEW k \in Counters
    PROVE  Charged(k) \in 0..Limit
  BY DEF Counters, Charged

\* Counting one more request, allowed or not, keeps the account.
LEMMA CountingStep ==
    ASSUME NEW k \in Counters, NEW f \in Histories, Accounted(k, f)
    PROVE  /\ Accounted(Incremented(k), f)
           /\ Allows(Incremented(k).n) => Accounted(Incremented(k), OneMore(f))
  <1> DEFINE m == Incremented(k)
  <1>0. k.n \in 0..(Limit + 1) /\ k.left \in 0..Window
    BY DEF Counters
  <1>1. /\ m.n = IF k.n > Limit THEN k.n ELSE k.n + 1
        /\ m.left = IF k.n = 0 THEN Window ELSE k.left
    BY DEF Incremented
  <1>2. Charged(m) \in 0..Limit /\ Charged(k) \in 0..Limit
    BY <1>0, <1>1 DEF Charged
  <1>3. Charged(m) >= Charged(k) /\ (m.n <= Limit => Charged(m) = Charged(k) + 1)
    BY <1>0, <1>1 DEF Charged
  <1>4. m.n # 0 /\ m.left # 0
    BY <1>0, <1>1 DEF Accounted
  <1>5. \A i \in 0..(Window - 1) :
           /\ f[i] \in Nat
           /\ f[i] <= Limit + Charged(k)
           /\ i <= Window - m.left => f[i] <= Charged(k)
    <2>1. CASE k.n = 0
      BY <1>0, <1>1, <1>2, <2>1 DEF Accounted, Histories
    <2>2. CASE k.n # 0
      BY <1>0, <1>1, <2>2 DEF Accounted, Histories
    <2> QED
      BY <2>1, <2>2
  <1> HIDE DEF m
  <1>6. Accounted(m, f)
    <2>1. \A i \in 0..(Window - 1) :
             f[i] <= Limit + Charged(m) /\ (i <= Window - m.left => f[i] <= Charged(m))
      BY <1>2, <1>3, <1>5
    <2> QED
      BY <1>4, <2>1 DEF Accounted
  <1>7. ASSUME m.n <= Limit
        PROVE  Accounted(m, OneMore(f))
    <2>1. \A i \in 0..(Window - 1) : OneMore(f)[i] = f[i] + 1
      BY DEF OneMore
    <2>2. Charged(m) = Charged(k) + 1
      BY <1>3, <1>7
    <2>3. \A i \in 0..(Window - 1) :
             /\ OneMore(f)[i] <= Limit + Charged(m)
             /\ i <= Window - m.left => OneMore(f)[i] <= Charged(m)
      BY <1>2, <1>5, <2>1, <2>2
    <2> QED
      BY <1>4, <2>3 DEF Accounted
  <1> QED
    BY <1>6, <1>7 DEF Allows, m

\* The counter a tick later.
Aged(k) == IF k.left <= 1 THEN NoCounter ELSE [k EXCEPT !.left = @ - 1]

\* A tick moves every captcha back by one; a counter that ends takes with it all
\* that was allowed before it.
LEMMA AgeingStep ==
    ASSUME NEW k \in Counters, NEW f \in Histories, Accounted(k, f)
    PROVE  Accounted(Aged(k), Older(f))
  <1>0. k.n \in 0..(Limit + 1) /\ k.left \in 0..Window /\ Charged(k) \in 0..Limit
    BY ChargedType DEF Counters
  <1>1. Older(f)[0] = 0 /\ \A i \in 1..(Window - 1) : Older(f)[i] = f[i - 1]
    BY DEF Older
  <1>2. \A i \in 1..(Window - 1) : i - 1 \in 0..(Window - 1) /\ f[i - 1] \in Nat
    BY DEF Histories
  <1>3. CASE k.left <= 1
    <2>1. Aged(k) = NoCounter /\ Charged(NoCounter) = 0
      BY <1>3 DEF Aged, Charged, NoCounter
    <2>2. ASSUME NEW i \in 1..(Window - 1)
          PROVE  f[i - 1] <= Limit
      <3>1. CASE k.n = 0
        <4>1. Charged(k) = 0 /\ f[i - 1] <= Limit + Charged(k)
          BY <1>2, <3>1 DEF Accounted, Charged
        <4> QED
          BY <1>2, <4>1
      <3>2. CASE k.n # 0
        <4>1. k.left = 1 /\ i - 1 <= Window - k.left
          BY <1>0, <1>3, <3>2 DEF Accounted
        <4>2. f[i - 1] <= Charged(k)
          BY <1>2, <3>2, <4>1 DEF Accounted
        <4> QED
          BY <1>0, <1>2, <4>2
      <3> QED
        BY <3>1, <3>2
    <2>3. \A i \in 0..(Window - 1) : Older(f)[i] <= Limit
      BY <1>1, <2>2
    <2> QED
      BY <1>1, <2>1, <2>3 DEF Accounted, NoCounter
  <1>4. CASE k.left > 1
    <2>1. Aged(k).n = k.n /\ Aged(k).left = k.left - 1
      BY <1>0, <1>4 DEF Aged, Counters
    <2>2. Charged(Aged(k)) = Charged(k) /\ k.n # 0
      BY <1>0, <1>4, <2>1 DEF Charged, Accounted
    <2>3. ASSUME NEW i \in 1..(Window - 1)
          PROVE  /\ f[i - 1] <= Limit + Charged(k)
                 /\ i <= Window - (k.left - 1) => f[i - 1] <= Charged(k)
      <3>1. i <= Window - (k.left - 1) => i - 1 <= Window - k.left
        BY <1>0
      <3> QED
        BY <1>2, <2>2, <3>1 DEF Accounted
    <2>4. \A i \in 0..(Window - 1) :
             /\ Older(f)[i] <= Limit + Charged(k)
             /\ i <= Window - (k.left - 1) => Older(f)[i] <= Charged(k)
      BY <1>0, <1>1, <2>3
    <2> QED
      BY <1>0, <1>4, <2>1, <2>2, <2>4 DEF Accounted
  <1> QED
    BY <1>0, <1>3, <1>4

\* The inductive invariant.
WindowInv == TypeOK /\ \A ip \in Ips : Accounted(counter[ip], recent[ip])

\* Every step keeps the invariant: Login, whatever name it is given, reaches no
\* counter.
LEMMA WindowNext == WindowInv /\ [Next]_vars => WindowInv'
  <1> SUFFICES ASSUME WindowInv, [Next]_vars PROVE WindowInv'
    OBVIOUS
  <1>0. TypeOK'
    BY TypeNext DEF WindowInv
  <1>1. \A ip \in Ips : /\ counter[ip] \in Counters /\ recent[ip] \in Histories
                        /\ Accounted(counter[ip], recent[ip])
    BY DEF WindowInv, TypeOK, Counters, Histories
  <1>2. ASSUME NEW c \in Calls, NEW ip \in Ips, IssueCaptcha(c, ip)
        PROVE  WindowInv'
    <2>1. \A x \in Ips \ {ip} : counter'[x] = counter[x] /\ recent'[x] = recent[x]
      BY <1>2 DEF IssueCaptcha, WindowInv, TypeOK
    <2>2. /\ counter'[ip] = Incremented(counter[ip])
          /\ recent'[ip] = IF Allows(Incremented(counter[ip]).n)
                           THEN OneMore(recent[ip]) ELSE recent[ip]
      BY <1>2 DEF IssueCaptcha, WindowInv, TypeOK
    <2>3. Accounted(counter'[ip], recent'[ip])
      BY <1>1, <2>2, CountingStep
    <2> QED
      BY <1>0, <1>1, <2>1, <2>3 DEF WindowInv
  <1>3. ASSUME NEW ip \in Ips, IssueReplyLost(ip)
        PROVE  WindowInv'
    <2>1. /\ counter'[ip] = Incremented(counter[ip]) /\ recent' = recent
          /\ \A x \in Ips \ {ip} : counter'[x] = counter[x]
      BY <1>3 DEF IssueReplyLost, history, WindowInv, TypeOK
    <2> QED
      BY <1>0, <1>1, <2>1, CountingStep DEF WindowInv
  <1>4. ASSUME NEW name \in Names, NEW a \in Answers, NEW lost \in BOOLEAN, Login(name, a, lost)
        PROVE  WindowInv'
    <2>1. name \notin Ips
      BY <1>4, NameAssumption DEF Login, IsCaptchaID
    <2>2. counter' = counter /\ recent' = recent
      BY <1>4, <2>1 DEF Login, ConsumeScript, WindowInv, TypeOK
    <2> QED
      BY <1>0, <2>2 DEF WindowInv
  <1>5. CASE Tick
    <2>1. \A ip \in Ips : counter'[ip] = Aged(counter[ip]) /\ recent'[ip] = Older(recent[ip])
      BY <1>5 DEF Tick, Aged
    <2> QED
      BY <1>0, <1>1, <2>1, AgeingStep DEF WindowInv
  <1>6. CASE UNCHANGED <<counter, recent>>
    BY <1>0, <1>6 DEF WindowInv
  <1> QED
    BY <1>2, <1>3, <1>4, <1>5, <1>6 DEF Next, Put, CaptchaFails, vars, redis, history

\* An IP gets at most twice the limit in any minute, for every limit and window.
THEOREM IssueBound == Spec => []AtMostTwiceTheLimit
  <1>1. Init => WindowInv
    BY TypeInit DEF Init, WindowInv, Accounted, NoCounter, Charged
  <1>2. WindowInv => AtMostTwiceTheLimit
    <2> SUFFICES ASSUME WindowInv, NEW ip \in Ips PROVE recent[ip][Window - 1] <= 2 * Limit
      BY DEF AtMostTwiceTheLimit, Allowed
    <2>1. Charged(counter[ip]) \in 0..Limit
      BY ChargedType DEF WindowInv, TypeOK, Counters
    <2>2. recent[ip][Window - 1] \in Nat
      BY DEF WindowInv, TypeOK
    <2>3. recent[ip][Window - 1] <= Limit + Charged(counter[ip])
      BY DEF WindowInv, Accounted
    <2> QED
      BY <2>1, <2>2, <2>3
  <1> QED
    BY <1>1, <1>2, WindowNext, PTL DEF Spec
=============================================================================
