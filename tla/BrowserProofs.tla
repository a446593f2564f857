---------------------------- MODULE BrowserProofs ----------------------------
(***************************************************************************)
(* Proofs about Browser, for any number of tabs, sessions and token pairs. *)
(***************************************************************************)
EXTENDS Browser, TLAPS

Busy(b) == flight[b] # Idle

\* The sessions that work.
Works == {s \in Sids : Working(s)}

\* What a request under way holds.
LEMMA FlightShape ==
    ASSUME NEW k \in Flight
    PROVE  /\ k # Idle <=> k.op # "idle"
           /\ k.op \in {"idle", "sent", "delete", "answer"}
           /\ k.op # "idle" => k.to \in Kinds /\ k.cookie \in Tokens \cup {None}
           /\ k.op = "delete" => k.sid \in Sids
           /\ k.op = "answer" => /\ k.ok \in BOOLEAN /\ k.set \in Cookies
                                 /\ k.set.sets \in BOOLEAN
                                 /\ k.set.value \in Tokens \cup {None}
  BY DEF Flight, Idle, Cookies

\* The one Set-Cookie without a value is the one that removes the cookie.
LEMMA CookieShape ==
    ASSUME NEW c \in Cookies
    PROVE  /\ c.sets /\ c.value = None <=> c = ClearRefreshCookie
           /\ \A t : c.sets /\ c.value = t <=> c = SetRefreshCookie(t)
  BY DEF Cookies, ClearRefreshCookie, SetRefreshCookie

-----------------------------------------------------------------------------
(***************************************************************************)
(* The invariant.                                                          *)
(***************************************************************************)
\* Cookies and answers name pairs that were drawn; a pair belongs to a session that
\* was opened, the current pair of a session to that session.
MintInv ==
    /\ jar # None => jar \in minted
    /\ \A b \in Tabs : Busy(b) /\ flight[b].cookie # None => flight[b].cookie \in minted
    /\ \A b \in Tabs : flight[b].op = "answer" /\ flight[b].set.value # None =>
                          flight[b].set.value \in minted
    /\ \A t \in minted : home[t] \in Sids /\ state[home[t]] # "new"
    /\ \A s \in Sids : s \in Works => pair[s] \in minted /\ home[pair[s]] = s

\* Two requests under way at the same time are both crossed.
CrossInv ==
    \A b, d \in Tabs : b # d /\ Busy(b) /\ Busy(d) => b \in crossed

\* A request that is not crossed carries the cookie of the jar, unless that was
\* removed meanwhile.
CarryInv ==
    \A b \in Tabs : Busy(b) /\ b \notin crossed =>
        LET c == flight[b].cookie
        IN  c = jar \/ (jar = None /\ c # None /\ home[c] \in loose)

\* A pair on its way to the browser is the current one of its session, and is
\* nowhere else.
FreshInv ==
    \A b \in Tabs :
        LET t == flight[b].set.value
        IN  flight[b].op = "answer" /\ t # None =>
                /\ flight[b].set.sets
                /\ home[t] \in Works => pair[home[t]] = t
                /\ jar # t
                /\ \A d \in Tabs : Busy(d) => flight[d].cookie # t
                /\ \A d \in Tabs : d # b /\ flight[d].op = "answer" => flight[d].set.value # t

\* How an answer, or a deletion to come, relates to the request.
ReplyInv ==
    \A b \in Tabs :
        LET k == flight[b]
        IN  /\ k.op = "answer" /\ k.to = "refresh" /\ k.set.value # None =>
                  k.cookie # None /\ home[k.set.value] = home[k.cookie]
            /\ k.op = "answer" /\ k.to = "logout" =>
                  k.set.value = None /\ (k.ok => k.set = ClearRefreshCookie)
            /\ k.op = "delete" /\ k.to = "logout" => k.cookie # None /\ home[k.cookie] = k.sid

\* As Held, but not by a logout, whose deletion may fail.
HeldFirmly(s) ==
    \/ jar = pair[s]
    \/ \E b \in Tabs : flight[b].op = "answer" /\ flight[b].set = SetRefreshCookie(pair[s])
    \/ \E b \in Tabs : flight[b].op = "delete" /\ flight[b].sid = s /\ flight[b].to # "logout"

FirmInv == \A s \in Sids : s \in Works => s \in loose \/ HeldFirmly(s)

\* An answer that removes the cookie is given when its session is over, or to a
\* request that is crossed.
ClearInv ==
    \A b \in Tabs :
        LET k == flight[b]
        IN  k.op = "answer" /\ k.to \in {"refresh", "logout"} /\ k.set = ClearRefreshCookie =>
                (k.cookie # None /\ home[k.cookie] \in Works =>
                    home[k.cookie] \in loose \/ b \in crossed)

OutInv == \A s \in out : state[s] # "new" /\ (s \in Works => s \in loose)

\* The inductive invariant.
Inv ==
    /\ TypeOK
    /\ MintInv /\ CrossInv /\ CarryInv /\ FreshInv
    /\ ReplyInv /\ FirmInv /\ ClearInv /\ OutInv

\* The invariant gives the properties.
LEMMA InvImplies == Inv => HeldUnlessLoose /\ RefusedOnlyIfEnded /\ LogoutFinal
  <1> SUFFICES ASSUME Inv PROVE HeldUnlessLoose /\ RefusedOnlyIfEnded /\ LogoutFinal
    OBVIOUS
  <1>1. HeldUnlessLoose
    BY DEF Inv, FirmInv, HeldFirmly, HeldUnlessLoose, Held, Works
  <1>2. RefusedOnlyIfEnded
    <2> SUFFICES ASSUME NEW b \in Tabs, flight[b].op = "answer", flight[b].to = "refresh",
                        flight[b].set = ClearRefreshCookie,
                        flight[b].cookie # None, Working(home[flight[b].cookie])
                 PROVE  home[flight[b].cookie] \in loose \/ b \in crossed
      BY DEF RefusedOnlyIfEnded, Homes
    <2>1. home[flight[b].cookie] \in Works
      BY DEF Inv, MintInv, Busy, Idle, Works
    <2> QED
      BY <2>1 DEF Inv, ClearInv
  <1>3. LogoutFinal
    BY DEF Inv, TypeOK, OutInv, LogoutFinal, Works
  <1> QED
    BY <1>1, <1>2, <1>3

\* The invariant holds before the first request.
LEMMA InvInit == Init => Inv
  <1> SUFFICES ASSUME Init PROVE Inv
    OBVIOUS
  <1> USE DEF Init, Sessions!Init
  <1>1. \A b \in Tabs : flight[b] = Idle /\ ~Busy(b) /\ flight[b].op = "idle"
    BY DEF Busy, Idle
  <1>2. Works = {}
    BY DEF Works, Working, Sessions!Working
  <1>3. TypeOK
    BY DEF TypeOK, Flight
  <1>4. MintInv /\ CrossInv /\ CarryInv
    BY <1>1, <1>2 DEF MintInv, CrossInv, CarryInv
  <1>5. FreshInv /\ ReplyInv /\ FirmInv /\ ClearInv /\ OutInv
    BY <1>1, <1>2 DEF FreshInv, ReplyInv, FirmInv, ClearInv, OutInv
  <1> QED
    BY <1>3, <1>4, <1>5 DEF Inv
-----------------------------------------------------------------------------
(***************************************************************************)
(* What a step does to the store.                                          *)
(***************************************************************************)
StoreTypes ==
    /\ state \in [Sids -> {"new", "live", "fading", "ended"}]
    /\ owner \in [Sids -> Users \cup {None}]
    /\ pair \in [Sids -> Tokens \cup {None}]
    /\ minted \in SUBSET Tokens

\* Pair t is drawn for session s, which then works; the others stay as they are.
Issued(s, t) ==
    /\ t \notin minted /\ minted' = minted \cup {t}
    /\ home' = [home EXCEPT ![t] = s]
    /\ s \in Works' /\ pair'[s] = t
    /\ \A x \in Sids \ {s} : (x \in Works' <=> x \in Works) /\ pair'[x] = pair[x]
    /\ \A x \in Sids : state[x] # "new" => state'[x] # "new"

\* No pair is drawn, and some sessions may end.
Shrunk ==
    /\ minted' = minted /\ home' = home
    /\ \A x \in Sids : x \in Works' => x \in Works /\ pair'[x] = pair[x]
    /\ \A x \in Sids : state[x] # "new" => state'[x] # "new"

\* A login opens a session that was new.
LEMMA OpenStep ==
    ASSUME TypeOK, NEW s \in Sids, NEW u \in Users, NEW t \in Tokens,
           Sessions!Open(s, u, t, {}), home' = [home EXCEPT ![t] = s]
    PROVE  StoreTypes' /\ Issued(s, t) /\ state[s] = "new"
  <1>1. /\ state[s] = "new" /\ t \notin minted /\ minted' = minted \cup {t}
        /\ state' = [x \in Sids |-> IF x = s THEN "live" ELSE state[x]]
        /\ owner' = [owner EXCEPT ![s] = u] /\ pair' = [pair EXCEPT ![s] = t]
    BY DEF Sessions!Open
  <1>2. StoreTypes'
    BY <1>1 DEF TypeOK, StoreTypes
  <1>3. Issued(s, t)
    BY <1>1 DEF TypeOK, Issued, Works, Working, Sessions!Working
  <1> QED
    BY <1>1, <1>2, <1>3

\* A rotation replaces the pair of a session that works.
LEMMA RotateStep ==
    ASSUME TypeOK, NEW s \in Sids, NEW c, NEW t \in Tokens,
           Sessions!Rotate(s, c, t), home' = [home EXCEPT ![t] = s]
    PROVE  StoreTypes' /\ Issued(s, t) /\ s \in Works /\ pair[s] = c
  <1>1. /\ s \in Works /\ pair[s] = c /\ t \notin minted /\ minted' = minted \cup {t}
        /\ pair' = [pair EXCEPT ![s] = t] /\ state' = state /\ owner' = owner
    BY DEF Sessions!Rotate, Works, Working
  <1>2. StoreTypes'
    BY <1>1 DEF TypeOK, StoreTypes
  <1>3. Issued(s, t)
    BY <1>1 DEF TypeOK, Issued, Works, Working, Sessions!Working
  <1> QED
    BY <1>1, <1>2, <1>3

\* Ending sessions, or leaving the store alone.
LEMMA ShrinkStep ==
    ASSUME TypeOK, home' = home,
           \/ UNCHANGED store
           \/ \E s \in Sids : Sessions!End(s)
           \/ \E u \in Users : Sessions!EndUser(u)
    PROVE  StoreTypes' /\ Shrunk
  <1>1. CASE UNCHANGED store
    BY <1>1 DEF store, TypeOK, StoreTypes, Shrunk, Works, Working, Sessions!Working
  <1>2. ASSUME NEW E, Sessions!Change(E, {})
        PROVE  StoreTypes' /\ Shrunk
    <2>1. /\ state' = [s \in Sids |-> IF s \in E THEN "ended" ELSE state[s]]
          /\ owner' = [s \in Sids |-> IF s \in E THEN None ELSE owner[s]]
          /\ pair' = [s \in Sids |-> IF s \in E THEN None ELSE pair[s]]
          /\ minted' = minted
      BY <1>2 DEF Sessions!Change
    <2>2. StoreTypes'
      BY <2>1 DEF TypeOK, StoreTypes
    <2>3. Shrunk
      BY <2>1 DEF Shrunk, Works, Working, Sessions!Working
    <2> QED
      BY <2>2, <2>3
  <1> QED
    BY <1>1, <1>2 DEF Sessions!End, Sessions!EndUser

\* The session that is ended no longer works.
LEMMA EndStep ==
    ASSUME NEW s \in Sids, Sessions!End(s)
    PROVE  s \notin Works'
  BY DEF Sessions!End, Sessions!Change, Works, Working, Sessions!Working

-----------------------------------------------------------------------------
(***************************************************************************)
(* Steps of the server.  The request of tab b goes on as k.                *)
(***************************************************************************)
Turned(b, k) ==
    /\ flight[b].op \in {"sent", "delete"}
    /\ flight' = [flight EXCEPT ![b] = k]
    /\ k.op \in {"delete", "answer"}
    /\ k.to = flight[b].to /\ k.cookie = flight[b].cookie
    /\ UNCHANGED <<jar, crossed, out>>
    /\ loose \subseteq loose'

\* The other requests are not touched, and the cookies in all of them stay.
LEMMA TurnedFacts ==
    ASSUME TypeOK, TypeOK', NEW b \in Tabs, NEW k, Turned(b, k)
    PROVE  /\ flight'[b] = k /\ k \in Flight /\ Busy(b)
           /\ \A d \in Tabs \ {b} : flight'[d] = flight[d]
           /\ \A d \in Tabs : Busy(d)' <=> Busy(d)
           /\ \A d \in Tabs : Busy(d) => flight'[d].cookie = flight[d].cookie
  <1>1. flight'[b] = k /\ k \in Flight /\ \A d \in Tabs \ {b} : flight'[d] = flight[d]
    BY DEF Turned, TypeOK
  <1>2. Busy(b) /\ k # Idle
    BY DEF Turned, Busy, Idle
  <1> QED
    BY <1>1, <1>2 DEF Turned, Busy

\* An answer without a new pair, or the beginning of a deletion, keeps the
\* invariant if it is one that ReplyInv and ClearInv allow, and if a session
\* whose clean-up it ends is gone or counted as loose.
LEMMA ReplyStep ==
    ASSUME Inv, TypeOK', NEW b \in Tabs, NEW k, Turned(b, k), Shrunk,
           k.op = "answer" => k.set.value = None,
           k.op = "delete" /\ k.to = "logout" => k.cookie # None /\ home[k.cookie] = k.sid,
           k.op = "answer" /\ k.to = "logout" /\ k.ok => k.set = ClearRefreshCookie,
           k.op = "answer" /\ k.to \in {"refresh", "logout"} /\ k.set = ClearRefreshCookie =>
               (k.cookie # None /\ home[k.cookie] \in Works' =>
                   home[k.cookie] \in loose \/ b \in crossed),
           flight[b].op = "delete" /\ flight[b].to # "logout" =>
               flight[b].sid \notin Works' \/ flight[b].sid \in loose'
    PROVE  Inv'
  <1> USE DEF Inv
  <1>1. /\ flight'[b] = k /\ k \in Flight /\ Busy(b)
        /\ \A d \in Tabs \ {b} : flight'[d] = flight[d]
        /\ \A d \in Tabs : Busy(d)' <=> Busy(d)
        /\ \A d \in Tabs : Busy(d) => flight'[d].cookie = flight[d].cookie
    BY TurnedFacts
  <1>2. /\ k.op \in {"delete", "answer"} /\ k.to = flight[b].to /\ k.cookie = flight[b].cookie
        /\ flight[b].op \in {"sent", "delete"}
        /\ jar' = jar /\ crossed' = crossed /\ out' = out /\ loose \subseteq loose'
    BY DEF Turned
  <1>3. /\ minted' = minted /\ home' = home
        /\ \A x \in Sids : x \in Works' => x \in Works /\ pair'[x] = pair[x]
        /\ \A x \in Sids : state[x] # "new" => state'[x] # "new"
    BY DEF Shrunk
  <1>4. \A d \in Tabs : flight'[d].op = "answer" /\ flight'[d].set.value # None =>
           d # b /\ flight'[d] = flight[d] /\ flight[d].op = "answer"
    BY <1>1
  <1>5. MintInv'
    BY <1>1, <1>2, <1>3, <1>4 DEF MintInv
  <1>6. CrossInv'
    BY <1>1, <1>2 DEF CrossInv
  <1>7. CarryInv'
    BY <1>1, <1>2, <1>3 DEF CarryInv
  <1>8. FreshInv'
    <2> SUFFICES ASSUME NEW d \in Tabs, flight'[d].op = "answer", flight'[d].set.value # None
                 PROVE  LET t == flight'[d].set.value
                        IN  /\ flight'[d].set.sets
                            /\ home[t] \in Works' => pair'[home[t]] = t
                            /\ jar # t
                            /\ \A e \in Tabs : Busy(e)' => flight'[e].cookie # t
                            /\ \A e \in Tabs : e # d /\ flight'[e].op = "answer" =>
                                                  flight'[e].set.value # t
      BY <1>2, <1>3 DEF FreshInv
    <2>1. /\ flight'[d] = flight[d] /\ flight[d].op = "answer"
          /\ home[flight[d].set.value] \in Sids
      BY <1>4 DEF MintInv
    <2>2. \A e \in Tabs : e # d /\ flight'[e].op = "answer" =>
                             flight'[e].set.value # flight[d].set.value
      BY <1>1, <2>1 DEF FreshInv
    <2>3. \A e \in Tabs : Busy(e)' => flight'[e].cookie # flight[d].set.value
      BY <1>1, <2>1 DEF FreshInv
    <2>4. LET t == flight[d].set.value
          IN  flight[d].set.sets /\ (home[t] \in Works' => pair'[home[t]] = t) /\ jar # t
      BY <1>3, <2>1 DEF FreshInv
    <2> QED
      BY <2>1, <2>2, <2>3, <2>4
  <1>9. ReplyInv'
    BY <1>1, <1>2, <1>3 DEF ReplyInv
  <1>10. FirmInv'
    <2> SUFFICES ASSUME NEW s \in Sids, s \in Works', s \notin loose'
                 PROVE  HeldFirmly(s)'
      BY DEF FirmInv
    <2>1. s \in Works /\ pair'[s] = pair[s] /\ HeldFirmly(s)
      BY <1>2, <1>3 DEF FirmInv
    <2>2. CASE jar = pair[s]
      BY <1>2, <2>1, <2>2 DEF HeldFirmly
    <2>3. ASSUME NEW d \in Tabs, flight[d].op = "answer", flight[d].set = SetRefreshCookie(pair[s])
          PROVE  HeldFirmly(s)'
      <3>1. flight'[d] = flight[d]
        BY <1>1, <1>2, <2>3
      <3> QED
        BY <2>1, <2>3, <3>1 DEF HeldFirmly, SetRefreshCookie
    <2>4. ASSUME NEW d \in Tabs, flight[d].op = "delete", flight[d].sid = s,
                 flight[d].to # "logout"
          PROVE  HeldFirmly(s)'
      <3>1. flight'[d] = flight[d]
        BY <1>1, <1>2, <2>4
      <3> QED
        BY <2>4, <3>1 DEF HeldFirmly
    <2> QED
      BY <2>1, <2>2, <2>3, <2>4 DEF HeldFirmly
  <1>11. ClearInv'
    <2> SUFFICES ASSUME NEW d \in Tabs, flight'[d].op = "answer",
                        flight'[d].to \in {"refresh", "logout"},
                        flight'[d].set = ClearRefreshCookie, flight'[d].cookie # None,
                        home[flight'[d].cookie] \in Works'
                 PROVE  home[flight'[d].cookie] \in loose' \/ d \in crossed'
      BY <1>3 DEF ClearInv, ClearRefreshCookie
    <2>1. CASE d = b
      BY <1>1, <1>2, <2>1
    <2>2. CASE d # b
      <3>1. flight'[d] = flight[d] /\ flight[d].cookie \in minted
        BY <1>1, <2>2 DEF MintInv, Busy, Idle
      <3>2. home[flight[d].cookie] \in Works
        BY <1>3, <3>1 DEF MintInv
      <3> QED
        BY <1>2, <3>1, <3>2 DEF ClearInv
    <2> QED
      BY <2>1, <2>2
  <1>12. OutInv'
    BY <1>2, <1>3 DEF OutInv, TypeOK
  <1> QED
    BY <1>5, <1>6, <1>7, <1>8, <1>9, <1>10, <1>11, <1>12

\* Drawing pair t for session s keeps the invariant, if the new pair is on its way,
\* the session is to be deleted, or it is counted as loose.
LEMMA IssueStep ==
    ASSUME Inv, TypeOK', NEW b \in Tabs, NEW s \in Sids, NEW t \in Tokens, NEW k,
           Turned(b, k), Issued(s, t), flight[b].op = "sent",
           \/ k.to = "login" /\ state[s] = "new"
           \/ k.to = "refresh" /\ s \in Works /\ pair[s] = k.cookie,
           \/ k.op = "delete" /\ k.sid = s
           \/ k.op = "answer" /\ k.set = SetRefreshCookie(t)
           \/ k.op = "answer" /\ k.set \in {NoCookie, ClearRefreshCookie} /\ s \in loose'
    PROVE  Inv'
  <1> USE DEF Inv
  <1>1. /\ flight'[b] = k /\ k \in Flight /\ Busy(b)
        /\ \A d \in Tabs \ {b} : flight'[d] = flight[d]
        /\ \A d \in Tabs : Busy(d)' <=> Busy(d)
        /\ \A d \in Tabs : Busy(d) => flight'[d].cookie = flight[d].cookie
    BY TurnedFacts
  <1>2. /\ k.op \in {"delete", "answer"} /\ k.to = flight[b].to /\ k.cookie = flight[b].cookie
        /\ jar' = jar /\ crossed' = crossed /\ out' = out /\ loose \subseteq loose'
    BY DEF Turned
  <1>3. /\ t \notin minted /\ minted' = minted \cup {t} /\ s \in Works' /\ pair'[s] = t
        /\ \A x \in Sids \ {s} : (x \in Works' <=> x \in Works) /\ pair'[x] = pair[x]
        /\ \A x \in Sids : state[x] # "new" => state'[x] # "new"
        /\ home'[t] = s /\ \A x \in Tokens \ {t} : home'[x] = home[x]
    BY DEF Issued, TypeOK
  <1>4. minted \subseteq Tokens /\ t # None /\ jar # t
    BY <1>3, NoneAssumption DEF TypeOK, MintInv
  <1>5. /\ state'[s] # "new"
        /\ \A x \in minted : home'[x] = home[x] /\ home[x] \in Sids /\ state'[home[x]] # "new"
    BY <1>3, <1>4 DEF MintInv, Works, Working, Sessions!Working
  <1>6. k.op = "answer" => k.set.value = t \/ (k.set.value = None /\ s \in loose')
    BY DEF SetRefreshCookie, NoCookie, ClearRefreshCookie
  <1>7. \A d \in Tabs : Busy(d) => flight[d].cookie # t
    BY <1>3, <1>4 DEF MintInv
  <1>8. \A d \in Tabs : flight[d].op = "answer" => flight[d].set.value # t /\ d # b
    BY <1>3, <1>4 DEF MintInv
  <1>9. \A d \in Tabs : flight[d].op = "answer" => Busy(d)
    BY DEF Busy, Idle
  <1>10. MintInv'
    <2>1. \A d \in Tabs : Busy(d)' /\ flight'[d].cookie # None => flight'[d].cookie \in minted'
      BY <1>1, <1>3 DEF MintInv
    <2>2. \A d \in Tabs : flight'[d].op = "answer" /\ flight'[d].set.value # None =>
                             flight'[d].set.value \in minted'
      BY <1>1, <1>3, <1>6 DEF MintInv
    <2>3. \A x \in minted' : home'[x] \in Sids /\ state'[home'[x]] # "new"
      BY <1>3, <1>5
    <2>4. \A x \in Sids : x \in Works' => pair'[x] \in minted' /\ home'[pair'[x]] = x
      BY <1>3, <1>5 DEF MintInv
    <2> QED
      BY <1>2, <1>3, <2>1, <2>2, <2>3, <2>4 DEF MintInv
  <1>11. CrossInv'
    BY <1>1, <1>2 DEF CrossInv
  <1>12. CarryInv'
    BY <1>1, <1>2, <1>5 DEF CarryInv, MintInv
  <1>13. FreshInv'
    <2> SUFFICES ASSUME NEW d \in Tabs, flight'[d].op = "answer", flight'[d].set.value # None
                 PROVE  LET v == flight'[d].set.value
                        IN  /\ flight'[d].set.sets
                            /\ home'[v] \in Works' => pair'[home'[v]] = v
                            /\ jar # v
                            /\ \A e \in Tabs : Busy(e)' => flight'[e].cookie # v
                            /\ \A e \in Tabs : e # d /\ flight'[e].op = "answer" =>
                                                  flight'[e].set.value # v
      BY <1>2 DEF FreshInv
    <2>1. CASE d = b
      <3>1. k.set.value = t /\ k.set.sets
        BY <1>1, <1>6, <2>1 DEF SetRefreshCookie, NoCookie, ClearRefreshCookie
      <3> QED
        BY <1>1, <1>3, <1>4, <1>7, <1>8, <2>1, <3>1
    <2>2. CASE d # b
      <3> DEFINE v == flight[d].set.value
      <3>1. flight'[d] = flight[d] /\ flight[d].op = "answer" /\ v # None /\ v \in minted
        BY <1>1, <2>2 DEF MintInv
      <3>2. v # t /\ home'[v] = home[v] /\ home[v] \in Sids
        BY <1>3, <1>5, <3>1
      <3>3. /\ flight[d].set.sets /\ jar # v /\ (home[v] \in Works => pair[home[v]] = v)
            /\ \A e \in Tabs : Busy(e) => flight[e].cookie # v
            /\ \A e \in Tabs : e # d /\ flight[e].op = "answer" => flight[e].set.value # v
        BY <3>1 DEF FreshInv
      <3>4. home[v] # s
        <4>1. CASE state[s] = "new"
          BY <3>1, <4>1 DEF MintInv
        <4>2. CASE s \in Works /\ pair[s] = k.cookie
          BY <1>1, <1>2, <3>3, <4>2
        <4> QED
          BY <4>1, <4>2
      <3>5. home[v] \in Works' => pair'[home[v]] = v
        BY <1>3, <3>2, <3>3, <3>4
      <3>6. \A e \in Tabs : Busy(e)' => flight'[e].cookie # v
        BY <1>1, <3>3
      <3>7. \A e \in Tabs : e # d /\ flight'[e].op = "answer" => flight'[e].set.value # v
        BY <1>1, <1>6, <3>1, <3>2, <3>3
      <3> QED
        BY <3>1, <3>2, <3>3, <3>5, <3>6, <3>7
    <2> QED
      BY <2>1, <2>2
  <1>14. ReplyInv'
    <2> SUFFICES ASSUME NEW d \in Tabs
                 PROVE  LET m == flight'[d]
                        IN  /\ m.op = "answer" /\ m.to = "refresh" /\ m.set.value # None =>
                                  m.cookie # None /\ home'[m.set.value] = home'[m.cookie]
                            /\ m.op = "answer" /\ m.to = "logout" =>
                                  /\ m.set.value = None
                                  /\ m.ok => m.set = ClearRefreshCookie
                            /\ m.op = "delete" /\ m.to = "logout" =>
                                  m.cookie # None /\ home'[m.cookie] = m.sid
      BY DEF ReplyInv, ClearRefreshCookie
    <2>1. CASE d = b
      <3>1. k.to # "logout"
        OBVIOUS
      <3>2. ASSUME k.op = "answer", k.to = "refresh", k.set.value # None
            PROVE  k.cookie # None /\ home'[k.set.value] = home'[k.cookie]
        <4>1. k.set.value = t /\ s \in Works /\ pair[s] = k.cookie
          BY <1>6, <3>2
        <4>2. k.cookie \in minted /\ home[k.cookie] = s
          BY <4>1 DEF MintInv
        <4> QED
          BY <1>3, <1>4, <1>5, <4>1, <4>2, NoneAssumption
      <3> QED
        BY <1>1, <2>1, <3>1, <3>2
    <2>2. CASE d # b
      <3>1. flight'[d] = flight[d]
        BY <1>1, <2>2
      <3>2. flight[d].op \in {"answer", "delete"} /\ flight[d].cookie # None =>
               home'[flight[d].cookie] = home[flight[d].cookie]
        BY <1>5 DEF MintInv, Busy, Idle
      <3>3. flight[d].op = "answer" /\ flight[d].set.value # None =>
               home'[flight[d].set.value] = home[flight[d].set.value]
        BY <1>5 DEF MintInv
      <3> QED
        BY <3>1, <3>2, <3>3 DEF ReplyInv
    <2> QED
      BY <2>1, <2>2
  <1>15. FirmInv'
    <2> SUFFICES ASSUME NEW x \in Sids, x \in Works', x \notin loose'
                 PROVE  HeldFirmly(x)'
      BY DEF FirmInv
    <2>1. CASE x = s
      <3>1. \/ k.op = "delete" /\ k.sid = s /\ k.to # "logout"
            \/ k.op = "answer" /\ k.set = SetRefreshCookie(t)
        BY <2>1
      <3> QED
        BY <1>1, <1>3, <2>1, <3>1 DEF HeldFirmly, SetRefreshCookie
    <2>2. CASE x # s
      <3>1. x \in Works /\ pair'[x] = pair[x] /\ HeldFirmly(x)
        BY <1>2, <1>3, <2>2 DEF FirmInv
      <3>2. \A d \in Tabs : flight[d].op \in {"answer", "delete"} => flight'[d] = flight[d]
        BY <1>1
      <3> QED
        BY <1>2, <3>1, <3>2 DEF HeldFirmly, SetRefreshCookie
    <2> QED
      BY <2>1, <2>2
  <1>16. ClearInv'
    <2> SUFFICES ASSUME NEW d \in Tabs, flight'[d].op = "answer",
                        flight'[d].to \in {"refresh", "logout"},
                        flight'[d].set = ClearRefreshCookie, flight'[d].cookie # None,
                        home'[flight'[d].cookie] \in Works'
                 PROVE  home'[flight'[d].cookie] \in loose' \/ d \in crossed'
      BY DEF ClearInv, ClearRefreshCookie
    <2>1. CASE d = b
      <3>1. k.set.value = None
        BY <1>1, <2>1 DEF ClearRefreshCookie
      <3>2. s \in loose' /\ k.to = "refresh" /\ pair[s] = k.cookie /\ s \in Works
        BY <1>1, <1>4, <1>6, <2>1, <3>1
      <3>3. home[k.cookie] = s /\ k.cookie \in minted
        BY <3>2 DEF MintInv
      <3> QED
        BY <1>1, <1>5, <2>1, <3>2, <3>3
    <2>2. CASE d # b
      <3> DEFINE c == flight[d].cookie
      <3>1. flight'[d] = flight[d] /\ c \in minted
        BY <1>1, <2>2 DEF MintInv, Busy, Idle
      <3>2. home'[c] = home[c] /\ home[c] \in Sids /\ state[home[c]] # "new"
        BY <1>5, <3>1 DEF MintInv
      <3>3. home[c] \in Works
        BY <1>3, <3>1, <3>2
      <3> QED
        BY <1>2, <3>1, <3>2, <3>3 DEF ClearInv
    <2> QED
      BY <2>1, <2>2
  <1>17. OutInv'
    BY <1>2, <1>3 DEF OutInv, TypeOK
  <1> QED
    BY <1>10, <1>11, <1>12, <1>13, <1>14, <1>15, <1>16, <1>17

-----------------------------------------------------------------------------
(***************************************************************************)
(* The handlers.                                                           *)
(***************************************************************************)
Answer(b, ok, set) ==
    [op |-> "answer", to |-> flight[b].to, cookie |-> flight[b].cookie, ok |-> ok, set |-> set]

Deletion(b, s) ==
    [op |-> "delete", to |-> flight[b].to, cookie |-> flight[b].cookie, sid |-> s]

\* An answer is a turn of the request.
LEMMA AnswerTurns ==
    ASSUME TypeOK, NEW b \in Tabs, NEW ok \in BOOLEAN, NEW set \in Cookies,
           flight[b].op \in {"sent", "delete"}, Answers(b, ok, set),
           UNCHANGED <<jar, crossed, out>>, loose \subseteq loose'
    PROVE  flight' \in [Tabs -> Flight] /\ Turned(b, Answer(b, ok, set))
  <1>1. flight[b].to \in Kinds /\ flight[b].cookie \in Tokens \cup {None}
    BY FlightShape DEF TypeOK
  <1>2. Answer(b, ok, set) \in Flight
    BY <1>1 DEF Answer, Flight
  <1>3. flight' = [flight EXCEPT ![b] = Answer(b, ok, set)]
    BY DEF Answers, Answer
  <1> QED
    BY <1>2, <1>3 DEF TypeOK, Turned, Answer

\* So is the decision to delete the session.
LEMMA DeletionTurns ==
    ASSUME TypeOK, NEW b \in Tabs, NEW s \in Sids, flight[b].op = "sent", Deletes(b, s),
           UNCHANGED <<jar, crossed, out>>, loose \subseteq loose'
    PROVE  flight' \in [Tabs -> Flight] /\ Turned(b, Deletion(b, s))
  <1>1. flight[b].to \in Kinds /\ flight[b].cookie \in Tokens \cup {None}
    BY FlightShape DEF TypeOK
  <1>2. Deletion(b, s) \in Flight
    BY <1>1 DEF Deletion, Flight
  <1>3. flight' = [flight EXCEPT ![b] = Deletion(b, s)]
    BY DEF Deletes, Deletion
  <1> QED
    BY <1>2, <1>3 DEF TypeOK, Turned, Deletion

\* The three forms of Set-Cookie.
LEMMA CookieForms ==
    /\ NoCookie \in Cookies /\ ClearRefreshCookie \in Cookies
    /\ \A t \in Tokens : SetRefreshCookie(t) \in Cookies
    /\ NoCookie # ClearRefreshCookie
    /\ NoCookie.value = None /\ ClearRefreshCookie.value = None
  BY DEF NoCookie, ClearRefreshCookie, SetRefreshCookie, Cookies

\* A login keeps the invariant, whichever way it ends.
LEMMA LoginStep ==
    ASSUME Inv, NEW b \in Tabs, NEW s \in Sids, NEW u \in Users, NEW t \in Tokens,
           Login(b, s, u, t)
    PROVE  Inv'
  <1>1. /\ flight[b].op = "sent" /\ flight[b].to = "login" /\ TypeOK
        /\ Sessions!Open(s, u, t, {}) /\ home' = [home EXCEPT ![t] = s]
        /\ UNCHANGED <<jar, crossed, out>>
    BY DEF Login, Received, Inv
  <1>2. StoreTypes' /\ Issued(s, t) /\ state[s] = "new"
    BY <1>1, OpenStep
  <1>3. home' \in [Tokens -> Sids \cup {None}]
    BY <1>1 DEF TypeOK
  <1>4. ASSUME Answers(b, TRUE, SetRefreshCookie(t)), UNCHANGED loose
        PROVE  Inv'
    <2> DEFINE k == Answer(b, TRUE, SetRefreshCookie(t))
    <2>1. flight' \in [Tabs -> Flight] /\ Turned(b, k)
      BY <1>1, <1>4, AnswerTurns, CookieForms
    <2>2. TypeOK'
      BY <1>1, <1>2, <1>3, <1>4, <2>1 DEF TypeOK, StoreTypes
    <2>3. k.to = "login" /\ k.op = "answer" /\ k.set = SetRefreshCookie(t)
      BY <1>1 DEF Answer
    <2> HIDE DEF k
    <2> QED
      BY <1>1, <1>2, <2>1, <2>2, <2>3, IssueStep
  <1>5. ASSUME Deletes(b, s), UNCHANGED loose
        PROVE  Inv'
    <2> DEFINE k == Deletion(b, s)
    <2>1. flight' \in [Tabs -> Flight] /\ Turned(b, k)
      BY <1>1, <1>5, DeletionTurns
    <2>2. TypeOK'
      BY <1>1, <1>2, <1>3, <1>5, <2>1 DEF TypeOK, StoreTypes
    <2>3. k.to = "login" /\ k.op = "delete" /\ k.sid = s
      BY <1>1 DEF Deletion
    <2> HIDE DEF k
    <2> QED
      BY <1>1, <1>2, <2>1, <2>2, <2>3, IssueStep
  <1>6. ASSUME Answers(b, FALSE, NoCookie), Strands(s)
        PROVE  Inv'
    <2> DEFINE k == Answer(b, FALSE, NoCookie)
    <2>1. flight' \in [Tabs -> Flight] /\ Turned(b, k)
      BY <1>1, <1>6, AnswerTurns, CookieForms DEF Strands
    <2>2. TypeOK' /\ s \in loose'
      BY <1>1, <1>2, <1>3, <1>6, <2>1 DEF TypeOK, StoreTypes, Strands
    <2>3. k.to = "login" /\ k.op = "answer" /\ k.set = NoCookie
      BY <1>1 DEF Answer
    <2> HIDE DEF k
    <2> QED
      BY <1>1, <1>2, <2>1, <2>2, <2>3, IssueStep
  <1> QED
    BY <1>4, <1>5, <1>6 DEF Login

\* A refresh that finds its session keeps the invariant, whichever way it ends.
LEMMA RefreshStep ==
    ASSUME Inv, NEW b \in Tabs, NEW s \in Sids, NEW t \in Tokens, Refresh(b, s, t)
    PROVE  Inv'
  <1>1. /\ flight[b].op = "sent" /\ flight[b].to = "refresh" /\ TypeOK
        /\ Sessions!Rotate(s, flight[b].cookie, t) /\ home' = [home EXCEPT ![t] = s]
        /\ UNCHANGED <<jar, crossed, out>>
    BY DEF Refresh, Received, Inv
  <1>2. StoreTypes' /\ Issued(s, t) /\ s \in Works /\ pair[s] = flight[b].cookie
    BY <1>1, RotateStep
  <1>3. home' \in [Tokens -> Sids \cup {None}]
    BY <1>1 DEF TypeOK
  <1>4. ASSUME Answers(b, TRUE, SetRefreshCookie(t)), UNCHANGED loose
        PROVE  Inv'
    <2> DEFINE k == Answer(b, TRUE, SetRefreshCookie(t))
    <2>1. flight' \in [Tabs -> Flight] /\ Turned(b, k)
      BY <1>1, <1>4, AnswerTurns, CookieForms
    <2>2. TypeOK'
      BY <1>1, <1>2, <1>3, <1>4, <2>1 DEF TypeOK, StoreTypes
    <2>3. /\ k.to = "refresh" /\ k.cookie = flight[b].cookie
          /\ k.op = "answer" /\ k.set = SetRefreshCookie(t)
      BY <1>1 DEF Answer
    <2> HIDE DEF k
    <2> QED
      BY <1>1, <1>2, <2>1, <2>2, <2>3, IssueStep
  <1>5. ASSUME Deletes(b, s), UNCHANGED loose
        PROVE  Inv'
    <2> DEFINE k == Deletion(b, s)
    <2>1. flight' \in [Tabs -> Flight] /\ Turned(b, k)
      BY <1>1, <1>5, DeletionTurns
    <2>2. TypeOK'
      BY <1>1, <1>2, <1>3, <1>5, <2>1 DEF TypeOK, StoreTypes
    <2>3. k.to = "refresh" /\ k.cookie = flight[b].cookie /\ k.op = "delete" /\ k.sid = s
      BY <1>1 DEF Deletion
    <2> HIDE DEF k
    <2> QED
      BY <1>1, <1>2, <2>1, <2>2, <2>3, IssueStep
  <1>6. ASSUME NEW set \in {NoCookie, ClearRefreshCookie}, Answers(b, FALSE, set), Strands(s)
        PROVE  Inv'
    <2> DEFINE k == Answer(b, FALSE, set)
    <2>1. flight' \in [Tabs -> Flight] /\ Turned(b, k)
      BY <1>1, <1>6, AnswerTurns, CookieForms DEF Strands
    <2>2. TypeOK' /\ s \in loose'
      BY <1>1, <1>2, <1>3, <1>6, <2>1 DEF TypeOK, StoreTypes, Strands
    <2>3. /\ k.to = "refresh" /\ k.cookie = flight[b].cookie
          /\ k.op = "answer" /\ k.set \in {NoCookie, ClearRefreshCookie}
      BY <1>1 DEF Answer
    <2> HIDE DEF k
    <2> QED
      BY <1>1, <1>2, <2>1, <2>2, <2>3, IssueStep
  <1> QED
    BY <1>4, <1>5, <1>6 DEF Refresh

\* A handler that draws no pair: what is common to the rest of them.
LEMMA AnswerStep ==
    ASSUME Inv, NEW b \in Tabs, NEW ok \in BOOLEAN, NEW set \in Cookies,
           flight[b].op \in {"sent", "delete"}, Answers(b, ok, set),
           UNCHANGED <<jar, crossed, out>>, loose \subseteq loose', loose' \in SUBSET Sids,
           StoreTypes', Shrunk, set.value = None,
           flight[b].to = "logout" /\ ok => set = ClearRefreshCookie,
           set = ClearRefreshCookie /\ flight[b].cookie # None /\ b \notin crossed =>
               home[flight[b].cookie] \notin Works' \/ home[flight[b].cookie] \in loose,
           flight[b].op = "delete" /\ flight[b].to # "logout" =>
               flight[b].sid \notin Works' \/ flight[b].sid \in loose'
    PROVE  Inv'
  <1> DEFINE k == Answer(b, ok, set)
  <1>1. flight' \in [Tabs -> Flight] /\ Turned(b, k)
    BY AnswerTurns DEF Inv
  <1>2. TypeOK'
    BY <1>1 DEF Inv, TypeOK, StoreTypes, Shrunk
  <1>3. /\ k.op = "answer" /\ k.to = flight[b].to /\ k.cookie = flight[b].cookie
        /\ k.ok = ok /\ k.set = set
    BY DEF Answer
  <1> HIDE DEF k
  <1> QED
    BY <1>1, <1>2, <1>3, ReplyStep

\* A token that no session has is not the browser's current one: its session is over
\* or was lost hold of, or the request is crossed.
LEMMA NotFound ==
    ASSUME Inv, NEW b \in Tabs, flight[b].op = "sent",
           \A s \in Sids : Working(s) => pair[s] # flight[b].cookie,
           flight[b].cookie # None, b \notin crossed, home[flight[b].cookie] \in Works
    PROVE  home[flight[b].cookie] \in loose
  <1> DEFINE s == home[flight[b].cookie]
  <1>1. Busy(b) /\ \A d \in Tabs : flight[d].op \in {"answer", "delete"} => Busy(d) /\ d # b
    BY DEF Busy, Idle
  <1>2. \A d \in Tabs : ~(flight[d].op \in {"answer", "delete"})
    BY <1>1 DEF Inv, CrossInv
  <1>3. s \in loose \/ HeldFirmly(s)
    BY DEF Inv, FirmInv, Works
  <1>4. s \in loose \/ jar = flight[b].cookie
    BY <1>1 DEF Inv, CarryInv
  <1>5. jar # pair[s] \/ jar # flight[b].cookie
    BY DEF Works
  <1> QED
    BY <1>2, <1>3, <1>4, <1>5 DEF HeldFirmly

\* A refresh that finds no session keeps the invariant.
LEMMA RefreshRefusedStep ==
    ASSUME Inv, NEW b \in Tabs, RefreshRefused(b)
    PROVE  Inv'
  <1> DEFINE set == IF flight[b].cookie = None THEN NoCookie ELSE ClearRefreshCookie
  <1>1. /\ flight[b].op = "sent" /\ flight[b].to = "refresh" /\ Answers(b, FALSE, set)
        /\ \A s \in Sids : Working(s) => pair[s] # flight[b].cookie
        /\ UNCHANGED <<jar, crossed, out, loose>> /\ home' = home /\ UNCHANGED store
    BY DEF RefreshRefused, Received
  <1>2. StoreTypes' /\ Shrunk /\ loose' \in SUBSET Sids
    BY <1>1, ShrinkStep DEF Inv, TypeOK
  <1>3. set \in Cookies /\ set.value = None
    BY CookieForms
  <1>4. home[flight[b].cookie] \in Works' => home[flight[b].cookie] \in Works
    BY <1>2 DEF Shrunk, Works
  <1> HIDE DEF set
  <1> QED
    BY <1>1, <1>2, <1>3, <1>4, NotFound, AnswerStep

\* A logout that finds no session keeps the invariant.
LEMMA LogoutFindsNoneStep ==
    ASSUME Inv, NEW b \in Tabs, LogoutFindsNone(b)
    PROVE  Inv'
  <1>1. /\ flight[b].op = "sent" /\ flight[b].to = "logout"
        /\ Answers(b, TRUE, ClearRefreshCookie)
        /\ \A s \in Sids : Working(s) => pair[s] # flight[b].cookie
        /\ UNCHANGED <<jar, crossed, out, loose>> /\ home' = home /\ UNCHANGED store
    BY DEF LogoutFindsNone, Received
  <1>2. StoreTypes' /\ Shrunk /\ loose' \in SUBSET Sids
    BY <1>1, ShrinkStep DEF Inv, TypeOK
  <1>3. home[flight[b].cookie] \in Works' => home[flight[b].cookie] \in Works
    BY <1>2 DEF Shrunk, Works
  <1> QED
    BY <1>1, <1>2, <1>3, NotFound, AnswerStep, CookieForms

\* A logout that finds its session keeps the invariant: the session is that of the
\* cookie.
LEMMA LogoutLookupStep ==
    ASSUME Inv, NEW b \in Tabs, NEW s \in Sids, LogoutLookup(b, s)
    PROVE  Inv'
  <1> DEFINE k == Deletion(b, s)
  <1>1. /\ flight[b].op = "sent" /\ Deletes(b, s) /\ Working(s) /\ pair[s] = flight[b].cookie
        /\ UNCHANGED <<jar, crossed, out, loose>> /\ home' = home /\ UNCHANGED store
    BY DEF LogoutLookup, Received
  <1>2. flight' \in [Tabs -> Flight] /\ Turned(b, k)
    BY <1>1, DeletionTurns DEF Inv
  <1>3. StoreTypes' /\ Shrunk
    BY <1>1, ShrinkStep DEF Inv
  <1>4. TypeOK'
    BY <1>1, <1>2, <1>3 DEF Inv, TypeOK, StoreTypes
  <1>5. flight[b].cookie # None /\ home[flight[b].cookie] = s
    BY <1>1, NoneAssumption DEF Inv, TypeOK, MintInv, Works
  <1>6. k.op = "delete" /\ k.cookie = flight[b].cookie /\ k.sid = s
    BY DEF Deletion
  <1> HIDE DEF k
  <1> QED
    BY <1>1, <1>2, <1>3, <1>4, <1>5, <1>6, ReplyStep

\* The delete script keeps the invariant: the session is over when it is reported so.
LEMMA DeleteStep ==
    ASSUME Inv, NEW b \in Tabs, Delete(b)
    PROVE  Inv'
  <1> DEFINE s == flight[b].sid
  <1>1. /\ flight[b].op = "delete" /\ s \in Sids
        /\ IF Working(s) THEN Sessions!End(s) ELSE UNCHANGED store
        /\ UNCHANGED <<jar, crossed, out, loose>> /\ home' = home
    BY FlightShape DEF Delete, Inv, TypeOK
  <1>2. StoreTypes' /\ Shrunk /\ loose' \in SUBSET Sids
    BY <1>1, ShrinkStep DEF Inv, TypeOK
  <1>3. s \notin Works'
    BY <1>1, <1>2, EndStep DEF Shrunk, Works
  <1>4. CASE flight[b].to = "logout"
    <2>1. Answers(b, TRUE, ClearRefreshCookie)
      BY <1>4 DEF Delete
    <2>2. home[flight[b].cookie] = s
      BY <1>1, <1>4 DEF Inv, ReplyInv
    <2> QED
      BY <1>1, <1>2, <1>3, <1>4, <2>1, <2>2, AnswerStep, CookieForms
  <1>5. CASE flight[b].to # "logout"
    <2>1. Answers(b, FALSE, NoCookie)
      BY <1>5 DEF Delete
    <2> QED
      BY <1>1, <1>2, <1>3, <1>5, <2>1, AnswerStep, CookieForms
  <1> QED
    BY <1>4, <1>5

\* A delete script that fails keeps the invariant.
LEMMA DeleteFailsStep ==
    ASSUME Inv, NEW b \in Tabs, DeleteFails(b)
    PROVE  Inv'
  <1> DEFINE s == flight[b].sid
  <1>1. /\ flight[b].op = "delete" /\ s \in Sids /\ Answers(b, FALSE, NoCookie)
        /\ UNCHANGED store \/ Sessions!End(s)
        /\ IF flight[b].to = "logout" THEN UNCHANGED loose ELSE loose' = loose \cup {s}
        /\ UNCHANGED <<jar, crossed, out>> /\ home' = home
    BY FlightShape DEF DeleteFails, Strands, Inv, TypeOK
  <1>2. StoreTypes' /\ Shrunk
    BY <1>1, ShrinkStep DEF Inv
  <1>3. loose \subseteq loose' /\ loose' \in SUBSET Sids
    BY <1>1 DEF Inv, TypeOK
  <1> QED
    BY <1>1, <1>2, <1>3, AnswerStep, CookieForms

\* A request that is not served keeps the invariant.
LEMMA UnavailableStep ==
    ASSUME Inv, NEW b \in Tabs, Unavailable(b)
    PROVE  Inv'
  <1>1. /\ flight[b].op = "sent" /\ Answers(b, FALSE, NoCookie)
        /\ UNCHANGED <<jar, crossed, out, loose>> /\ home' = home /\ UNCHANGED store
    BY DEF Unavailable
  <1>2. StoreTypes' /\ Shrunk /\ loose' \in SUBSET Sids
    BY <1>1, ShrinkStep DEF Inv, TypeOK
  <1> QED
    BY <1>1, <1>2, AnswerStep, CookieForms

-----------------------------------------------------------------------------
(***************************************************************************)
(* Steps of the browser.                                                   *)
(***************************************************************************)
\* A new request keeps the invariant.
LEMMA SendStep ==
    ASSUME Inv, NEW b \in Tabs, NEW kind \in Kinds, Send(b, kind)
    PROVE  Inv'
  <1> USE DEF Inv
  <1> DEFINE k == [op |-> "sent", to |-> kind, cookie |-> jar]
             busy == {x \in Tabs : flight[x] # Idle}
  <1>1. /\ flight[b] = Idle /\ flight' = [flight EXCEPT ![b] = k]
        /\ crossed' = IF busy = {} THEN crossed ELSE crossed \cup busy \cup {b}
        /\ jar' = jar /\ home' = home /\ loose' = loose /\ out' = out
        /\ state' = state /\ owner' = owner /\ pair' = pair /\ minted' = minted
    BY DEF Send, store
  <1>2. Works' = Works
    BY <1>1 DEF Works, Working, Sessions!Working
  <1>3. TypeOK'
    <2>1. k \in Flight
      BY DEF TypeOK, Flight
    <2> QED
      BY <1>1, <2>1 DEF TypeOK
  <1>4. /\ flight'[b] = k /\ ~Busy(b) /\ flight[b].op = "idle"
        /\ k.op = "sent" /\ k.cookie = jar
        /\ \A d \in Tabs \ {b} : flight'[d] = flight[d] /\ (Busy(d)' <=> Busy(d))
    BY <1>1 DEF TypeOK, Busy, Idle
  <1>5. crossed \subseteq crossed' /\ \A d \in Tabs : Busy(d) => d \in crossed' /\ b \in crossed'
    BY <1>1 DEF Busy
  <1> HIDE DEF k, busy
  <1>6. MintInv'
    BY <1>1, <1>2, <1>4 DEF MintInv
  <1>7. CrossInv'
    BY <1>4, <1>5 DEF CrossInv
  <1>8. CarryInv'
    BY <1>1, <1>4, <1>5 DEF CarryInv
  <1>9. FreshInv'
    <2>1. \A d \in Tabs : flight'[d].op = "answer" =>
             d # b /\ flight'[d] = flight[d] /\ flight[d].op = "answer"
      BY <1>4
    <2>2. \A d \in Tabs : Busy(d)' => flight'[d].cookie = jar \/
             (Busy(d) /\ flight'[d].cookie = flight[d].cookie)
      BY <1>4
    <2> QED
      BY <1>1, <1>2, <2>1, <2>2 DEF FreshInv
  <1>10. ReplyInv'
    BY <1>1, <1>4 DEF ReplyInv
  <1>11. FirmInv'
    <2> SUFFICES ASSUME NEW s \in Works, s \in Sids, s \notin loose
                 PROVE  HeldFirmly(s)'
      BY <1>1, <1>2 DEF FirmInv
    <2>1. HeldFirmly(s)
      BY DEF FirmInv
    <2>2. \A d \in Tabs : flight[d].op \in {"answer", "delete"} => flight'[d] = flight[d]
      BY <1>4
    <2> QED
      BY <1>1, <2>1, <2>2 DEF HeldFirmly, SetRefreshCookie
  <1>12. ClearInv'
    BY <1>1, <1>2, <1>4, <1>5 DEF ClearInv, ClearRefreshCookie
  <1>13. OutInv'
    BY <1>1, <1>2 DEF OutInv
  <1> QED
    BY <1>3, <1>6, <1>7, <1>8, <1>9, <1>10, <1>11, <1>12, <1>13

\* What is common to the end of a request and the loss of the cookie: requests may
\* leave, none changes, no session is found again, and a new cookie does not clash
\* with an answer under way.
LEMMA QuietStep ==
    ASSUME Inv, TypeOK', Shrunk, loose \subseteq loose',
           \A d \in Tabs : flight'[d] = flight[d] \/ flight'[d] = Idle,
           \A d \in Tabs : flight'[d] # Idle => (d \in crossed' <=> d \in crossed),
           jar' # None => jar' \in minted,
           \A d \in Tabs : flight'[d].op = "answer" /\ flight[d].set.value # None =>
                              jar' # flight[d].set.value
    PROVE  MintInv' /\ CrossInv' /\ FreshInv' /\ ReplyInv' /\ ClearInv'
  <1> USE DEF Inv
  <1>1. /\ minted' = minted /\ home' = home
        /\ \A x \in Sids : x \in Works' => x \in Works /\ pair'[x] = pair[x]
        /\ \A x \in Sids : state[x] # "new" => state'[x] # "new"
    BY DEF Shrunk
  <1>2. \A d \in Tabs : Busy(d)' => flight'[d] = flight[d] /\ Busy(d)
    BY DEF Busy
  <1>3. \A d \in Tabs : flight'[d].op \in {"answer", "delete"} =>
           flight'[d] = flight[d] /\ Busy(d) /\ Busy(d)'
    BY DEF Busy, Idle
  <1>4. MintInv'
    BY <1>1, <1>2, <1>3 DEF MintInv
  <1>5. CrossInv'
    BY <1>2 DEF CrossInv, Busy
  <1>6. FreshInv'
    <2>1. \A d \in Tabs : flight[d].op = "answer" /\ flight[d].set.value # None =>
             home[flight[d].set.value] \in Sids
      BY DEF MintInv
    <2> QED
      BY <1>1, <1>2, <1>3, <2>1 DEF FreshInv
  <1>7. ReplyInv'
    BY <1>1, <1>3 DEF ReplyInv
  <1>8. ClearInv'
    <2> SUFFICES ASSUME NEW d \in Tabs, flight'[d].op = "answer",
                        flight'[d].to \in {"refresh", "logout"},
                        flight'[d].set = ClearRefreshCookie, flight'[d].cookie # None,
                        home[flight'[d].cookie] \in Works'
                 PROVE  home[flight'[d].cookie] \in loose' \/ d \in crossed'
      BY <1>1 DEF ClearInv, ClearRefreshCookie
    <2>1. flight'[d] = flight[d] /\ home[flight[d].cookie] \in Works /\ Busy(d)'
      BY <1>1, <1>3 DEF MintInv
    <2> QED
      BY <2>1 DEF ClearInv, Busy
  <1> QED
    BY <1>4, <1>5, <1>6, <1>7, <1>8

\* The sessions of drawn pairs are sessions.
LEMMA HomesSids ==
    ASSUME Inv, NEW T, \A t \in T : t = None \/ t \in minted
    PROVE  Homes(T) \subseteq Sids
  BY DEF Homes, Inv, MintInv

\* A step that leaves the store alone ends no session and draws no pair.
LEMMA StoreStill ==
    ASSUME TypeOK, UNCHANGED <<home, store>>
    PROVE  /\ StoreTypes' /\ Shrunk /\ Works' = Works
           /\ home' = home /\ pair' = pair /\ state' = state
  <1>1. home' = home /\ UNCHANGED store
    OBVIOUS
  <1>2. state' = state /\ pair' = pair
    BY <1>1 DEF store
  <1>3. StoreTypes' /\ Shrunk
    BY <1>1, ShrinkStep
  <1> QED
    BY <1>1, <1>2, <1>3 DEF Works, Working, Sessions!Working

\* The end of a request leaves the others alone.
LEMMA DoneFacts ==
    ASSUME TypeOK, NEW b \in Tabs, Done(b)
    PROVE  /\ flight' \in [Tabs -> Flight] /\ crossed' \in SUBSET Tabs
           /\ flight'[b] = Idle /\ \A d \in Tabs \ {b} : flight'[d] = flight[d]
           /\ \A d \in Tabs : flight'[d] = flight[d] \/ flight'[d] = Idle
           /\ \A d \in Tabs : flight'[d] # Idle => (d \in crossed' <=> d \in crossed)
  <1>1. Idle \in Flight
    BY DEF Flight
  <1> QED
    BY <1>1 DEF Done, TypeOK

\* A request or an answer that is lost keeps the invariant.
LEMMA LostStep ==
    ASSUME Inv, NEW b \in Tabs, Lost(b)
    PROVE  Inv'
  <1> USE DEF Inv
  <1> DEFINE v == flight[b].set.value
  <1>1. /\ flight[b].op \in {"sent", "answer"} /\ Done(b) /\ jar' = jar /\ out' = out
        /\ loose' = IF flight[b].op = "answer" THEN loose \cup Homes({v}) ELSE loose
        /\ UNCHANGED <<home, store>>
    BY DEF Lost
  <1>2. /\ StoreTypes' /\ Shrunk /\ Works' = Works
        /\ home' = home /\ pair' = pair /\ state' = state
    BY <1>1, StoreStill
  <1>3. /\ flight' \in [Tabs -> Flight] /\ crossed' \in SUBSET Tabs
        /\ flight'[b] = Idle /\ \A d \in Tabs \ {b} : flight'[d] = flight[d]
        /\ \A d \in Tabs : flight'[d] = flight[d] \/ flight'[d] = Idle
        /\ \A d \in Tabs : flight'[d] # Idle => (d \in crossed' <=> d \in crossed)
    BY <1>1, DoneFacts
  <1>4. loose \subseteq loose' /\ loose' \in SUBSET Sids
    <2>1. flight[b].op = "answer" => Homes({v}) \subseteq Sids
      BY HomesSids DEF MintInv
    <2> QED
      BY <1>1, <2>1 DEF TypeOK
  <1>5. TypeOK'
    BY <1>1, <1>2, <1>3, <1>4 DEF TypeOK, StoreTypes
  <1>6. MintInv' /\ CrossInv' /\ FreshInv' /\ ReplyInv' /\ ClearInv'
    <2>1. /\ jar' # None => jar' \in minted
          /\ \A d \in Tabs : flight'[d].op = "answer" /\ flight[d].set.value # None =>
                                jar' # flight[d].set.value
      BY <1>1, <1>3 DEF MintInv, FreshInv, Idle
    <2> QED
      BY <1>2, <1>3, <1>4, <1>5, <2>1, QuietStep
  <1>7. CarryInv'
    BY <1>1, <1>2, <1>3, <1>4 DEF CarryInv, Busy
  <1>8. FirmInv'
    <2> SUFFICES ASSUME NEW s \in Works, s \in Sids, s \notin loose'
                 PROVE  HeldFirmly(s)'
      BY <1>2 DEF FirmInv
    <2>1. HeldFirmly(s) /\ home[pair[s]] = s /\ pair[s] # None
      BY <1>4, NoneAssumption DEF FirmInv, MintInv, TypeOK
    <2>2. ASSUME flight[b].op = "answer", flight[b].set = SetRefreshCookie(pair[s])
          PROVE  FALSE
      BY <1>1, <2>1, <2>2 DEF Homes, SetRefreshCookie
    <2>3. \A d \in Tabs : d # b => flight'[d] = flight[d]
      BY <1>3
    <2> QED
      BY <1>1, <1>2, <2>1, <2>2, <2>3 DEF HeldFirmly, SetRefreshCookie
  <1>9. OutInv'
    BY <1>1, <1>2, <1>4 DEF OutInv
  <1> QED
    BY <1>5, <1>6, <1>7, <1>8, <1>9

\* A cookie that runs out or is removed keeps the invariant.
LEMMA CookieGoneStep ==
    ASSUME Inv, CookieGone
    PROVE  Inv'
  <1> USE DEF Inv
  <1>1. /\ jar # None /\ jar' = None /\ loose' = loose \cup Homes({jar})
        /\ flight' = flight /\ crossed' = crossed /\ out' = out
        /\ UNCHANGED <<home, store>>
    BY DEF CookieGone
  <1>2. /\ StoreTypes' /\ Shrunk /\ Works' = Works
        /\ home' = home /\ pair' = pair /\ state' = state
    BY <1>1, StoreStill
  <1>3. Homes({jar}) \subseteq Sids /\ home[jar] \in Homes({jar})
    BY <1>1, HomesSids DEF MintInv, Homes
  <1>4. TypeOK'
    BY <1>1, <1>2, <1>3 DEF TypeOK, StoreTypes
  <1>5. MintInv' /\ CrossInv' /\ FreshInv' /\ ReplyInv' /\ ClearInv'
    BY <1>1, <1>2, <1>4, QuietStep
  <1>6. CarryInv'
    BY <1>1, <1>2, <1>3 DEF CarryInv, Busy
  <1>7. FirmInv'
    <2> SUFFICES ASSUME NEW s \in Works, s \in Sids, s \notin loose'
                 PROVE  HeldFirmly(s)'
      BY <1>2 DEF FirmInv
    <2>1. HeldFirmly(s) /\ home[pair[s]] = s
      BY <1>1 DEF FirmInv, MintInv
    <2> QED
      BY <1>1, <1>2, <1>3, <2>1 DEF HeldFirmly, SetRefreshCookie
  <1>8. OutInv'
    BY <1>1, <1>2 DEF OutInv
  <1> QED
    BY <1>4, <1>5, <1>6, <1>7, <1>8

\* Sessions that end elsewhere keep the invariant.
LEMMA EndedElsewhereStep ==
    ASSUME Inv, EndedElsewhere
    PROVE  Inv'
  <1> USE DEF Inv
  <1>1. /\ jar' = jar /\ flight' = flight /\ crossed' = crossed
        /\ loose' = loose /\ out' = out /\ home' = home
        /\ (\E s \in Sids : Sessions!End(s)) \/ (\E u \in Users : Sessions!EndUser(u))
    BY DEF EndedElsewhere
  <1>2. StoreTypes' /\ Shrunk
    BY <1>1, ShrinkStep
  <1>3. TypeOK'
    BY <1>1, <1>2 DEF TypeOK, StoreTypes
  <1>4. MintInv' /\ CrossInv' /\ FreshInv' /\ ReplyInv' /\ ClearInv'
    <2>1. /\ jar' # None => jar' \in minted
          /\ \A d \in Tabs : flight'[d].op = "answer" /\ flight[d].set.value # None =>
                                jar' # flight[d].set.value
      BY <1>1 DEF MintInv, FreshInv
    <2> QED
      BY <1>1, <1>2, <1>3, <2>1, QuietStep
  <1>5. CarryInv'
    BY <1>1 DEF CarryInv, Busy
  <1>6. FirmInv'
    BY <1>1, <1>2 DEF FirmInv, Shrunk, HeldFirmly, SetRefreshCookie
  <1>7. OutInv'
    BY <1>1, <1>2 DEF OutInv, Shrunk, TypeOK
  <1> QED
    BY <1>3, <1>4, <1>5, <1>6, <1>7

\* An answer that arrives keeps the invariant.  The case that matters is the
\* session whose token the browser holds: the answer replaces that by the new one
\* of the same session, or it removes the cookie of a session that is over, or
\* the session is counted as loose.
LEMMA ArriveStep ==
    ASSUME Inv, NEW b \in Tabs, Arrive(b)
    PROVE  Inv'
  <1> USE DEF Inv
  <1> DEFINE k == flight[b]
             v == flight[b].set.value
             c == flight[b].cookie
             replaced == flight[b].set.sets /\ (b \in crossed \/ flight[b].to = "login")
  <1>1. /\ k.op = "answer" /\ Done(b) /\ UNCHANGED <<home, store>>
        /\ jar' = IF k.set.sets THEN v ELSE jar
        /\ loose' = IF replaced THEN loose \cup (Homes({jar, c}) \ Homes({v})) ELSE loose
        /\ out' = IF k.to = "logout" /\ k.ok THEN out \cup Homes({c}) ELSE out
    BY DEF Arrive
  <1>2. /\ StoreTypes' /\ Shrunk /\ Works' = Works
        /\ home' = home /\ pair' = pair /\ state' = state
    BY <1>1, StoreStill
  <1>3. /\ flight' \in [Tabs -> Flight] /\ crossed' \in SUBSET Tabs
        /\ flight'[b] = Idle /\ \A d \in Tabs \ {b} : flight'[d] = flight[d]
        /\ \A d \in Tabs : flight'[d] = flight[d] \/ flight'[d] = Idle
        /\ \A d \in Tabs : flight'[d] # Idle => (d \in crossed' <=> d \in crossed)
    BY <1>1, DoneFacts
  <1>4. /\ Busy(b) /\ k.to \in Kinds /\ k.set \in Cookies
        /\ k.set.sets \in BOOLEAN /\ v \in Tokens \cup {None}
    BY <1>1, FlightShape DEF TypeOK, Busy, Idle
  <1>5. (v # None => v \in minted) /\ (c # None => c \in minted) /\ (jar # None => jar \in minted)
    BY <1>1, <1>4 DEF MintInv
  <1>6. Homes({jar, c}) \subseteq Sids /\ Homes({c}) \subseteq Sids
    BY <1>5, HomesSids
  <1>7. loose \subseteq loose'
    BY <1>1
  <1>8. TypeOK'
    <2>1. jar' \in Tokens \cup {None}
      BY <1>1, <1>4 DEF TypeOK
    <2>2. loose' \in SUBSET Sids /\ out' \in SUBSET Sids
      BY <1>1, <1>6 DEF TypeOK
    <2> QED
      BY <1>1, <1>2, <1>3, <2>1, <2>2 DEF TypeOK, StoreTypes
  <1>9. MintInv' /\ CrossInv' /\ FreshInv' /\ ReplyInv' /\ ClearInv'
    <2>1. jar' # None => jar' \in minted
      BY <1>1, <1>5
    <2>2. ASSUME NEW d \in Tabs, flight'[d].op = "answer", flight[d].set.value # None
          PROVE  jar' # flight[d].set.value
      <3>1. d # b /\ flight[d].op = "answer"
        BY <1>3, <2>2 DEF Idle
      <3> QED
        BY <1>1, <2>2, <3>1 DEF FreshInv
    <2> QED
      BY <1>2, <1>3, <1>7, <1>8, <2>1, <2>2, QuietStep
  <1>10. CarryInv'
    \* The other requests under way are crossed, if by nothing else by this one.
    <2>1. \A d \in Tabs : Busy(d)' => d \in crossed'
      BY <1>3, <1>4 DEF CrossInv, Busy
    <2> QED
      BY <2>1 DEF CarryInv
  <1>11. FirmInv'
    <2> SUFFICES ASSUME NEW s \in Works, s \in Sids, s \notin loose'
                 PROVE  HeldFirmly(s)'
      BY <1>2 DEF FirmInv
    <2>1. HeldFirmly(s) /\ home[pair[s]] = s /\ pair[s] # None /\ s \notin loose
      BY <1>7, NoneAssumption DEF FirmInv, MintInv, TypeOK
    <2>2. v # None /\ home[v] = s => k.set.sets /\ v = pair[s]
      BY <1>1 DEF FreshInv
    <2>3. CASE jar = pair[s]
      <3>1. CASE ~k.set.sets
        BY <1>1, <1>2, <2>3, <3>1 DEF HeldFirmly
      <3>2. CASE replaced
        <4>1. s \in Homes({jar, c})
          BY <2>1, <2>3 DEF Homes
        <4>2. s \in Homes({v})
          BY <1>1, <3>2, <4>1
        <4>3. v = pair[s]
          BY <2>2, <4>2 DEF Homes
        <4> QED
          BY <1>1, <1>2, <3>2, <4>3 DEF HeldFirmly
      <3>3. CASE k.set.sets /\ b \notin crossed /\ k.to # "login"
        <4>1. c = jar /\ home[c] = s /\ k.to \in {"refresh", "logout"}
          BY <1>4, <2>1, <2>3, <3>3 DEF CarryInv, Kinds
        <4>2. v # None
          <5>1. v = None => k.set = ClearRefreshCookie
            BY <1>4, <3>3, CookieShape
          <5> QED
            BY <1>1, <2>1, <2>3, <3>3, <4>1, <5>1 DEF ClearInv
        <4>3. k.to = "refresh" /\ home[v] = home[c]
          BY <1>1, <4>1, <4>2 DEF ReplyInv
        <4> QED
          BY <1>1, <1>2, <2>2, <3>3, <4>1, <4>2, <4>3 DEF HeldFirmly
      <3> QED
        BY <1>4, <3>1, <3>2, <3>3
    <2>4. CASE k.set = SetRefreshCookie(pair[s])
      BY <1>1, <1>2, <2>4 DEF HeldFirmly, SetRefreshCookie
    <2>5. CASE jar # pair[s] /\ k.set # SetRefreshCookie(pair[s])
      <3>1. \A d \in Tabs : d # b => flight'[d] = flight[d]
        BY <1>3
      <3> QED
        BY <1>1, <1>2, <2>1, <2>5, <3>1 DEF HeldFirmly, SetRefreshCookie
    <2> QED
      BY <2>3, <2>4, <2>5
  <1>12. OutInv'
    <2>1. ASSUME k.to = "logout", k.ok, c # None
          PROVE  state[home[c]] # "new" /\ (home[c] \in Works => home[c] \in loose')
      <3>1. k.set = ClearRefreshCookie
        BY <1>1, <2>1 DEF ReplyInv
      <3>2. k.set.sets /\ v = None
        BY <3>1 DEF ClearRefreshCookie
      <3>3. home[c] \in Works => home[c] \in loose \/ b \in crossed
        BY <1>1, <2>1, <3>1 DEF ClearInv
      <3>4. b \in crossed => home[c] \in loose'
        BY <1>1, <2>1, <3>2 DEF Homes
      <3>5. state[home[c]] # "new"
        BY <1>5, <2>1 DEF MintInv
      <3> QED
        BY <1>7, <3>3, <3>4, <3>5
    <2> QED
      BY <1>1, <1>2, <1>7, <2>1 DEF OutInv, Homes
  <1> QED
    BY <1>8, <1>9, <1>10, <1>11, <1>12

-----------------------------------------------------------------------------
(***************************************************************************)
(* The theorems.                                                           *)
(***************************************************************************)
\* A step that changes nothing keeps the invariant.
LEMMA StutterStep == Inv /\ UNCHANGED vars => Inv'
  <1> SUFFICES ASSUME Inv, UNCHANGED vars PROVE Inv'
    OBVIOUS
  <1>1. /\ jar' = jar /\ flight' = flight /\ home' = home /\ crossed' = crossed
        /\ loose' = loose /\ out' = out
        /\ state' = state /\ owner' = owner /\ pair' = pair /\ minted' = minted
    BY DEF vars, store
  <1>2. Works' = Works
    BY <1>1 DEF Works, Working, Sessions!Working
  <1>3. TypeOK' /\ MintInv' /\ CrossInv' /\ CarryInv'
    BY <1>1, <1>2 DEF Inv, TypeOK, MintInv, CrossInv, CarryInv, Busy
  <1>4. FreshInv' /\ ReplyInv' /\ ClearInv' /\ OutInv'
    BY <1>1, <1>2 DEF Inv, FreshInv, ReplyInv, ClearInv, OutInv, Busy
  <1>5. FirmInv'
    BY <1>1, <1>2 DEF Inv, FirmInv, HeldFirmly
  <1> QED
    BY <1>3, <1>4, <1>5 DEF Inv

\* Every step keeps the invariant.
LEMMA InvStep == Inv /\ [Next]_vars => Inv'
  <1> SUFFICES ASSUME Inv, [Next]_vars PROVE Inv'
    OBVIOUS
  <1>1. ASSUME NEW b \in Tabs, NEW kind \in Kinds, Send(b, kind) PROVE Inv'
    BY <1>1, SendStep
  <1>2. ASSUME NEW b \in Tabs, NEW s \in Sids, NEW u \in Users, NEW t \in Tokens,
               Login(b, s, u, t)
        PROVE  Inv'
    BY <1>2, LoginStep
  <1>3. ASSUME NEW b \in Tabs, NEW s \in Sids, NEW t \in Tokens, Refresh(b, s, t) PROVE Inv'
    BY <1>3, RefreshStep
  <1>4. ASSUME NEW b \in Tabs, RefreshRefused(b) PROVE Inv'
    BY <1>4, RefreshRefusedStep
  <1>5. ASSUME NEW b \in Tabs, NEW s \in Sids, LogoutLookup(b, s) PROVE Inv'
    BY <1>5, LogoutLookupStep
  <1>6. ASSUME NEW b \in Tabs, LogoutFindsNone(b) PROVE Inv'
    BY <1>6, LogoutFindsNoneStep
  <1>7. ASSUME NEW b \in Tabs, Delete(b) PROVE Inv'
    BY <1>7, DeleteStep
  <1>8. ASSUME NEW b \in Tabs, DeleteFails(b) PROVE Inv'
    BY <1>8, DeleteFailsStep
  <1>9. ASSUME NEW b \in Tabs, Unavailable(b) PROVE Inv'
    BY <1>9, UnavailableStep
  <1>10. ASSUME NEW b \in Tabs, Arrive(b) PROVE Inv'
    BY <1>10, ArriveStep
  <1>11. ASSUME NEW b \in Tabs, Lost(b) PROVE Inv'
    BY <1>11, LostStep
  <1>12. CASE CookieGone
    BY <1>12, CookieGoneStep
  <1>13. CASE EndedElsewhere
    BY <1>13, EndedElsewhereStep
  <1>14. CASE UNCHANGED vars
    BY <1>14, StutterStep
  <1> QED
    BY <1>1, <1>2, <1>3, <1>4, <1>5, <1>6, <1>7, <1>8, <1>9, <1>10, <1>11, <1>12, <1>13, <1>14
       DEF Next

\* The invariant always holds.
LEMMA Invariance == Spec => []Inv
  BY InvInit, InvStep, PTL DEF Spec

\* Every variable of the browser and of its requests keeps its shape.
THEOREM TypeCorrect == Spec => []TypeOK
  <1>1. Inv => TypeOK
    BY DEF Inv
  <1> QED
    BY <1>1, Invariance, PTL

\* However the tabs' requests and answers interleave and fail, the browser keeps
\* hold of a session that works, unless it has had one of the named reasons to
\* lose it.
THEOREM BrowserKeepsSession == Spec => []HeldUnlessLoose
  BY InvImplies, Invariance, PTL

\* Refresh answers 401 and removes the cookie only when the session is over, was
\* lost hold of, or the request is crossed by another.
THEOREM RefusalJustified == Spec => []RefusedOnlyIfEnded
  BY InvImplies, Invariance, PTL

\* A session whose logout was confirmed does not work, unless the browser had
\* already had a reason to lose it.
THEOREM LogoutIsFinal == Spec => []LogoutFinal
  BY InvImplies, Invariance, PTL
=============================================================================
