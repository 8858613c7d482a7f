----------------------------- MODULE SessionsProofs ----------------------------
(* Theorems about Sessions: whoever a use case is called for had signed in and  *)
(* is current, for any people, tabs, ages and bounds.                           *)
EXTENDS Sessions, TLAPS

\* a number of tokens that grows keeps every request a request
LEMMA RequestsGrow ==
    ASSUME TypeOK, minted' \in {minted, minted + 1}
    PROVE  Requests \subseteq Requests'
  BY DEF TypeOK, Requests

\* a request put in the place of another
LEMMA RequestReplaced ==
    ASSUME SessionInv, minted' \in {minted, minted + 1}, staff' = staff,
           NEW t \in Tabs, NEW r \in Requests', Sound(r), req' = [req EXCEPT ![t] = r]
    PROVE  /\ req' \in [Tabs -> Requests']
           /\ \A u \in Tabs : Sound(req[u])'
<1>1. req' \in [Tabs -> Requests']
  BY RequestsGrow DEF SessionInv, TypeOK
<1>2. ASSUME NEW u \in Tabs PROVE Sound(req[u])'
  <2>1. Sound(req'[u])
    BY DEF SessionInv, TypeOK
  <2> QED BY <2>1 DEF Sound
<1> QED BY <1>1, <1>2

\* a step of the server changes one request, and may make a token
LEMMA ServerStep ==
    ASSUME SessionInv, minted' \in {minted, minted + 1},
           NEW t \in Tabs, NEW r \in Requests', Sound(r), Goes(t, r)
    PROVE  SessionInv'
<1>1. req' \in [Tabs -> Requests'] /\ \A u \in Tabs : Sound(req[u])'
  BY RequestReplaced DEF Goes
<1>2. minted' \in Nat /\ 0..minted \subseteq 0..minted'
  BY DEF SessionInv, TypeOK
<1>3. /\ jar' \in [session : SessionCookies, left : 0..Age, csrf : 0..minted', kept : 0..Age]
      /\ tab' \in [Tabs -> [page : Pages, token : 0..minted', age : 0..Age, crossed : BOOLEAN]]
  BY <1>2 DEF SessionInv, TypeOK, Goes
<1>4. TypeOK'
  BY <1>1, <1>2, <1>3 DEF SessionInv, TypeOK, Goes, SessionCookies, Persons, Actor, Pages
<1> QED BY <1>1, <1>4 DEF SessionInv

\* what is left of a request is one, and is no longer under way
LEMMA AnsweredIsFinal ==
    ASSUME SessionsAssumption, TypeOK, NEW r \in Requests, NEW a \in Answers
    PROVE  /\ Answered(r, a) \in Requests
           /\ Answered(r, a).pc = "answered"
           /\ Answered(r, a).answer = a
           /\ Answered(r, a).token = r.token
  BY DEF SessionsAssumption, TypeOK, Requests, Answered, NoSession, NoActor, SessionCookies, Persons

LEMMA NoRequestIsOne ==
    ASSUME 0 \in 0..minted, 0 \in 0..MaxTime
    PROVE  NoRequest \in Requests /\ NoRequest.pc = "idle"
<1>1. Nobody \in Persons /\ NoSession \in SessionCookies
  BY DEF Persons, SessionCookies, NoSession
<1> QED BY <1>1 DEF NoRequest, Requests, NoActor, Reads, Answers

LEMMA InitiallyHolds == ASSUME SessionsAssumption, Init PROVE SessionInv
<1>1. NoRequest \in Requests /\ NoRequest.pc = "idle"
  <2>1. minted \in Nat /\ 0 \in 0..minted /\ 0 \in 0..MaxTime
    BY DEF SessionsAssumption, Init
  <2> QED BY <2>1, NoRequestIsOne
<1>2. TypeOK
  <2>1. jar \in [session : SessionCookies, left : 0..Age, csrf : 0..minted, kept : 0..Age]
        /\ minted \in Nat
    BY DEF SessionsAssumption, Init, SessionCookies, NoSession, Persons
  <2>2. ((jar.session.who = Nobody) <=> (jar.left = 0)) /\ ((jar.csrf = 0) <=> (jar.kept = 0))
    BY DEF SessionsAssumption, Init, NoSession
  <2>3. tab \in [Tabs -> [page : Pages, token : 0..minted, age : 0..Age, crossed : BOOLEAN]]
    BY <2>1 DEF SessionsAssumption, Init, Pages
  <2>4. staff \subseteq Actor
    <3>1. \A p \in People : [who |-> p, teaches |-> TRUE] \in Actor
      BY DEF Actor
    <3> QED BY <3>1 DEF Init
  <2>5. now \in 0..MaxTime /\ budget \in [requests : Nat, changes : Nat]
    BY DEF SessionsAssumption, Init
  <2>7. out \in BOOLEAN
    BY DEF Init
  <2>6. req \in [Tabs -> Requests]
    BY <1>1 DEF Init
  <2> QED BY <2>1, <2>2, <2>3, <2>4, <2>5, <2>6, <2>7 DEF TypeOK
<1>3. \A t \in Tabs : Sound(req[t])
  BY <1>1 DEF Init, Sound
<1> QED BY <1>2, <1>3 DEF SessionInv

\* answers without a form in them
LEMMA PlainKeeps ==
    ASSUME SessionsAssumption, SessionInv, NEW t \in Tabs, NEW a \in {"error", "goodbye", "redirect"},
           Plain(t, req[t], a)
    PROVE  SessionInv'
<1>1. req[t] \in Requests /\ minted' = minted /\ minted \in Nat
  BY DEF SessionInv, TypeOK, Plain
<1>2. Answered(req[t], a) \in Requests' /\ Sound(Answered(req[t], a))
  <2>1. /\ Answered(req[t], a) \in Requests /\ Answered(req[t], a).pc = "answered"
        /\ Answered(req[t], a).answer = a
    <3>1. TypeOK /\ a \in Answers
      BY DEF SessionInv, Answers
    <3> QED BY <1>1, <3>1, AnsweredIsFinal
  <2> QED BY <1>1, <2>1, RequestsGrow DEF SessionInv, Sound
<1> QED BY <1>1, <1>2, ServerStep DEF Plain

LEMMA NextNumber == ASSUME NEW n \in Nat PROVE n + 1 \in 0..(n + 1) /\ n + 1 # 0
  OBVIOUS

\* pages, and the row of one
LEMMA PageKeeps ==
    ASSUME SessionsAssumption, SessionInv, NEW t \in Tabs,
           NEW a \in {"sign in page", "sheet", "record", "row"}, Page(t, req[t], a)
    PROVE  SessionInv'
<1> DEFINE page == [Answered(req[t], a) EXCEPT !.token = Token(req[t])]
<1>1. req[t] \in Requests /\ minted \in Nat /\ minted' \in {minted, minted + 1}
  BY DEF SessionInv, TypeOK, Page
<1>2. Token(req[t]) \in 0..minted' /\ Token(req[t]) # 0
  <2>1. req[t].csrf \in 0..minted
    BY <1>1 DEF Requests
  <2>2. minted' = IF req[t].csrf # 0 THEN minted ELSE minted + 1
    BY DEF Page
  <2>3. CASE req[t].csrf = 0
    <3>1. Token(req[t]) = minted + 1 /\ minted' = minted + 1
      BY <2>2, <2>3 DEF Token
    <3>2. minted + 1 \in 0..(minted + 1) /\ minted + 1 # 0
      BY <1>1, NextNumber
    <3> QED BY <3>1, <3>2
  <2>4. CASE req[t].csrf # 0
    <3>1. Token(req[t]) = req[t].csrf /\ minted' = minted
      BY <2>2, <2>4 DEF Token
    <3> QED BY <2>1, <2>4, <3>1
  <2> QED BY <2>3, <2>4
<1>3. /\ Answered(req[t], a) \in Requests' /\ Answered(req[t], a).pc = "answered"
      /\ Answered(req[t], a).answer = a
  <2>1. TypeOK /\ a \in Answers
    BY DEF SessionInv, Answers
  <2> QED BY <1>1, <2>1, AnsweredIsFinal, RequestsGrow
<1>4. page \in Requests' /\ page.pc = "answered" /\ page.answer = a /\ page.token # 0
  BY <1>2, <1>3 DEF Requests
<1>5. Sound(page)
  BY <1>4 DEF Sound
<1> QED BY <1>1, <1>4, <1>5, ServerStep DEF Page

\* the jar is one whatever an answer does to it
LEMMA StoredIsAJar ==
    ASSUME SessionsAssumption, TypeOK, NEW r \in Requests, Sound(r), r.pc = "answered"
    PROVE  /\ Stored(r) \in [session : SessionCookies, left : 0..Age, csrf : 0..minted, kept : 0..Age]
           /\ (Stored(r).session.who = Nobody) <=> (Stored(r).left = 0)
           /\ (Stored(r).csrf = 0) <=> (Stored(r).kept = 0)
<1>1. /\ jar.session \in SessionCookies /\ jar.left \in 0..Age
      /\ jar.csrf \in 0..minted /\ jar.kept \in 0..Age
      /\ (jar.session.who = Nobody) <=> (jar.left = 0)
      /\ (jar.csrf = 0) <=> (jar.kept = 0)
  BY DEF TypeOK
<1>2. /\ Age \in 0..Age /\ 0 \in 0..Age /\ Age # 0
      /\ NoSession \in SessionCookies /\ NoSession.who = Nobody
  BY DEF SessionsAssumption, SessionCookies, NoSession, Persons
<1>3. r.grant \in SessionCookies /\ r.token \in 0..minted
  BY DEF Requests
<1>4. /\ r.answer = "welcome" => r.grant.who # Nobody
      /\ Sets(r.answer) => r.token # 0
  BY DEF Sound, Sets
<1>5. /\ Stored(r).session \in SessionCookies /\ Stored(r).left \in 0..Age
      /\ (Stored(r).session.who = Nobody) <=> (Stored(r).left = 0)
  BY <1>1, <1>2, <1>3, <1>4 DEF Stored
<1>6. /\ Stored(r).csrf \in 0..minted /\ Stored(r).kept \in 0..Age
      /\ (Stored(r).csrf = 0) <=> (Stored(r).kept = 0)
  BY <1>1, <1>2, <1>3, <1>4 DEF Stored
<1>7. Stored(r) \in [session : SessionCookies, left : 0..Age, csrf : 0..minted, kept : 0..Age]
  BY <1>5, <1>6 DEF Stored
<1> QED BY <1>5, <1>6, <1>7

LEMMA StepKeeps == ASSUME SessionsAssumption, SessionInv, [Next]_vars PROVE SessionInv'
<1> USE SessionsAssumption
<1>1. ASSUME NEW t \in Tabs PROVE req[t] \in Requests /\ Sound(req[t])
  BY DEF SessionInv, TypeOK
<1>2. ASSUME NEW t \in Tabs,
             RefuseForm(t) \/ SignInForm(t) \/ SignOut(t) \/ SignIn(t) \/ ReadSession(t)
      PROVE  SessionInv'
  <2>0. req[t].pc = "sent" => staff \subseteq req[t].held
    BY <1>1 DEF Sound
  <2>1. CASE RefuseForm(t) \/ SignOut(t)
    BY <2>1, PlainKeeps DEF RefuseForm, SignOut
  <2>2. CASE SignInForm(t)
    BY <2>2, PageKeeps DEF SignInForm
  <2>3. CASE SignIn(t)
    <3> DEFINE r == [req[t] EXCEPT !.pc = "looking"]
    <3>1. Goes(t, r) /\ minted' = minted /\ req[t].pc = "sent"
      BY <2>3 DEF SignIn, Entering
    <3>2. r \in Requests'
      BY <1>1, <3>1, RequestsGrow DEF SessionInv, Requests
    <3>3. Sound(r)
      BY <1>1, <2>0, <3>1 DEF Sound, Requests
    <3> QED BY <3>1, <3>2, <3>3, ServerStep
  <2>4. CASE ReadSession(t)
    <3> DEFINE r == [req[t] EXCEPT !.pc = "known", !.read = now]
    <3>1. CASE Plain(t, req[t], "redirect")
      BY <3>1, PlainKeeps
    <3>2. CASE Valid(req[t].session) /\ Goes(t, r) /\ UNCHANGED minted
      <4>1. req[t].pc = "sent" /\ req[t].kind \in {"sheet", "record", "grade"}
        BY <2>4 DEF ReadSession, Entering
      <4>2. r \in Requests'
        BY <1>1, <3>2, RequestsGrow DEF SessionInv, TypeOK, Requests
      <4>3. /\ r.pc = "known" /\ r.kind = req[t].kind /\ r.held = req[t].held
            /\ r.read = now /\ r.session = req[t].session
        BY <1>1 DEF Requests
      <4>4. now - req[t].session.at <= Age
        BY <3>2 DEF Valid
      <4>5. Sound(r)
        BY <2>0, <4>1, <4>3, <4>4 DEF Sound
      <4> QED BY <3>2, <4>2, <4>5, ServerStep
    <3> QED BY <2>4, <3>1, <3>2 DEF ReadSession
  <2> QED BY <1>2, <2>1, <2>2, <2>3, <2>4
<1>3. ASSUME NEW t \in Tabs, LookUp(t) PROVE SessionInv'
  <2>1. CASE Page(t, req[t], "sign in page")
    BY <2>1, PageKeeps
  <2>2. CASE /\ UNCHANGED minted
             /\ \E a \in staff : a.who = req[t].typed
             /\ Goes(t, [Answered(req[t], "welcome") EXCEPT !.grant = [who |-> req[t].typed, at |-> now]])
    <3> DEFINE grant == [who |-> req[t].typed, at |-> now]
               r == [Answered(req[t], "welcome") EXCEPT !.grant = grant]
    <3>1. req[t].typed \in People /\ now \in 0..MaxTime
      BY <2>2 DEF SessionInv, TypeOK, Actor
    <3>2. grant \in SessionCookies /\ grant.who # Nobody
      BY <3>1 DEF SessionsAssumption, SessionCookies, Persons
    <3>3. /\ Answered(req[t], "welcome") \in Requests
          /\ Answered(req[t], "welcome").pc = "answered"
          /\ Answered(req[t], "welcome").answer = "welcome"
      BY <1>1, AnsweredIsFinal DEF SessionInv, Answers
    <3>4. r \in Requests /\ r.pc = "answered" /\ r.answer = "welcome" /\ r.grant = grant
      BY <3>2, <3>3 DEF Requests
    <3>5. r \in Requests' /\ Sound(r)
      BY <2>2, <3>2, <3>4, RequestsGrow DEF SessionInv, Sound
    <3> QED BY <2>2, <3>5, ServerStep
  <2> QED BY <1>3, <2>1, <2>2 DEF LookUp
<1>4. ASSUME NEW t \in Tabs, Resolve(t) PROVE SessionInv'
  <2>1. CASE Plain(t, req[t], "redirect")
    BY <2>1, PlainKeeps
  <2>2. ASSUME NEW a \in staff, a.who = req[t].session.who, UNCHANGED minted,
               Goes(t, [req[t] EXCEPT !.pc = "acting", !.actor = a])
        PROVE  SessionInv'
    <3> DEFINE r == [req[t] EXCEPT !.pc = "acting", !.actor = a]
    <3>1. a \in [who : Persons, teaches : BOOLEAN]
      BY DEF SessionInv, TypeOK, Actor, Persons
    <3>2. r \in Requests'
      BY <1>1, <2>2, <3>1, RequestsGrow DEF SessionInv, Requests
    <3>3. Sound(r)
      BY <1>1, <1>4, <2>2 DEF Resolve, Sound, Requests
    <3> QED BY <2>2, <3>2, <3>3, ServerStep
  <2> QED BY <1>4, <2>1, <2>2 DEF Resolve
<1>5. ASSUME NEW t \in Tabs, Refuse(t) \/ ShowSheet(t) \/ ShowRecord(t) \/ RecordGrade(t)
      PROVE  SessionInv'
  BY <1>5, PlainKeeps, PageKeeps DEF Refuse, ShowSheet, ShowRecord, RecordGrade
<1>6. ASSUME NEW t \in Tabs, NEW kind \in Reads \cup Unsafe, NEW p \in Persons, Send(t, kind, p)
      PROVE  SessionInv'
  <2> DEFINE token == IF kind \in Unsafe THEN tab[t].token ELSE 0
             r == Request(kind, p, token, jar, out)
  <2>1. token \in 0..minted
    BY DEF SessionInv, TypeOK
  <2>2. r \in Requests /\ Sound(r)
    <3>1. /\ jar.session \in SessionCookies /\ jar.csrf \in 0..minted /\ out \in BOOLEAN
          /\ staff \in SUBSET Actor /\ 0 \in 0..MaxTime /\ NoSession \in SessionCookies
          /\ Nobody \in Persons
      BY DEF SessionInv, TypeOK, SessionsAssumption, SessionCookies, NoSession, Persons
    <3>2. r \in Requests
      BY <2>1, <3>1 DEF Request, Requests, NoActor, Answers
    <3>3. r.pc = "sent" /\ r.held = staff
      BY DEF Request
    <3> QED BY <3>2, <3>3 DEF Sound
  <2>3. minted' = minted /\ minted \in Nat /\ staff' = staff /\ req' = [req EXCEPT ![t] = r]
    BY <1>6 DEF Send, SessionInv, TypeOK
  <2>4. req' \in [Tabs -> Requests'] /\ \A u \in Tabs : Sound(req[u])'
    BY <2>2, <2>3, RequestsGrow, RequestReplaced DEF SessionInv
  <2>5. budget' \in [requests : Nat, changes : Nat]
    <3>0. budget \in [requests : Nat, changes : Nat] /\ budget.requests > 0
      BY <1>6 DEF Send, SessionInv, TypeOK
    <3>1. budget \in [requests : Nat, changes : Nat] /\ budget.requests - 1 \in Nat
      BY <3>0
    <3>2. budget' = [budget EXCEPT !.requests = budget.requests - 1]
      BY <1>6 DEF Send
    <3> QED BY <3>1, <3>2
  <2> QED BY <1>6, <2>4, <2>5 DEF Send, SessionInv, TypeOK
<1>7. ASSUME NEW t \in Tabs, Close(t) PROVE SessionInv'
  <2>1. minted' = minted /\ minted \in Nat /\ staff' = staff /\ req' = [req EXCEPT ![t] = NoRequest]
    BY <1>7 DEF Close, SessionInv, TypeOK
  <2>2. NoRequest \in Requests' /\ Sound(NoRequest)
    <3>1. 0 \in 0..minted /\ 0 \in 0..MaxTime
      BY <2>1 DEF SessionsAssumption
    <3> QED BY <2>1, <3>1, NoRequestIsOne, RequestsGrow DEF SessionInv, Sound
  <2>3. req' \in [Tabs -> Requests'] /\ \A u \in Tabs : Sound(req[u])'
    BY <2>1, <2>2, RequestReplaced
  <2>4. tab' \in [Tabs -> [page : Pages, token : 0..minted', age : 0..Age, crossed : BOOLEAN]]
    <3> DEFINE blank == [page |-> "blank", token |-> 0, age |-> 0, crossed |-> FALSE]
               Shows == [page : Pages, token : 0..minted', age : 0..Age, crossed : BOOLEAN]
    <3>1. 0 \in 0..minted' /\ 0 \in 0..Age /\ "blank" \in Pages
      BY <2>1 DEF SessionsAssumption, Pages
    <3>2. blank \in Shows
      BY <3>1
    <3>3. tab \in [Tabs -> Shows]
      BY <2>1 DEF SessionInv, TypeOK
    <3>4. tab' = [tab EXCEPT ![t] = blank]
      BY <1>7 DEF Close
    <3> HIDE DEF blank, Shows
    <3>5. tab' \in [Tabs -> Shows]
      BY <3>2, <3>3, <3>4
    <3> QED BY <3>5 DEF Shows
  <2> QED BY <1>7, <2>3, <2>4 DEF Close, SessionInv, TypeOK
<1>8. ASSUME NEW p \in People, NEW roles \in {{}, {TRUE}, {FALSE}}, ChangePerson(p, roles)
      PROVE  SessionInv'
  <2> DEFINE changed == {a \in staff : a.who # p} \cup {[who |-> p, teaches |-> b] : b \in roles}
  <2>1. changed \subseteq Actor /\ staff' = changed
    <3>1. staff \subseteq Actor /\ staff' = changed
      BY <1>8 DEF ChangePerson, SessionInv, TypeOK
    <3>2. ASSUME NEW b \in roles PROVE [who |-> p, teaches |-> b] \in Actor
      BY DEF Actor
    <3> QED BY <3>1, <3>2
  <2>2. ASSUME NEW u \in Tabs
        PROVE  req'[u] \in Requests /\ Sound(req[u])'
    <3>1. CASE req[u].pc \in {"idle", "answered"}
      <4>1. req'[u] = req[u]
        BY <1>8, <3>1 DEF ChangePerson
      <4> QED BY <1>1, <3>1, <4>1 DEF Sound
    <3>2. CASE req[u].pc \notin {"idle", "answered"}
      <4>1. req'[u] = [req[u] EXCEPT !.held = @ \cup changed]
        BY <1>8, <3>2 DEF ChangePerson
      <4>2. req'[u] \in Requests
        BY <1>1, <2>1, <4>1 DEF Requests
      <4>3. Sound(req[u])'
        <5>1. /\ req'[u].pc = req[u].pc /\ req'[u].kind = req[u].kind
              /\ req'[u].held = req[u].held \cup changed
              /\ req'[u].read = req[u].read /\ req'[u].session = req[u].session
              /\ req'[u].actor = req[u].actor
          BY <1>1, <4>1 DEF Requests
        <5>2. staff' = changed /\ req[u].pc # "answered"
          BY <2>1, <3>2
        <5> HIDE DEF changed
        <5> QED BY <1>1, <5>1, <5>2 DEF Sound
      <4> QED BY <4>2, <4>3
    <3> QED BY <3>1, <3>2
  <2>3. req' \in [Tabs -> Requests]
    BY <1>8, <2>2 DEF ChangePerson
  <2>4. budget' \in [requests : Nat, changes : Nat] /\ minted' = minted
    BY <1>8 DEF ChangePerson, SessionInv, TypeOK
  <2>5. Requests' = Requests
    BY <2>4 DEF Requests
  <2> QED BY <1>8, <2>1, <2>2, <2>3, <2>4, <2>5 DEF ChangePerson, SessionInv, TypeOK
<1>9. ASSUME NEW t \in Tabs, Arrive(t) PROVE SessionInv'
  <2>1. minted' = minted /\ minted \in Nat /\ staff' = staff /\ req[t].pc = "answered"
    BY <1>9 DEF Arrive, SessionInv, TypeOK
  <2>2. /\ jar' \in [session : SessionCookies, left : 0..Age, csrf : 0..minted, kept : 0..Age]
        /\ (jar'.session.who = Nobody) <=> (jar'.left = 0)
        /\ (jar'.csrf = 0) <=> (jar'.kept = 0)
    <3>1. jar' = Stored(req[t])
      BY <1>9 DEF Arrive
    <3> QED BY <1>1, <2>1, <3>1, StoredIsAJar DEF SessionInv
  <2>3. out' \in BOOLEAN
    BY <1>9 DEF Arrive
  <2> DEFINE Shows == [page : Pages, token : 0..minted', age : 0..Age, crossed : BOOLEAN]
             next == IF req[t].answer \in {"welcome", "goodbye", "redirect"}
                     THEN Request("sign in page", Nobody, 0, jar', out') ELSE NoRequest
  <2>4. tab' \in [Tabs -> Shows]
    <3>1. tab \in [Tabs -> Shows] /\ tab' = [tab EXCEPT ![t] = Shown(t, req[t])]
      BY <1>9, <2>1 DEF Arrive, SessionInv, TypeOK
    <3>2. Shown(t, req[t]) \in Shows
      <4>1. tab[t] \in Shows /\ req[t].token \in 0..minted' /\ 0 \in 0..minted' /\ 0 \in 0..Age
        BY <1>1, <2>1, <3>1 DEF Requests, SessionsAssumption
      <4>2. Crossing(t, req[t].token) \in BOOLEAN
        BY DEF Crossing
      <4>3. "error" \in Pages /\ {"sign in page", "sheet", "record"} \subseteq Pages
        BY DEF Pages
      <4> QED BY <4>1, <4>2, <4>3 DEF Shown
    <3> HIDE DEF Shows
    <3> QED BY <3>1, <3>2
  <2>5. next \in Requests /\ Sound(next)
    <3>1. /\ 0 \in 0..minted /\ 0 \in 0..MaxTime
          /\ jar'.session \in SessionCookies /\ jar'.csrf \in 0..minted
          /\ NoSession \in SessionCookies /\ Nobody \in Persons /\ staff \in SUBSET Actor
      BY <2>1, <2>2 DEF SessionInv, TypeOK, SessionsAssumption, SessionCookies, NoSession, Persons
    <3>2. NoRequest \in Requests /\ NoRequest.pc = "idle"
      BY <3>1, NoRequestIsOne
    <3> DEFINE r == Request("sign in page", Nobody, 0, jar', out')
    <3>3. r \in Requests
      BY <2>3, <3>1 DEF Request, Requests, NoActor, Answers, Reads
    <3>4. r.pc = "sent" /\ r.held = staff
      BY DEF Request
    <3> HIDE DEF r
    <3>5. Sound(r) /\ Sound(NoRequest)
      BY <3>2, <3>4 DEF Sound
    <3> QED BY <3>2, <3>3, <3>5 DEF r
  <2>6. req' = [req EXCEPT ![t] = next]
    BY <1>9 DEF Arrive
  <2> HIDE DEF next, Shows
  <2>7. req' \in [Tabs -> Requests'] /\ \A u \in Tabs : Sound(req[u])'
    BY <2>1, <2>5, <2>6, RequestsGrow, RequestReplaced DEF SessionInv
  <2>8. UNCHANGED <<now, staff, minted, budget>>
    BY <1>9 DEF Arrive
  <2> QED BY <2>1, <2>2, <2>3, <2>4, <2>7, <2>8 DEF SessionInv, TypeOK, Shows, SessionCookies
<1>10. CASE Tick
  <2>1. now \in 0..MaxTime /\ now' = now + 1 /\ now' \in 0..MaxTime
    BY <1>10 DEF Tick, SessionInv, TypeOK, SessionsAssumption
  <2>2. /\ jar' \in [session : SessionCookies, left : 0..Age, csrf : 0..minted, kept : 0..Age]
        /\ (jar'.session.who = Nobody) <=> (jar'.left = 0)
        /\ (jar'.csrf = 0) <=> (jar'.kept = 0)
    <3>1. /\ jar.session \in SessionCookies /\ NoSession \in SessionCookies /\ NoSession.who = Nobody
          /\ jar.left \in 0..Age /\ jar.csrf \in 0..minted /\ jar.kept \in 0..Age
          /\ (jar.session.who = Nobody) <=> (jar.left = 0)
          /\ (jar.csrf = 0) <=> (jar.kept = 0)
          /\ Age \in Nat /\ minted \in Nat
      BY DEF SessionInv, TypeOK, SessionsAssumption, SessionCookies, NoSession, Persons
    <3>2. /\ jar'.session = IF jar.left <= 1 THEN NoSession ELSE jar.session
          /\ jar'.left = Less(jar.left) /\ jar'.kept = Less(jar.kept)
          /\ jar'.csrf = IF jar.kept <= 1 THEN 0 ELSE jar.csrf
      BY <1>10 DEF Tick
    <3>3. /\ jar'.session \in SessionCookies /\ jar'.left \in 0..Age
          /\ jar'.csrf \in 0..minted /\ jar'.kept \in 0..Age
      BY <3>1, <3>2 DEF Less
    <3>4. /\ (jar'.session.who = Nobody) <=> (jar'.left = 0)
          /\ (jar'.csrf = 0) <=> (jar'.kept = 0)
      BY <3>1, <3>2 DEF Less
    <3> QED BY <1>10, <3>3, <3>4 DEF Tick
  <2>3. tab' \in [Tabs -> [page : Pages, token : 0..minted, age : 0..Age, crossed : BOOLEAN]]
    BY <1>10 DEF Tick, SessionInv, TypeOK, SessionsAssumption
  <2>4. UNCHANGED <<staff, req, minted, budget, out>>
    BY <1>10 DEF Tick
  <2>5. \A u \in Tabs : Sound(req[u])'
    BY <2>4 DEF SessionInv, Sound
  <2> QED BY <2>1, <2>2, <2>3, <2>4, <2>5 DEF SessionInv, TypeOK, Requests
<1>11. CASE UNCHANGED vars
  BY <1>11 DEF vars, SessionInv, TypeOK, Sound, Requests
<1> QED BY <1>2, <1>3, <1>4, <1>5, <1>6, <1>7, <1>8, <1>9, <1>10, <1>11 DEF Next

\* security.py, dependencies.py: the types, and what a request under way knows, in every
\* behaviour.
THEOREM SessionsSound == Spec => []SessionInv
  BY InitiallyHolds, StepKeeps, SessionsAssumption, PTL DEF Spec

\* dependencies.py, current_actor: whoever a use case is called for signed in no longer than
\* Age before, and is somebody who existed, with just those roles, while the request was there.
THEOREM SessionsCurrent == Spec => []ActorIsCurrent
<1>1. SessionInv => ActorIsCurrent
  BY DEF SessionInv, Sound, ActorIsCurrent
<1> QED BY <1>1, SessionsSound, PTL

--------------------------------------------------------------------------------
\* a browser told to drop its session has none, nor has any request it sends from then on
Dropped(r) == r.after => r.session.who = Nobody /\ r.pc \notin {"known", "acting"}
OutInv == /\ out => jar.session.who = Nobody
          /\ \A t \in Tabs : Dropped(req[t])

\* one request in the place of another, everything else as it was
LEMMA DropReplaced ==
    ASSUME OutInv, TypeOK, NEW t \in Tabs, NEW r, Dropped(r), req' = [req EXCEPT ![t] = r],
           out' => jar'.session.who = Nobody
    PROVE  OutInv'
<1>1. ASSUME NEW u \in Tabs PROVE Dropped(req'[u])
  BY DEF OutInv, TypeOK
<1> QED BY <1>1 DEF OutInv, Dropped

LEMMA FreshIsDropped ==
    /\ Dropped(NoRequest)
    /\ \A kind, p, token, after, cookies :
         (after => cookies.session.who = Nobody) => Dropped(Request(kind, p, token, cookies, after))
  BY DEF Dropped, NoRequest, Request

LEMMA AnsweredIsDropped ==
    ASSUME NEW r, NEW a
    PROVE  /\ Dropped(Answered(r, a))
           /\ \A token : Dropped([Answered(r, a) EXCEPT !.token = token])
           /\ \A grant : Dropped([Answered(r, a) EXCEPT !.grant = grant])
  BY DEF Dropped, Answered, NoSession

\* whatever the server answers drops nothing
LEMMA AnswersDrop ==
    ASSUME OutInv, TypeOK, NEW t \in Tabs, NEW a, Plain(t, req[t], a) \/ Page(t, req[t], a)
    PROVE  OutInv'
<1>1. PICK r : Dropped(r) /\ Goes(t, r)
  BY AnsweredIsDropped DEF Plain, Page
<1> QED BY <1>1, DropReplaced DEF Goes, OutInv

LEMMA OutStep == ASSUME SessionsAssumption, TypeOK, OutInv, [Next]_vars PROVE OutInv'
<1>1. ASSUME NEW t \in Tabs PROVE req[t] \in Requests /\ Dropped(req[t])
  BY DEF TypeOK, OutInv
<1>2. ASSUME NEW t \in Tabs, NEW kind \in Reads \cup Unsafe, NEW p \in Persons, Send(t, kind, p)
      PROVE  OutInv'
  <2> DEFINE r == Request(kind, p, IF kind \in Unsafe THEN tab[t].token ELSE 0, jar, out)
  <2>1. Dropped(r)
    BY FreshIsDropped DEF OutInv
  <2>2. req' = [req EXCEPT ![t] = r] /\ UNCHANGED <<jar, out>>
    BY <1>2 DEF Send
  <2> HIDE DEF r
  <2> QED BY <2>1, <2>2, DropReplaced DEF OutInv
<1>3. ASSUME NEW t \in Tabs, Close(t) PROVE OutInv'
  BY <1>3, FreshIsDropped, DropReplaced DEF Close, OutInv
<1>4. ASSUME NEW t \in Tabs,
             RefuseForm(t) \/ SignInForm(t) \/ SignOut(t) \/ SignIn(t) \/ ReadSession(t)
      PROVE  OutInv'
  <2>1. CASE RefuseForm(t) \/ SignInForm(t) \/ SignOut(t)
    BY <2>1, AnswersDrop DEF RefuseForm, SignInForm, SignOut
  <2>2. CASE SignIn(t)
    <3>1. Dropped([req[t] EXCEPT !.pc = "looking"])
      BY <1>1 DEF Dropped, Requests
    <3> QED BY <2>2, <3>1, DropReplaced DEF SignIn, Goes, OutInv
  <2>3. CASE ReadSession(t)
    <3> DEFINE r == [req[t] EXCEPT !.pc = "known", !.read = now]
    <3>1. CASE Plain(t, req[t], "redirect")
      BY <3>1, AnswersDrop
    <3>2. CASE Valid(req[t].session) /\ Goes(t, r)
      <4>1. r.after = req[t].after /\ req[t].session.who # Nobody
        BY <1>1, <3>2 DEF Valid, Requests
      <4>2. Dropped(r)
        BY <1>1, <4>1 DEF Dropped
      <4> QED BY <3>2, <4>2, DropReplaced DEF Goes, OutInv
    <3> QED BY <2>3, <3>1, <3>2 DEF ReadSession
  <2> QED BY <1>4, <2>1, <2>2, <2>3
<1>5. ASSUME NEW t \in Tabs, LookUp(t) PROVE OutInv'
  <2>1. CASE Page(t, req[t], "sign in page")
    BY <2>1, AnswersDrop
  <2>2. CASE Goes(t, [Answered(req[t], "welcome") EXCEPT !.grant = [who |-> req[t].typed, at |-> now]])
    <3>1. Dropped([Answered(req[t], "welcome") EXCEPT !.grant = [who |-> req[t].typed, at |-> now]])
      BY AnsweredIsDropped
    <3> QED BY <2>2, <3>1, DropReplaced DEF Goes, OutInv
  <2> QED BY <1>5, <2>1, <2>2 DEF LookUp
<1>6. ASSUME NEW t \in Tabs, Resolve(t) PROVE OutInv'
  <2>1. CASE Plain(t, req[t], "redirect")
    BY <2>1, AnswersDrop
  <2>2. ASSUME NEW a \in staff, Goes(t, [req[t] EXCEPT !.pc = "acting", !.actor = a]),
               req[t].pc = "known"
        PROVE  OutInv'
    <3> DEFINE r == [req[t] EXCEPT !.pc = "acting", !.actor = a]
    <3>1. r.after = req[t].after
      BY <1>1 DEF Requests
    <3>2. Dropped(r)
      BY <1>1, <2>2, <3>1 DEF Dropped
    <3> QED BY <2>2, <3>2, DropReplaced DEF Goes, OutInv
  <2> QED BY <1>6, <2>1, <2>2 DEF Resolve
<1>7. ASSUME NEW t \in Tabs, Refuse(t) \/ ShowSheet(t) \/ ShowRecord(t) \/ RecordGrade(t)
      PROVE  OutInv'
  BY <1>7, AnswersDrop DEF Refuse, ShowSheet, ShowRecord, RecordGrade
<1>8. ASSUME NEW t \in Tabs, Arrive(t) PROVE OutInv'
  <2> DEFINE next == IF req[t].answer \in {"welcome", "goodbye", "redirect"}
                     THEN Request("sign in page", Nobody, 0, jar', out') ELSE NoRequest
  <2>1. out' => jar'.session.who = Nobody
    BY <1>8 DEF Arrive, Stored, NoSession, OutInv
  <2>2. Dropped(next)
    BY <2>1, FreshIsDropped
  <2>3. req' = [req EXCEPT ![t] = next]
    BY <1>8 DEF Arrive
  <2> HIDE DEF next
  <2> QED BY <2>1, <2>2, <2>3, DropReplaced
<1>9. ASSUME NEW p \in People, NEW roles \in {{}, {TRUE}, {FALSE}}, ChangePerson(p, roles)
      PROVE  OutInv'
  <2>1. UNCHANGED <<jar, out>>
    BY <1>9 DEF ChangePerson
  <2>2. ASSUME NEW u \in Tabs
        PROVE  /\ req'[u].after = req[u].after /\ req'[u].pc = req[u].pc
               /\ req'[u].session = req[u].session
    BY <1>1, <1>9 DEF ChangePerson, Requests
  <2>3. ASSUME NEW u \in Tabs PROVE Dropped(req[u])'
    BY <1>1, <2>2 DEF Dropped
  <2> QED BY <2>1, <2>3 DEF OutInv
<1>10. CASE Tick
  BY <1>10 DEF Tick, OutInv, Dropped, NoSession
<1>11. CASE UNCHANGED vars
  BY <1>11 DEF vars, OutInv, Dropped
<1> QED BY <1>2, <1>3, <1>4, <1>5, <1>6, <1>7, <1>8, <1>9, <1>10, <1>11 DEF Next

\* auth.py, sign_out: once the browser has been told to drop its session, no request it sends
\* acts for anybody until an answer gives it a session again.
THEOREM SessionsSignedOut == Spec => []SignedOutStaysOut
<1>1. Init => OutInv
  BY DEF Init, OutInv, Dropped, NoRequest
<1>2. SessionInv /\ OutInv /\ [Next]_vars => OutInv'
  BY OutStep, SessionsAssumption DEF SessionInv
<1>3. OutInv => SignedOutStaysOut
  BY DEF OutInv, Dropped, SignedOutStaysOut
<1> QED BY <1>1, <1>2, <1>3, SessionsSound, PTL DEF Spec

--------------------------------------------------------------------------------
(* The forms: csrf.py, token_for and the cookie it goes with. *)

\* a page answers with the token its request came with, if it came with one
Echoes(r) ==
    r.pc = "answered" /\ r.answer \in {"sign in page", "sheet", "record", "row"} /\ r.csrf # 0
        => r.token = r.csrf

\* a page that the property speaks of
Lasts(t) == Sets(tab[t].page) /\ tab[t].age < Age /\ ~tab[t].crossed

\* its token is the cookie's, which lasts as long, and every request under way carries it
Carried(t) ==
    Lasts(t) =>
        /\ tab[t].token # 0
        /\ jar.csrf = tab[t].token
        /\ jar.kept + tab[t].age >= Age
        /\ \A u \in Tabs : req[u].pc # "idle" => req[u].csrf = tab[t].token

FormsInv == \A t \in Tabs : Echoes(req[t]) /\ Carried(t)

\* a request goes on, or ends, with the cookie it came with; or it is one just sent
LEMMA FormsReplaced ==
    ASSUME TypeOK, FormsInv, NEW t \in Tabs, NEW r, req' = [req EXCEPT ![t] = r], Echoes(r),
           \/ r.pc = "idle"
           \/ r.csrf = jar.csrf
           \/ req[t].pc # "idle" /\ r.csrf = req[t].csrf,
           UNCHANGED <<jar, tab>>
    PROVE  FormsInv'
<1>1. ASSUME NEW u \in Tabs PROVE req'[u] = IF u = t THEN r ELSE req[u]
  BY DEF TypeOK
<1>2. ASSUME NEW u \in Tabs PROVE Echoes(req[u])'
  BY <1>1 DEF FormsInv, Echoes
<1>3. ASSUME NEW u \in Tabs PROVE Carried(u)'
  <2>1. Carried(u) /\ (Lasts(u)' <=> Lasts(u))
    BY DEF FormsInv, Lasts
  <2>2. ASSUME Lasts(u), NEW v \in Tabs, req'[v].pc # "idle"
        PROVE  req'[v].csrf = tab[u].token
    BY <1>1, <2>1, <2>2 DEF Carried
  <2> QED BY <2>1, <2>2 DEF Carried
<1> QED BY <1>2, <1>3 DEF FormsInv

LEMMA AnsweredEchoes ==
    ASSUME NEW r, NEW a
    PROVE  /\ Answered(r, a).pc = "answered" /\ Answered(r, a).answer = a
           /\ Answered(r, a).csrf = r.csrf
           /\ LET page == [Answered(r, a) EXCEPT !.token = Token(r)] IN
                page.pc = "answered" /\ page.csrf = r.csrf /\ Echoes(page)
           /\ a \notin {"sign in page", "sheet", "record", "row"} =>
                Echoes(Answered(r, a))
  BY DEF Answered, Echoes, Token

\* every answer of the server, but a welcome
LEMMA FormsAnswered ==
    ASSUME TypeOK, FormsInv, NEW t \in Tabs, req[t].pc # "idle",
           NEW a, \/ Plain(t, req[t], a) /\ a \in {"error", "goodbye", "redirect"}
                  \/ Page(t, req[t], a)
    PROVE  FormsInv'
<1>1. ASSUME NEW r, Goes(t, r), Echoes(r), r.csrf = req[t].csrf PROVE FormsInv'
  BY <1>1, FormsReplaced DEF Goes
<1>2. CASE Plain(t, req[t], a) /\ a \in {"error", "goodbye", "redirect"}
  <2>1. Echoes(Answered(req[t], a)) /\ Answered(req[t], a).csrf = req[t].csrf
    BY <1>2, AnsweredEchoes
  <2> QED BY <1>1, <1>2, <2>1 DEF Plain
<1>3. CASE Page(t, req[t], a)
  <2> DEFINE r == [Answered(req[t], a) EXCEPT !.token = Token(req[t])]
  <2>1. Echoes(r) /\ r.csrf = req[t].csrf
    BY AnsweredEchoes
  <2>2. Goes(t, r)
    BY <1>3 DEF Page
  <2> HIDE DEF r
  <2> QED BY <1>1, <2>1, <2>2
<1> QED BY <1>2, <1>3

LEMMA FormsTick == ASSUME SessionsAssumption, TypeOK, FormsInv, Tick PROVE FormsInv'
<1>1. ASSUME NEW t \in Tabs
      PROVE  /\ tab'[t].page = tab[t].page /\ tab'[t].token = tab[t].token
             /\ tab'[t].crossed = tab[t].crossed
             /\ tab'[t].age = IF tab[t].age < Age THEN tab[t].age + 1 ELSE tab[t].age
  BY DEF Tick, TypeOK
<1>2. jar'.kept = Less(jar.kept) /\ jar'.csrf = (IF jar.kept <= 1 THEN 0 ELSE jar.csrf) /\ req' = req
  BY DEF Tick
<1>3. ASSUME NEW t \in Tabs PROVE Carried(t)'
  <2> SUFFICES ASSUME Lasts(t)' PROVE Carried(t)'
    BY DEF Carried
  <2>1. tab[t].age \in 0..Age /\ jar.kept \in 0..Age /\ Age \in Nat
    BY DEF TypeOK, SessionsAssumption
  <2>2. Lasts(t) /\ tab[t].age + 1 < Age /\ tab'[t].age = tab[t].age + 1
    BY <1>1, <2>1 DEF Lasts
  <2>3. Carried(t)
    BY DEF FormsInv
  <2>4. jar.kept > 1 /\ Less(jar.kept) + (tab[t].age + 1) >= Age
    BY <2>1, <2>2, <2>3 DEF Carried, Less
  <2>5. jar'.csrf = jar.csrf /\ jar'.kept + tab'[t].age >= Age
    BY <1>2, <2>1, <2>2, <2>4
  <2> QED BY <1>1, <1>2, <2>2, <2>3, <2>5 DEF Carried
<1> QED BY <1>2, <1>3 DEF FormsInv, Echoes

LEMMA PageShown ==
    ASSUME NEW x, NEW p, NEW k, NEW b \in BOOLEAN,
           x = [page |-> p, token |-> k, age |-> 0, crossed |-> b]
    PROVE  x.page = p /\ x.crossed = b
  OBVIOUS

\* An answer arrives.  The page it brings is crossed by the requests of other tabs that came
\* without its token, and brings another page's token only if that one was, too.
LEMMA FormsArrive ==
    ASSUME SessionsAssumption, SessionInv, FormsInv, NEW t \in Tabs, Arrive(t)
    PROVE  FormsInv'
<1> DEFINE next == IF req[t].answer \in {"welcome", "goodbye", "redirect"}
                   THEN Request("sign in page", Nobody, 0, jar', out') ELSE NoRequest
           brings == req[t].answer \in {"sign in page", "sheet", "record"}
<1>1. /\ req[t].pc = "answered" /\ jar' = Stored(req[t])
      /\ tab' = [tab EXCEPT ![t] = Shown(t, req[t])] /\ req' = [req EXCEPT ![t] = next]
  BY DEF Arrive
<1>2. ASSUME NEW u \in Tabs
      PROVE  /\ req'[u] = IF u = t THEN next ELSE req[u]
             /\ tab'[u] = IF u = t THEN Shown(t, req[t]) ELSE tab[u]
  BY <1>1 DEF SessionInv, TypeOK
<1>3. next.pc # "answered" /\ (next.pc # "idle" => ~brings /\ next.csrf = jar'.csrf)
  BY DEF Request, NoRequest
<1>4. /\ jar'.csrf = IF Sets(req[t].answer) THEN req[t].token ELSE jar.csrf
      /\ jar'.kept = IF Sets(req[t].answer) THEN Age ELSE jar.kept
  BY <1>1 DEF Stored
<1>5. Age \in Nat /\ jar.kept \in 0..Age /\ \A u \in Tabs : tab[u].age \in 0..Age
  BY DEF SessionInv, TypeOK, SessionsAssumption
<1> HIDE DEF next
<1>6. ASSUME NEW u \in Tabs PROVE Echoes(req[u])'
  BY <1>2, <1>3 DEF FormsInv, Echoes
<1>7. ASSUME NEW u \in Tabs, Lasts(u), Sets(req[t].answer)
      PROVE  req[t].token = tab[u].token
  <2>1. req[t].csrf = tab[u].token /\ tab[u].token # 0
    BY <1>1, <1>7 DEF FormsInv, Carried
  <2> QED BY <1>1, <1>7, <2>1 DEF FormsInv, Echoes, Sets
\* a page that was there already
<1>8. ASSUME NEW u \in Tabs, Lasts(u), tab'[u].token = tab[u].token, tab'[u].age = tab[u].age,
             tab'[u].page = tab[u].page, tab'[u].crossed = tab[u].crossed
      PROVE  Carried(u)'
  <2>1. Carried(u) /\ jar'.csrf = tab[u].token /\ jar'.kept + tab[u].age >= Age
    BY <1>4, <1>5, <1>7, <1>8 DEF FormsInv, Carried
  <2>2. ASSUME NEW v \in Tabs, req'[v].pc # "idle" PROVE req'[v].csrf = tab[u].token
    BY <1>2, <1>3, <1>8, <2>1, <2>2 DEF Carried
  <2> QED BY <1>8, <2>1, <2>2 DEF Carried
<1>9. ASSUME NEW u \in Tabs, u # t PROVE Carried(u)'
  <2>1. tab'[u] = tab[u]
    BY <1>2, <1>9
  <2>2. CASE Lasts(u)
    BY <1>8, <2>1, <2>2
  <2>3. CASE ~Lasts(u)
    BY <2>1, <2>3 DEF Carried, Lasts
  <2> QED BY <2>2, <2>3
<1>10. Carried(t)'
  <2>1. CASE brings
    <3>1. tab'[t] = [page |-> req[t].answer, token |-> req[t].token, age |-> 0,
                     crossed |-> Crossing(t, req[t].token)]
      BY <1>2, <2>1 DEF Shown
    <3>2. SUFFICES ASSUME Lasts(t)' PROVE Carried(t)'
      BY DEF Carried
    <3>3. Sets(req[t].answer) /\ ~Crossing(t, req[t].token)
      <4>1. /\ tab'[t].page = req[t].answer
            /\ tab'[t].crossed = Crossing(t, req[t].token)
        <5>1. Crossing(t, req[t].token) \in BOOLEAN
          BY DEF Crossing
        <5> QED BY <3>1, <5>1, PageShown
      <4>2. Sets(tab'[t].page) /\ ~tab'[t].crossed
        BY <3>2 DEF Lasts
      <4> QED BY <4>1, <4>2, Zenon
    <3>4. req[t].token # 0
      BY <1>1, <2>1 DEF SessionInv, Sound
    <3>5. ASSUME NEW u \in Tabs, req'[u].pc # "idle" PROVE req'[u].csrf = req[t].token
      BY <1>2, <1>3, <2>1, <3>3, <3>5 DEF Crossing
    <3>6. jar'.csrf = req[t].token /\ jar'.kept + tab'[t].age >= Age
      BY <1>4, <1>5, <3>1, <3>3
    <3>7. tab'[t].token = req[t].token
      BY <3>1
    <3> QED BY <3>4, <3>5, <3>6, <3>7 DEF Carried
  <2>2. CASE req[t].answer = "error" /\ req[t].kind # "grade"
    <3>1. tab'[t].page = "error"
      BY <1>2, <2>2 DEF Shown
    <3> QED BY <3>1 DEF Carried, Lasts, Sets
  <2>3. CASE ~brings /\ ~(req[t].answer = "error" /\ req[t].kind # "grade")
    <3>1. /\ tab'[t].page = tab[t].page /\ tab'[t].age = tab[t].age
          /\ tab'[t].crossed = tab[t].crossed
          /\ tab'[t].token = IF req[t].answer = "row" THEN req[t].token ELSE tab[t].token
      <4>1. tab[t] \in [page : Pages, token : 0..minted, age : 0..Age, crossed : BOOLEAN]
        BY DEF SessionInv, TypeOK
      <4>2. tab'[t] = IF req[t].answer = "row" THEN [tab[t] EXCEPT !.token = req[t].token]
                      ELSE tab[t]
        BY <1>2, <2>3 DEF Shown
      <4> QED BY <4>1, <4>2
    <3>2. CASE Lasts(t)
      <4>1. req[t].csrf = tab[t].token /\ tab[t].token # 0
        BY <1>1, <3>2 DEF FormsInv, Carried
      <4>2. tab'[t].token = tab[t].token
        BY <1>1, <3>1, <4>1 DEF FormsInv, Echoes
      <4> QED BY <1>8, <3>1, <3>2, <4>2
    <3>3. CASE ~Lasts(t)
      BY <3>1, <3>3 DEF Carried, Lasts
    <3> QED BY <3>2, <3>3
  <2> QED BY <2>1, <2>2, <2>3
<1> QED BY <1>6, <1>9, <1>10 DEF FormsInv

LEMMA FormsStep ==
    ASSUME SessionsAssumption, SessionInv, FormsInv, [Next]_vars
    PROVE  FormsInv'
<1>1. ASSUME NEW t \in Tabs PROVE req[t] \in Requests /\ Echoes(req[t])
  BY DEF SessionInv, TypeOK, FormsInv
<1>2. TypeOK
  BY DEF SessionInv
<1>3. ASSUME NEW t \in Tabs, NEW kind \in Reads \cup Unsafe, NEW p \in Persons, Send(t, kind, p)
      PROVE  FormsInv'
  <2> DEFINE r == Request(kind, p, IF kind \in Unsafe THEN tab[t].token ELSE 0, jar, out)
  <2>1. Echoes(r) /\ r.csrf = jar.csrf
    BY DEF Echoes, Request
  <2>2. req' = [req EXCEPT ![t] = r] /\ UNCHANGED <<jar, tab>>
    BY <1>3 DEF Send
  <2> HIDE DEF r
  <2> QED BY <1>2, <2>1, <2>2, FormsReplaced
<1>4. ASSUME NEW t \in Tabs, Close(t) PROVE FormsInv'
  <2>1. ASSUME NEW u \in Tabs
        PROVE  /\ req'[u] = IF u = t THEN NoRequest ELSE req[u]
               /\ u = t => tab'[u].page = "blank"
               /\ u # t => tab'[u] = tab[u]
    BY <1>2, <1>4 DEF Close, TypeOK
  <2>2. jar' = jar /\ NoRequest.pc = "idle"
    BY <1>4 DEF Close, NoRequest
  <2>3. ASSUME NEW u \in Tabs PROVE Echoes(req[u])'
    BY <2>1, <2>2 DEF FormsInv, Echoes
  <2>4. Carried(t)'
    BY <2>1 DEF Carried, Lasts, Sets
  <2>5. ASSUME NEW u \in Tabs, u # t PROVE Carried(u)'
    <3>1. tab'[u] = tab[u] /\ Carried(u)
      BY <2>1, <2>5 DEF FormsInv
    <3>2. ASSUME NEW v \in Tabs PROVE req'[v].pc # "idle" => req'[v] = req[v]
      BY <2>1, <2>2
    <3> QED BY <2>2, <3>1, <3>2 DEF Carried, Lasts
  <2> QED BY <2>3, <2>4, <2>5 DEF FormsInv
<1>5. ASSUME NEW t \in Tabs,
             RefuseForm(t) \/ SignInForm(t) \/ SignOut(t) \/ Refuse(t) \/ ShowSheet(t)
                \/ ShowRecord(t) \/ RecordGrade(t)
      PROVE  FormsInv'
  BY <1>2, <1>5, FormsAnswered
     DEF RefuseForm, SignInForm, SignOut, Refuse, ShowSheet, ShowRecord, RecordGrade, Entering
<1>6. ASSUME NEW t \in Tabs, NEW r, Goes(t, r), req[t].pc # "idle", r.csrf = req[t].csrf, Echoes(r)
      PROVE  FormsInv'
  BY <1>2, <1>6, FormsReplaced DEF Goes
<1>7. ASSUME NEW t \in Tabs, SignIn(t) PROVE FormsInv'
  <2> DEFINE r == [req[t] EXCEPT !.pc = "looking"]
  <2>1. r.csrf = req[t].csrf /\ Echoes(r)
    BY <1>1 DEF Requests, Echoes
  <2> QED BY <1>6, <1>7, <2>1 DEF SignIn, Entering
<1>8. ASSUME NEW t \in Tabs, ReadSession(t) PROVE FormsInv'
  <2> DEFINE r == [req[t] EXCEPT !.pc = "known", !.read = now]
  <2>1. r.csrf = req[t].csrf /\ Echoes(r)
    BY <1>1 DEF Requests, Echoes
  <2> QED BY <1>2, <1>6, <1>8, <2>1, FormsAnswered DEF ReadSession, Entering
<1>9. ASSUME NEW t \in Tabs, LookUp(t) PROVE FormsInv'
  <2> DEFINE r == [Answered(req[t], "welcome") EXCEPT !.grant = [who |-> req[t].typed, at |-> now]]
  <2>1. r.csrf = req[t].csrf /\ Echoes(r)
    BY DEF Answered, Echoes
  <2> QED BY <1>2, <1>6, <1>9, <2>1, FormsAnswered DEF LookUp
<1>10. ASSUME NEW t \in Tabs, Resolve(t) PROVE FormsInv'
  <2>1. ASSUME NEW a \in staff
        PROVE  LET r == [req[t] EXCEPT !.pc = "acting", !.actor = a]
               IN  r.csrf = req[t].csrf /\ Echoes(r)
    BY <1>1 DEF Requests, Echoes
  <2> QED BY <1>2, <1>6, <1>10, <2>1, FormsAnswered DEF Resolve
<1>11. ASSUME NEW p \in People, NEW roles \in {{}, {TRUE}, {FALSE}}, ChangePerson(p, roles)
       PROVE  FormsInv'
  <2>1. UNCHANGED <<jar, tab>>
    BY <1>11 DEF ChangePerson
  <2>2. ASSUME NEW u \in Tabs
        PROVE  /\ req'[u].pc = req[u].pc /\ req'[u].csrf = req[u].csrf
               /\ req'[u].answer = req[u].answer /\ req'[u].token = req[u].token
    BY <1>1, <1>11 DEF ChangePerson, Requests
  <2>3. ASSUME NEW u \in Tabs PROVE Echoes(req[u])' /\ Carried(u)'
    BY <2>1, <2>2 DEF FormsInv, Echoes, Carried, Lasts
  <2> QED BY <2>3 DEF FormsInv
<1>12. CASE UNCHANGED vars
  BY <1>12 DEF vars, FormsInv, Echoes, Carried, Lasts
<1> QED BY <1>2, <1>3, <1>4, <1>5, <1>7, <1>8, <1>9, <1>10, <1>11, <1>12, FormsTick, FormsArrive DEF Next

\* csrf.py, token_for: a page that sets the token's cookie can be posted from as long as the
\* cookie lasts, in every tab and after every row, unless a request sent without its token
\* was under way when it came.
THEOREM FormsCanBePosted == Spec => []FreshFormsPost
<1>1. Init => FormsInv
  <2>1. ASSUME Init, NEW t \in Tabs PROVE tab[t].page = "blank" /\ req[t].pc = "idle"
    BY <2>1 DEF Init, NoRequest
  <2> QED BY <2>1 DEF FormsInv, Echoes, Carried, Lasts, Sets
<1>2. SessionInv /\ FormsInv /\ [Next]_vars => FormsInv'
  BY FormsStep, SessionsAssumption
<1>3. FormsInv => FreshFormsPost
  BY DEF FormsInv, Carried, Lasts, FreshFormsPost, Agrees
<1> QED BY <1>1, <1>2, <1>3, SessionsSound, PTL DEF Spec
================================================================================
