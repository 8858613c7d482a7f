-------------------------------- MODULE Sessions -------------------------------
(* Who a browser's requests are made for.  The server keeps no session: a signed *)
(* cookie names a person and when it was signed, another holds the token a form *)
(* has to repeat, and both live in the browser's jar, which the tabs share.  A  *)
(* request carries the jar as it was when sent, and an answer changes it when   *)
(* it arrives; in between other tabs, the registrar and the clock go on.  A     *)
(* browser's requests carry no bearer token, which current_actor falls back on: *)
(* JSON routes take the same actor, from either; what a use case then decides   *)
(* is Access's.                                                                 *)
EXTENDS Naturals

CONSTANTS
    People, Tabs,
    Nobody,       \* no person
    Age,          \* how long a session and a cookie last
    MaxTime,      \* bound: the last instant
    MaxRequests,  \* bound: how many requests are made, not counting redirects
    MaxChanges    \* bound: how often the registrar changes somebody

ASSUME SessionsAssumption ==
    /\ Nobody \notin People
    /\ Age \in Nat \ {0}
    /\ MaxTime \in Nat /\ MaxRequests \in Nat /\ MaxChanges \in Nat

VARIABLES
    now,
    staff,   \* the stored people, each with whether they hold the teacher's role
    jar,     \* the browser's two cookies, and when it drops each
    tab,     \* what each tab shows, and the token in its forms
    req,     \* the request each tab waits for
    minted,  \* tokens are 1..minted, and 0 is no token
    budget,  \* how many requests and changes are left
    out      \* history: has the browser been told to drop its session, and not given one since?

vars == <<now, staff, jar, tab, req, minted, budget, out>>

Reads == {"sign in page", "sheet", "record"}
Unsafe == {"sign in", "sign out", "grade"}
Pages == {"blank", "sign in page", "sheet", "record", "error"}
Answers == {"sign in page", "sheet", "record", "error", "row", "welcome", "goodbye", "redirect"}
Persons == People \cup {Nobody}
Actor == [who : People, teaches : BOOLEAN]
NoSession == [who |-> Nobody, at |-> 0]
NoActor == [who |-> Nobody, teaches |-> FALSE]

SessionCookies == [who : Persons, at : 0..MaxTime]
Requests == [pc : {"idle", "sent", "looking", "known", "acting", "answered"},
             kind : Reads \cup Unsafe, typed : Persons, token : 0..minted,
             session : SessionCookies, csrf : 0..minted,
             actor : [who : Persons, teaches : BOOLEAN], read : 0..MaxTime,
             answer : Answers, grant : SessionCookies, held : SUBSET Actor, after : BOOLEAN]

\* The variables' types; a cookie that is over is no longer in the jar.
TypeOK ==
    /\ now \in 0..MaxTime
    /\ staff \subseteq Actor
    /\ jar \in [session : SessionCookies, left : 0..Age, csrf : 0..minted, kept : 0..Age]
    /\ (jar.session.who = Nobody) <=> (jar.left = 0)
    /\ (jar.csrf = 0) <=> (jar.kept = 0)
    /\ tab \in [Tabs -> [page : Pages, token : 0..minted, age : 0..Age, crossed : BOOLEAN]]
    /\ req \in [Tabs -> Requests]
    /\ minted \in Nat
    /\ budget \in [requests : Nat, changes : Nat]
    /\ out \in BOOLEAN

--------------------------------------------------------------------------------
(* The browser. *)

Request(kind, p, token, cookies, after) ==
    [pc |-> "sent", kind |-> kind, typed |-> p, token |-> token,
     session |-> cookies.session, csrf |-> cookies.csrf, actor |-> NoActor, read |-> 0,
     answer |-> "error", grant |-> NoSession, held |-> staff, after |-> after]

NoRequest ==
    [pc |-> "idle", kind |-> "record", typed |-> Nobody, token |-> 0,
     session |-> NoSession, csrf |-> 0, actor |-> NoActor, read |-> 0,
     answer |-> "error", grant |-> NoSession, held |-> {}, after |-> FALSE]

\* a browser that never was here, or one that somebody just signed in with
Init ==
    /\ now = 0
    /\ staff = {[who |-> p, teaches |-> TRUE] : p \in People}
    /\ \/ jar = [session |-> NoSession, left |-> 0, csrf |-> 0, kept |-> 0] /\ minted = 0
       \/ \E p \in People : jar = [session |-> [who |-> p, at |-> 0], left |-> Age,
                                  csrf |-> 1, kept |-> Age] /\ minted = 1
    /\ tab = [t \in Tabs |-> [page |-> "blank", token |-> 0, age |-> 0, crossed |-> FALSE]]
    /\ req = [t \in Tabs |-> NoRequest]
    /\ budget = [requests |-> MaxRequests, changes |-> MaxChanges]
    /\ out = FALSE

\* what a page lets its reader post
Posts(page) ==
    CASE page = "sign in page" -> {"sign in"}
      [] page = "sheet" -> {"grade", "sign out"}
      [] page = "record" -> {"sign out"}
      [] OTHER -> {}

Send(t, kind, p) ==
    /\ req[t].pc = "idle" /\ budget.requests > 0
    /\ kind \in Reads \cup Posts(tab[t].page)
    /\ (kind = "sign in") <=> (p # Nobody)
    /\ req' = [req EXCEPT ![t] =
                 Request(kind, p, IF kind \in Unsafe THEN tab[t].token ELSE 0, jar, out)]
    /\ budget' = [budget EXCEPT !.requests = @ - 1]
    /\ UNCHANGED <<now, staff, jar, tab, minted, out>>

\* closing or leaving a page: whatever it still waits for is lost, cookies and all
Close(t) ==
    /\ tab[t].page # "blank" \/ req[t].pc # "idle"
    /\ tab' = [tab EXCEPT ![t] = [page |-> "blank", token |-> 0, age |-> 0, crossed |-> FALSE]]
    /\ req' = [req EXCEPT ![t] = NoRequest]
    /\ UNCHANGED <<now, staff, jar, minted, budget, out>>

--------------------------------------------------------------------------------
(* The server.  Nothing it does below is kept by it. *)

Goes(t, r) ==
    /\ req' = [req EXCEPT ![t] = r]
    /\ UNCHANGED <<now, staff, jar, tab, budget, out>>

\* csrf_matches: both there, and equal
Matches(r) == r.csrf # 0 /\ r.token # 0 /\ r.csrf = r.token

\* fault: a new token for every page
NewToken(r) == minted + 1

\* token_for: the token the request came with, or a new one
Token(r) == IF r.csrf # 0 THEN r.csrf ELSE minted + 1

\* what is left of a request once it is answered: how it went, and what it came with
Answered(r, answer) ==
    [pc |-> "answered", kind |-> r.kind, typed |-> Nobody, token |-> r.token,
     session |-> NoSession, csrf |-> r.csrf, actor |-> NoActor, read |-> 0,
     answer |-> answer, grant |-> r.grant, held |-> {}, after |-> r.after]

\* a page with forms in it carries a token
Page(t, r, answer) ==
    /\ Goes(t, [Answered(r, answer) EXCEPT !.token = Token(r)])
    /\ minted' = IF r.csrf # 0 THEN minted ELSE minted + 1

Plain(t, r, answer) == Goes(t, Answered(r, answer)) /\ UNCHANGED minted

\* fault: signatures are checked, and not when they were made
ValidForEver(session) == session.who # Nobody

\* _read: signed by this server, and not older than it may be
Valid(session) == session.who # Nobody /\ now - session.at <= Age

\* enforce: an unsafe request has to repeat the token it came with
Enforced(r) == r.kind \in Unsafe => Matches(r)

RefuseForm(t) ==
    /\ req[t].pc = "sent" /\ ~Enforced(req[t])
    /\ Plain(t, req[t], "error")

Entering(t, kinds) == req[t].pc = "sent" /\ req[t].kind \in kinds /\ Enforced(req[t])

SignInForm(t) == Entering(t, {"sign in page"}) /\ Page(t, req[t], "sign in page")

SignOut(t) == Entering(t, {"sign out"}) /\ Plain(t, req[t], "goodbye")

SignIn(t) ==
    /\ Entering(t, {"sign in"})
    /\ Goes(t, [req[t] EXCEPT !.pc = "looking"])
    /\ UNCHANGED minted

\* current_actor: the person the session names, or a redirect to sign in, since a browser
\* sends no Authorization header, the other place the code would look
ReadSession(t) ==
    /\ Entering(t, {"sheet", "record", "grade"})
    /\ \/ /\ Valid(req[t].session)
          /\ Goes(t, [req[t] EXCEPT !.pc = "known", !.read = now])
          /\ UNCHANGED minted
       \/ ~Valid(req[t].session) /\ Plain(t, req[t], "redirect")

\* verify_credentials: an address somebody has is enough
LookUp(t) ==
    LET r == req[t] IN
    /\ r.pc = "looking"
    /\ \/ /\ \E a \in staff : a.who = r.typed
          /\ Goes(t, [Answered(r, "welcome") EXCEPT !.grant = [who |-> r.typed, at |-> now]])
          /\ UNCHANGED minted
       \/ /\ ~\E a \in staff : a.who = r.typed
          /\ Page(t, r, "sign in page")

\* RepositoryActorIdentity.resolve: the roles the person has now
Resolve(t) ==
    LET r == req[t] IN
    /\ r.pc = "known"
    /\ \/ \E a \in staff : a.who = r.session.who
                        /\ Goes(t, [r EXCEPT !.pc = "acting", !.actor = a])
                        /\ UNCHANGED minted
       \/ /\ ~\E a \in staff : a.who = r.session.who
          /\ Plain(t, r, "redirect")

\* the use case, with the actor it was given, refuses; or it answers
Refuse(t) == req[t].pc = "acting" /\ Plain(t, req[t], "error")

ShowSheet(t) == req[t].pc = "acting" /\ req[t].kind = "sheet" /\ Page(t, req[t], "sheet")
ShowRecord(t) == req[t].pc = "acting" /\ req[t].kind = "record" /\ Page(t, req[t], "record")
RecordGrade(t) == req[t].pc = "acting" /\ req[t].kind = "grade" /\ Page(t, req[t], "row")

\* the registrar, through another process
ChangePerson(p, roles) ==
    LET others == {a \in staff : a.who # p}
        changed == others \cup {[who |-> p, teaches |-> b] : b \in roles}
    IN  /\ budget.changes > 0
        /\ changed # staff
        /\ staff' = changed
        /\ budget' = [budget EXCEPT !.changes = @ - 1]
        /\ req' = [t \in Tabs |-> IF req[t].pc \in {"idle", "answered"} THEN req[t]
                                  ELSE [req[t] EXCEPT !.held = @ \cup changed]]
        /\ UNCHANGED <<now, jar, tab, minted, out>>

--------------------------------------------------------------------------------
(* Answers and time. *)

\* the pages whose answer sets the token's cookie
Sets(answer) == answer \in {"sign in page", "sheet"}

\* fault: the answer to a sign-out leaves the session's cookie alone
StoredSignedOut(r) ==
    LET in == r.answer = "welcome" IN
    [session |-> IF in THEN r.grant ELSE jar.session,
     left |-> IF in THEN Age ELSE jar.left,
     csrf |-> IF Sets(r.answer) THEN r.token ELSE jar.csrf,
     kept |-> IF Sets(r.answer) THEN Age ELSE jar.kept]

\* what the browser does with the cookies of an answer
Stored(r) ==
    LET in == r.answer = "welcome"  gone == r.answer = "goodbye" IN
    [session |-> IF in THEN r.grant ELSE IF gone THEN NoSession ELSE jar.session,
     left |-> IF in THEN Age ELSE IF gone THEN 0 ELSE jar.left,
     csrf |-> IF Sets(r.answer) THEN r.token ELSE jar.csrf,
     kept |-> IF Sets(r.answer) THEN Age ELSE jar.kept]

\* did the page cross a request that was sent without its token?
Crossing(t, token) == \E u \in Tabs \ {t} : req[u].pc # "idle" /\ req[u].csrf # token

\* what the tab shows then; htmx puts a row, or an error, into the sheet it came from
Shown(t, r) ==
    CASE r.answer \in {"sign in page", "sheet", "record"} ->
           [page |-> r.answer, token |-> r.token, age |-> 0, crossed |-> Crossing(t, r.token)]
      [] r.answer = "row" -> [tab[t] EXCEPT !.token = r.token]
      [] r.answer = "error" /\ r.kind # "grade" ->
           [page |-> "error", token |-> 0, age |-> 0, crossed |-> FALSE]
      [] OTHER -> tab[t]

\* an answer arrives, and a redirect is followed, to the sign-in page every time
Arrive(t) ==
    LET r == req[t] IN
    /\ r.pc = "answered"
    /\ jar' = Stored(r)
    /\ tab' = [tab EXCEPT ![t] = Shown(t, r)]
    /\ out' = (r.answer = "goodbye" \/ (out /\ r.answer # "welcome"))
    /\ req' = [req EXCEPT ![t] =
                 IF r.answer \in {"welcome", "goodbye", "redirect"}
                 THEN Request("sign in page", Nobody, 0, jar', out')
                 ELSE NoRequest]
    /\ UNCHANGED <<now, staff, minted, budget>>

Less(n) == IF n = 0 THEN 0 ELSE n - 1

Tick ==
    /\ now < MaxTime
    /\ now' = now + 1
    /\ jar' = [session |-> IF jar.left <= 1 THEN NoSession ELSE jar.session, left |-> Less(jar.left),
               csrf |-> IF jar.kept <= 1 THEN 0 ELSE jar.csrf, kept |-> Less(jar.kept)]
    /\ tab' = [t \in Tabs |-> [tab[t] EXCEPT !.age = IF @ < Age THEN @ + 1 ELSE @]]
    /\ UNCHANGED <<staff, req, minted, budget, out>>

Next ==
    \/ \E t \in Tabs : \/ \E kind \in Reads \cup Unsafe, p \in Persons : Send(t, kind, p)
                       \/ Close(t)
                       \/ RefuseForm(t) \/ SignInForm(t) \/ SignOut(t) \/ SignIn(t) \/ LookUp(t)
                       \/ ReadSession(t) \/ Resolve(t)
                       \/ Refuse(t) \/ ShowSheet(t) \/ ShowRecord(t) \/ RecordGrade(t)
                       \/ Arrive(t)
    \/ \E p \in People, roles \in {{}, {TRUE}, {FALSE}} : ChangePerson(p, roles)
    \/ Tick

Spec == Init /\ [][Next]_vars

--------------------------------------------------------------------------------
(* Properties. *)

\* security.py, dependencies.py: whoever a use case is called for signed in no longer
\* than Age before the request was read, and is somebody who existed, with just those roles,
\* while the request was there.  The cookie outlives the session it carries, and the
\* registrar may remove or demote its person between any two awaits.
ActorIsCurrent ==
    \A t \in Tabs : req[t].pc = "acting" =>
        /\ req[t].actor \in req[t].held
        /\ req[t].session.who = req[t].actor.who
        /\ req[t].read - req[t].session.at <= Age

\* what an answer brings is there: a page with forms has a token, a welcome names somebody;
\* a request under way has seen the people as they are now, and the session it came with
\* was young enough when it was read
Sound(r) ==
    /\ r.pc = "answered" =>
         /\ r.answer \in {"sign in page", "sheet", "record", "row"} => r.token # 0
         /\ r.answer = "welcome" => r.grant.who # Nobody
    /\ r.pc \in {"sent", "looking", "known", "acting"} => staff \subseteq r.held
    /\ r.pc \in {"known", "acting"} => /\ r.kind \in {"sheet", "record", "grade"}
                                     /\ r.read - r.session.at <= Age
    /\ r.pc = "acting" => r.actor \in r.held /\ r.session.who = r.actor.who

\* security.py, dependencies.py: the inductive invariant behind ActorIsCurrent.
SessionInv == TypeOK /\ \A t \in Tabs : Sound(req[t])

\* auth.py: once the browser has been told to drop its session, no request it sends acts
\* for anybody until an answer gives it a session again, whatever other tabs were waiting for.
SignedOutStaysOut == \A t \in Tabs : req[t].after => req[t].pc \notin {"known", "acting"}

Agrees(t) == ~tab[t].crossed => jar.csrf = tab[t].token

\* csrf.py, token_for: a form on a page that sets the token's cookie can be posted as long
\* as the cookie lasts, in every tab and after every row swapped into it, unless a request
\* sent without that token was under way when the page came.
FreshFormsPost == \A t \in Tabs : Sets(tab[t].page) /\ tab[t].age < Age => Agrees(t)
================================================================================
