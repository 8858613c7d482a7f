------------------------------ MODULE Deployment -------------------------------
(* Processes of one deployment: built by Container from the environment as it is *)
(* when they start, killed and started again, the environment changed meanwhile. *)
(* What they share is the database and a disk; the in-memory backend keeps its    *)
(* rows and payloads in the process.  Module ImportJobs has the steps of a job    *)
(* and Sessions those of a request: here is what outlives a process.              *)
EXTENDS Settings

CONSTANTS
    Processes,
    Environments,  \* the environments the operator may set
    People,        \* the person ids in play
    Imports,       \* the queued imports, by id
    MaxStarts      \* bound: how many processes are started

ASSUME DeploymentAssumption ==
    /\ \A e \in Environments : IsEnvironment(e)
    /\ \A e, f \in Environments : FromEnv(e).database = FromEnv(f).database
    /\ MaxStarts \in Nat

VARIABLES
    environ,    \* what the next process will read
    proc,       \* per process, what it was built from and what it keeps in memory
    people,     \* the person records in the database
    disk,       \* the payloads on disk, each in an upload directory
    job,        \* per queued import, its status and the store its row is in
    credential, \* the latest session or bearer token that was issued
    starts,     \* how many processes were started
    moved       \* history: the upload directory was changed

vars == <<environ, proc, people, disk, job, credential, starts, moved>>

SettingsSet == {FromEnv(e) : e \in Environments}
Down == [kind |-> "down", under |-> Default, key |-> NoKey, born |-> 0, sent |-> {}, bytes |-> {}]
Nobody == [who |-> Unset, key |-> NoKey, under |-> Default, born |-> 0]

\* the store a process reads: 0 is the database, any other the memory of the process so numbered
Store(p) == IF Durable(proc[p].under) THEN 0 ELSE proc[p].born

Keys == [set : Texts, born : 0..MaxStarts]
Running ==
    [kind : {"web", "tool"}, under : SettingsSet, born : 1..MaxStarts, key : Keys,
     sent : SUBSET Imports, bytes : SUBSET Imports]
Credentials == [who : People, key : Keys, under : SettingsSet, born : 1..MaxStarts]

TypeOK ==
    /\ environ \in Environments
    /\ proc \in [Processes -> Running \cup {Down}]
    /\ people \subseteq People
    /\ disk \subseteq [at : {s.uploads : s \in SettingsSet}, job : Imports]
    /\ credential \in Credentials \cup {Nobody}
    /\ job \in [Imports -> [status : {"none", "pending", "done", "failed", "gone"}, store : 0..MaxStarts]]
    /\ starts \in 0..MaxStarts
    /\ moved \in BOOLEAN

Init ==
    /\ environ \in Environments
    /\ proc = [p \in Processes |-> Down]
    /\ people = {}
    /\ disk = {}
    /\ job = [j \in Imports |-> [status |-> "none", store |-> 0]]
    /\ credential = Nobody
    /\ starts = 0
    /\ moved = FALSE

Up(p) == proc[p].kind # "down"

--------------------------------------------------------------------------------
(* Processes and their environment. *)

\* otherwise ConfigurationError, and nothing is started
Start(p, kind) ==
    LET s == FromEnv(environ) IN
    /\ ~Up(p)
    /\ starts < MaxStarts
    /\ Starts(s, kind)
    /\ starts' = starts + 1
    /\ proc' = [proc EXCEPT ![p] =
                   [kind |-> kind, under |-> s, born |-> starts',
                    key |-> IF kind = "web" THEN SigningKey(s, starts') ELSE NoKey,
                    sent |-> {}, bytes |-> {}]]
    /\ UNCHANGED <<environ, people, disk, job, credential, moved>>

\* a stop or a crash: what the process kept in memory is gone, its store with it
Kill(p) ==
    /\ Up(p)
    /\ proc' = [proc EXCEPT ![p] = Down]
    /\ job' = [j \in Imports |->
                  IF ~Durable(proc[p].under) /\ job[j].store = proc[p].born
                  THEN [job[j] EXCEPT !.status = "gone"] ELSE job[j]]
    /\ UNCHANGED <<environ, people, disk, credential, starts, moved>>

Redeploy(e) ==
    /\ e # environ
    /\ environ' = e
    /\ moved' = (moved \/ FromEnv(e).uploads # FromEnv(environ).uploads)
    /\ UNCHANGED <<proc, people, disk, job, credential, starts>>

--------------------------------------------------------------------------------
(* People and credentials. *)

\* a seed writes a person; into a store of its own, discarded with it, if that is in memory
Seed(p, who) ==
    /\ proc[p].kind = "tool" /\ Durable(proc[p].under)
    /\ people' = people \cup {who}
    /\ UNCHANGED <<environ, proc, disk, job, credential, starts, moved>>

PeopleOf(p) == IF Durable(proc[p].under) THEN people ELSE {}

Issues(p, who) ==
    /\ proc[p].kind = "web"
    /\ credential' = [who |-> who, key |-> proc[p].key, under |-> proc[p].under, born |-> proc[p].born]
    /\ UNCHANGED <<environ, proc, people, disk, job, starts, moved>>

\* the form looks the person up, with a static identity too
SignIn(p, who) == who \in PeopleOf(p) /\ Issues(p, who)

\* no route issues a bearer token: whoever has the container at hand may
IssueToken(p, who) == Issues(p, who)

Verifies(p) == credential # Nobody /\ credential.key = proc[p].key

--------------------------------------------------------------------------------
(* A queued import: its bytes, its row, its run. *)

PutPayload(p, j) ==
    /\ Up(p)
    /\ job[j].status = "none"
    /\ \A q \in Processes : j \notin proc[q].sent
    /\ \A f \in disk : f.job # j
    /\ IF Storage(proc[p].under) = "local"
       THEN /\ disk' = disk \cup {[at |-> proc[p].under.uploads, job |-> j]}
            /\ proc' = [proc EXCEPT ![p].sent = @ \cup {j}]
       ELSE /\ proc' = [proc EXCEPT ![p].sent = @ \cup {j}, ![p].bytes = @ \cup {j}]
            /\ UNCHANGED disk
    /\ UNCHANGED <<environ, people, job, credential, starts, moved>>

AddJob(p, j) ==
    /\ j \in proc[p].sent
    /\ job[j].status = "none"
    /\ job' = [job EXCEPT ![j] = [status |-> "pending", store |-> Store(p)]]
    /\ UNCHANGED <<environ, proc, people, disk, credential, starts, moved>>

HasBytes(p, j) ==
    IF Storage(proc[p].under) = "local"
    THEN [at |-> proc[p].under.uploads, job |-> j] \in disk
    ELSE j \in proc[p].bytes

\* any process may be handed the id of a job in its store
RunJob(p, j) ==
    /\ Up(p)
    /\ job[j] = [status |-> "pending", store |-> Store(p)]
    /\ job' = [job EXCEPT ![j].status = IF HasBytes(p, j) THEN "done" ELSE "failed"]
    /\ UNCHANGED <<environ, proc, people, disk, credential, starts, moved>>

Next ==
    \/ \E p \in Processes :
        \/ \E kind \in {"web", "tool"} : Start(p, kind)
        \/ Kill(p)
        \/ \E who \in People : Seed(p, who) \/ SignIn(p, who) \/ IssueToken(p, who)
        \/ \E j \in Imports : PutPayload(p, j) \/ AddJob(p, j) \/ RunJob(p, j)
    \/ \E e \in Environments : Redeploy(e)

Spec == Init /\ [][Next]_vars

--------------------------------------------------------------------------------
\* A credential outlives the process that issued it wherever anything else does: every web
\* process of the same settings takes it, unless they name no key and keep everything in
\* memory, when only that very process does.  Across keys it is never taken.
SessionsSurvive ==
    credential # Nobody =>
        \A p \in Processes : proc[p].kind = "web" =>
            /\ proc[p].under = credential.under /\ (Durable(proc[p].under) \/ proc[p].under.key # Unset)
                   => Verifies(p)
            /\ Verifies(p) => \/ proc[p].under.key = credential.under.key /\ credential.under.key # Unset
                              \/ proc[p].born = credential.born

\* A job whose row outlived a process has its bytes wherever it is run, as long as nobody
\* pointed the deployment at another upload directory.
JobsKeepTheirBytes == ~moved => \A j \in Imports : job[j].status # "failed"

--------------------------------------------------------------------------------
(* Why they hold, as an inductive invariant (module DeploymentProofs). *)

\* a process is one of those that were started, with settings that let it, and the key they give
Process(p) ==
    Up(p) =>
        /\ proc[p].born <= starts
        /\ Starts(proc[p].under, proc[p].kind)
        /\ proc[p].kind = "web" => proc[p].key = SigningKey(proc[p].under, proc[p].born)
        /\ \A q \in Processes : Up(q) /\ proc[q].born = proc[p].born => q = p
        /\ ~moved => proc[p].under.uploads = FromEnv(environ).uploads

\* and so was the one that issued the credential
Issuer ==
    credential # Nobody =>
        /\ Starts(credential.under, "web")
        /\ credential.key = SigningKey(credential.under, credential.born)

\* what was put is where its process looks for it
Put(p) == \A j \in proc[p].sent : ~moved => HasBytes(p, j)

\* and where a process that reads the job's row will
Queued(j) ==
    /\ job[j].store <= starts
    /\ ~moved =>
        /\ job[j].status # "failed"
        /\ job[j].status = "pending" =>
              IF job[j].store = 0 THEN [at |-> FromEnv(environ).uploads, job |-> j] \in disk
              ELSE \A p \in Processes :
                      Up(p) /\ proc[p].born = job[j].store => ~Durable(proc[p].under) /\ HasBytes(p, j)

DeploymentInv ==
    /\ TypeOK /\ Issuer
    /\ \A p \in Processes : Process(p) /\ Put(p)
    /\ \A j \in Imports : Queued(j)

================================================================================
