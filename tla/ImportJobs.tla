------------------------------- MODULE ImportJobs ------------------------------
(* Imports, inline and queued: a request measures an upload and either applies  *)
(* it or writes the bytes down, records a job and enqueues its id; workers run  *)
(* queued jobs.  Every await is a step boundary, so requests, workers, the sweep*)
(* of stored payloads and changes of the submitter's rights interleave.  What a *)
(* job's rows do is one commit here; module GradeBook has the rows.             *)
EXTENDS Naturals, Sequences, FiniteSets

CONSTANTS
    Jobs,        \* the uploads; a queued one keeps its name as its job's id
    Workers,     \* whoever calls run_job
    Uploads,     \* the batches of uploads considered: per job, a [size, dryRun, sheet] record
    Redelivery,  \* when a worker may be given an id again: "later", "any"
    MaxAgain,    \* bound: how often one is
    MaxCrashes,  \* bound: how often the process dies
    MaxErrors    \* bound: how many runs are broken off by an error

ASSUME ImportAssumption ==
    /\ Jobs # {}
    /\ Uploads \subseteq [Jobs -> [size : {"small", "large", "huge"}, dryRun : BOOLEAN,
                                   sheet : {"readable", "unreadable", "unwired"}]]
    /\ Redelivery \in {"later", "any"}
    /\ MaxAgain \in Nat /\ MaxCrashes \in Nat /\ MaxErrors \in Nat

VARIABLES
    upload,   \* per job, what was uploaded
    request,  \* per job, where the submitting request is
    payload,  \* per job, the stored bytes: "none", "held" or "swept"
    status,   \* per job, the status the jobs table holds; "none" before there is a row
    queue,    \* the ids the queue holds, oldest first
    worker,   \* per worker, what it is doing to which job, and the verdict it will save
    applied,  \* per job, how often its rows were committed
    submitter,\* the submitter: their person record, and whether they teach the section
    barred,   \* history: jobs not begun when the submitter lost the right to run them
    broken,   \* history: jobs of which a run was broken off by an error
    crashes,  \* how often the process died
    again     \* how often an id was handed out again

vars == <<upload, request, payload, status, queue, worker, applied, submitter, barred, broken, crashes, again>>

Upload == [size : {"small", "large", "huge"}, dryRun : BOOLEAN,
           sheet : {"readable", "unreadable", "unwired"}]
RequestStep == {"ready", "allowed", "stored", "added", "over"}
Idle == [pc |-> "idle", job |-> CHOOSE j \in Jobs : TRUE, verdict |-> "FAILED"]
WorkerStep == {"idle", "taken", "marked", "running", "resolved", "fetched", "allowed", "finished"}

\* The variables' types.
TypeOK ==
    /\ upload \in [Jobs -> Upload]
    /\ request \in [Jobs -> RequestStep]
    /\ payload \in [Jobs -> {"none", "held", "swept"}]
    /\ status \in [Jobs -> {"none", "PENDING", "RUNNING", "DONE", "FAILED"}]
    /\ queue \in Seq(Jobs)
    /\ worker \in [Workers -> [pc : WorkerStep, job : Jobs, verdict : {"DONE", "FAILED"}]]
    /\ applied \in [Jobs -> Nat]
    /\ submitter \in [known : BOOLEAN, teaches : BOOLEAN]
    /\ barred \in SUBSET Jobs
    /\ broken \in SUBSET Jobs
    /\ crashes \in 0..MaxCrashes
    /\ again \in 0..MaxAgain

Init ==
    /\ upload \in Uploads
    /\ request = [j \in Jobs |-> "ready"]
    /\ payload = [j \in Jobs |-> "none"]
    /\ status = [j \in Jobs |-> "none"]
    /\ queue = << >>
    /\ worker = [w \in Workers |-> Idle]
    /\ applied = [j \in Jobs |-> 0]
    /\ submitter = [known |-> TRUE, teaches |-> TRUE]
    /\ barred = {} /\ broken = {}
    /\ crashes = 0 /\ again = 0

--------------------------------------------------------------------------------
(* Submitting: ImportService.submit. *)

At(j, from, to) ==
    /\ request[j] = from
    /\ request' = [request EXCEPT ![j] = to]

\* fault: the right to grade is taken as it was when the file came in
MayGradeAtSubmission == TRUE

\* What stops an import before its rows: the file, the wiring (KeyError, which nobody
\* catches), then the submitter as they are now.  The guard is asked of one student of the
\* roster after another, whether in a section the submitter teaches; all are asked at once
\* here, of the one section.
MayGrade == submitter.known /\ submitter.teaches
Refused(j) == upload[j].sheet = "unreadable" \/ (upload[j].sheet = "readable" /\ ~MayGrade)
Unwired(j) == upload[j].sheet = "unwired"

\* over the cap nothing is parsed or stored
RefuseHuge(j) ==
    /\ upload[j].size = "huge"
    /\ At(j, "ready", "over")
    /\ UNCHANGED <<upload, payload, status, queue, worker, applied, submitter, barred, broken, crashes, again>>

\* below the threshold the upload is parsed and checked at once
InlineCheck(j) ==
    /\ upload[j].size = "small"
    /\ At(j, "ready", IF Refused(j) \/ Unwired(j) THEN "over" ELSE "allowed")
    /\ UNCHANGED <<upload, payload, status, queue, worker, applied, submitter, barred, broken, crashes, again>>

\* then applied in one transaction, which a dry run rolls back
InlineApply(j) ==
    /\ At(j, "allowed", "over")
    /\ applied' = IF upload[j].dryRun THEN applied ELSE [applied EXCEPT ![j] = @ + 1]
    /\ UNCHANGED <<upload, payload, status, queue, worker, submitter, barred, broken, crashes, again>>

\* the bytes first, under a key made from the job's id
PutPayload(j) ==
    /\ upload[j].size = "large"
    /\ At(j, "ready", "stored")
    /\ payload' = [payload EXCEPT ![j] = "held"]
    /\ UNCHANGED <<upload, status, queue, worker, applied, submitter, barred, broken, crashes, again>>

\* then the job, pending, in a transaction of its own
AddJob(j) ==
    /\ At(j, "stored", "added")
    /\ status' = [status EXCEPT ![j] = "PENDING"]
    /\ UNCHANGED <<upload, payload, queue, worker, applied, submitter, barred, broken, crashes, again>>

\* fault: the queue is told before the job is saved
EnqueueBeforeAdding(j) ==
    /\ At(j, "stored", "over")
    /\ queue' = Append(queue, j)
    /\ UNCHANGED <<upload, payload, status, worker, applied, submitter, barred, broken, crashes, again>>

\* fault: the storage key is enqueued where the id belongs
EnqueueKey(j) ==
    /\ At(j, "added", "over")
    /\ queue' = Append(queue, <<"imports", j>>)
    /\ UNCHANGED <<upload, payload, status, worker, applied, submitter, barred, broken, crashes, again>>

\* and only then its id: the inline queue's caller is the worker that takes it next
Enqueue(j) ==
    /\ At(j, "added", "over")
    /\ queue' = Append(queue, j)
    /\ UNCHANGED <<upload, payload, status, worker, applied, submitter, barred, broken, crashes, again>>

\* or the storage, or the database at a statement or a commit, raises what nobody here
\* catches: the transaction is rolled back, and what was stored before stays
RequestFails(j) ==
    /\ \E from \in {"allowed", "stored"} : At(j, from, "over")
    /\ UNCHANGED <<upload, payload, status, queue, worker, applied, submitter, barred, broken, crashes, again>>

--------------------------------------------------------------------------------
(* Running: ImportService.run_job. *)

Goes(w, from, to) ==
    /\ worker[w].pc = from
    /\ worker' = [worker EXCEPT ![w].pc = to]

\* run_job ends: by returning, or by an exception nobody here catches
GivesUp(w, from) ==
    /\ worker[w].pc = from
    /\ worker' = [worker EXCEPT ![w] = Idle]

\* an error run_job catches becomes the verdict it will save
Concludes(w, from, verdict) ==
    /\ worker[w].pc = from
    /\ worker' = [worker EXCEPT ![w].pc = "finished", ![w].verdict = verdict]

Handling(j) == {w \in Workers : worker[w].pc # "idle" /\ worker[w].job = j}

\* somebody has been handed the job and has not yet saved it as running
BeingStarted(j) == \E w \in Handling(j) : worker[w].pc \in {"taken", "marked"}

Take(w) ==
    /\ worker[w].pc = "idle"
    /\ queue # << >>
    /\ Redelivery = "later" => ~BeingStarted(Head(queue))
    /\ worker' = [worker EXCEPT ![w].pc = "taken", ![w].job = Head(queue)]
    /\ queue' = Tail(queue)
    /\ UNCHANGED <<upload, request, payload, status, applied, submitter, barred, broken, crashes, again>>

\* an id is handed out again, or one nobody stored; "later" keeps two workers from
\* starting one job at the same moment
TakeAgain(w, j) ==
    /\ worker[w].pc = "idle"
    /\ \/ Redelivery = "any"
       \/ Redelivery = "later" /\ ~BeingStarted(j)
    /\ worker' = [worker EXCEPT ![w].pc = "taken", ![w].job = j]
    /\ again < MaxAgain
    /\ again' = again + 1
    /\ UNCHANGED <<upload, request, payload, status, queue, applied, submitter, barred, broken, crashes>>

\* fault: a job already running or over may be started
ReadAnyStatus(w) ==
    LET j == worker[w].job IN
    /\ \/ status[j] # "none" /\ Goes(w, "taken", "marked")
       \/ status[j] = "none" /\ GivesUp(w, "taken")
    /\ UNCHANGED <<upload, request, payload, status, queue, applied, submitter, barred, broken, crashes, again>>

\* the job is read, and marked running on the copy that was read
Read(w) ==
    LET j == worker[w].job IN
    /\ \/ status[j] = "PENDING" /\ Goes(w, "taken", "marked")
       \/ status[j] # "PENDING" /\ GivesUp(w, "taken")   \* NotFoundError, JobStateError
    /\ UNCHANGED <<upload, request, payload, status, queue, applied, submitter, barred, broken, crashes, again>>

\* the copy overwrites the row, in a transaction of its own, whatever the row holds now
SaveRunning(w) ==
    /\ Goes(w, "marked", "running")
    /\ status' = [status EXCEPT ![worker[w].job] = "RUNNING"]
    /\ UNCHANGED <<upload, request, payload, queue, applied, submitter, barred, broken, crashes, again>>

\* the submitter is looked up as they are now
Resolve(w) ==
    /\ \/ submitter.known /\ Goes(w, "running", "resolved")
       \/ ~submitter.known /\ Concludes(w, "running", "FAILED")
    /\ UNCHANGED <<upload, request, payload, status, queue, applied, submitter, barred, broken, crashes, again>>

\* fault: a missing payload is an exception run_job does not catch
FetchOrEscape(w) ==
    /\ \/ payload[worker[w].job] = "held" /\ Goes(w, "resolved", "fetched")
       \/ payload[worker[w].job] # "held" /\ GivesUp(w, "resolved")
    /\ UNCHANGED <<upload, request, payload, status, queue, applied, submitter, barred, broken, crashes, again>>

Fetch(w) ==
    /\ \/ payload[worker[w].job] = "held" /\ Goes(w, "resolved", "fetched")
       \/ payload[worker[w].job] # "held" /\ Concludes(w, "resolved", "FAILED")
    /\ UNCHANGED <<upload, request, payload, status, queue, applied, submitter, barred, broken, crashes, again>>

\* run_inline up to the rows: parse, find the importer, check the right to grade
Check(w) ==
    LET j == worker[w].job IN
    /\ \/ Refused(j) /\ Concludes(w, "fetched", "FAILED")
       \/ Unwired(j) /\ GivesUp(w, "fetched")
       \/ ~Refused(j) /\ ~Unwired(j) /\ Goes(w, "fetched", "allowed")
    /\ UNCHANGED <<upload, request, payload, status, queue, applied, submitter, barred, broken, crashes, again>>

\* run_inline's rows and its commit: the job never recorded that this was a dry run
ApplyRows(w) ==
    /\ Concludes(w, "allowed", "DONE")
    /\ applied' = [applied EXCEPT ![worker[w].job] = @ + 1]
    /\ UNCHANGED <<upload, request, payload, status, queue, submitter, barred, broken, crashes, again>>

\* fault: a job whose import failed is saved as done
SaveDone(w) ==
    /\ GivesUp(w, "finished")
    /\ status' = [status EXCEPT ![worker[w].job] = "DONE"]
    /\ UNCHANGED <<upload, request, payload, queue, applied, submitter, barred, broken, crashes, again>>

\* the verdict overwrites the row
SaveVerdict(w) ==
    /\ GivesUp(w, "finished")
    /\ status' = [status EXCEPT ![worker[w].job] = worker[w].verdict]
    /\ UNCHANGED <<upload, request, payload, queue, applied, submitter, barred, broken, crashes, again>>

\* Anywhere in it, the database or the storage raises an error run_job does not catch, as it
\* catches the application's and the domain's only: what is committed stays, the status too.
\* A commit that went through and was not answered is the step, and then this one.
Breaks(w) ==
    /\ Cardinality(broken) < MaxErrors
    /\ worker[w].pc # "idle"
    /\ GivesUp(w, worker[w].pc)
    /\ broken' = broken \cup {worker[w].job}
    /\ UNCHANGED <<upload, request, payload, status, queue, applied, submitter, barred, crashes, again>>

--------------------------------------------------------------------------------
(* Around them. *)

\* a retention sweep removes stored bytes
Sweep(j) ==
    /\ payload[j] = "held"
    /\ payload' = [payload EXCEPT ![j] = "swept"]
    /\ UNCHANGED <<upload, request, status, queue, worker, applied, submitter, barred, broken, crashes, again>>

\* the section is given to another teacher, or the person record is deleted
LoseRights ==
    /\ submitter' \in {[submitter EXCEPT !.teaches = FALSE], [submitter EXCEPT !.known = FALSE]}
    /\ submitter' # submitter
    /\ barred' = barred \cup {j \in Jobs :
                   Handling(j) = {} /\ request[j] # "allowed" /\ applied[j] = 0}
    /\ UNCHANGED <<upload, request, payload, status, queue, worker, applied, broken, crashes, again>>

\* the process dies: requests, workers and the in-memory queue with it; the jobs
\* table and the stored bytes stay
Crash ==
    /\ crashes < MaxCrashes
    /\ crashes' = crashes + 1
    /\ request' = [j \in Jobs |-> IF request[j] = "ready" THEN "ready" ELSE "over"]
    /\ queue' = << >>
    /\ worker' = [w \in Workers |-> Idle]
    /\ UNCHANGED <<upload, payload, status, applied, submitter, barred, broken, again>>

Submit(j) ==
    \/ RefuseHuge(j) \/ InlineCheck(j) \/ InlineApply(j) \/ RequestFails(j)
    \/ PutPayload(j) \/ AddJob(j) \/ Enqueue(j)
RunJob(w) ==
    \/ Read(w) \/ SaveRunning(w) \/ Resolve(w) \/ Fetch(w)
    \/ Check(w) \/ ApplyRows(w) \/ SaveVerdict(w)

Next ==
    \/ \E j \in Jobs : Submit(j) \/ Sweep(j)
    \/ \E w \in Workers : Take(w) \/ RunJob(w) \/ Breaks(w) \/ \E j \in Jobs : TakeAgain(w, j)
    \/ LoseRights
    \/ Crash

Spec == Init /\ [][Next]_vars

\* Requests that have begun go on, and idle workers poll: the event loop runs every
\* ready coroutine.  Nothing obliges anybody to upload, sweep, revoke, fail or crash.
FairSpec ==
    /\ Spec
    /\ \A j \in Jobs : WF_vars(InlineApply(j) \/ AddJob(j) \/ Enqueue(j))
    /\ \A w \in Workers : WF_vars(Take(w)) /\ WF_vars(RunJob(w))

--------------------------------------------------------------------------------
\* Nobody is handed a job that cannot be found: an id is enqueued only after its job
\* is committed, and a job is committed only after its bytes were stored.
NothingHalfSubmitted ==
    /\ \A i \in DOMAIN queue : status[queue[i]] # "none"
    /\ \A j \in Jobs : status[j] # "none" => payload[j] # "none"

\* A submitter who lost the right to grade before their import began never has it go
\* through on their behalf.
BarredNeverApplied == \A j \in barred : applied[j] = 0

\* An import is applied at most once, however often its job is handed out.
AppliedAtMostOnce == \A j \in Jobs : applied[j] <= 1

\* A dry run writes nothing.
DryRunWritesNothing == \A j \in Jobs : upload[j].dryRun => applied[j] = 0

\* Statuses move only forward, and done and failed say what happened to the rows.
Lifecycle == INSTANCE ImportLifecycle WITH Uploads <- Jobs
ImplementsLifecycle == Lifecycle!Spec

\* While the process lives, a recorded job of a kind that is wired reaches an end, so the
\* page polling it stops polling: whatever is swept, whoever loses their rights, and whatever
\* errors break off the runs of other jobs.  One that breaks off its own leaves it as it is.
EveryJobEnds ==
    \A j \in Jobs :
        status[j] = "PENDING" ~>
            status[j] \in {"DONE", "FAILED"} \/ Unwired(j) \/ j \in broken \/ crashes > 0

--------------------------------------------------------------------------------
(* Why the safety ones hold, as an inductive invariant (module ImportJobsProofs). *)

\* a request has stored the bytes before its job is there, and nothing ran before that
Submitted(j) ==
    /\ request[j] \in {"ready", "allowed", "stored"} => status[j] = "none" /\ applied[j] = 0
    /\ request[j] = "stored" => payload[j] # "none"
    /\ request[j] = "added" => status[j] # "none"
    /\ status[j] # "none" => payload[j] # "none"

\* ids are of jobs that are there, and so are jobs that are run
Found ==
    /\ \A i \in DOMAIN queue : status[queue[i]] # "none"
    /\ \A w \in Workers : worker[w].pc \notin {"idle", "taken"} => status[worker[w].job] # "none"

\* a right that is lost stays lost, and whoever lost it is not past the check
HeldBack ==
    /\ barred # {} => ~MayGrade
    /\ \A j \in barred :
         /\ applied[j] = 0 /\ request[j] # "allowed"
         /\ \A w \in Workers : worker[w].pc = "allowed" => worker[w].job # j

Starting == {"taken", "marked"}
Started == {"running", "resolved", "fetched", "allowed", "finished"}

\* what a worker has done to its job, and that no two do the same to one
Turn(w) ==
    LET j == worker[w].job IN
    /\ worker[w].pc = "marked" => status[j] = "PENDING"
    /\ worker[w].pc \in Started => status[j] = "RUNNING"
    /\ worker[w].pc \in Started \ {"finished"} => applied[j] = 0
    /\ worker[w].pc = "finished" => applied[j] = IF worker[w].verdict = "DONE" THEN 1 ELSE 0
    /\ \A v \in Workers \ {w} : worker[v].job = j =>
         /\ ~(worker[w].pc \in Starting /\ worker[v].pc \in Starting)
         /\ ~(worker[w].pc \in Started /\ worker[v].pc \in Started)

InTurn ==
    /\ \A j \in Jobs : applied[j] <= 1 /\ (status[j] = "PENDING" => applied[j] = 0)
    /\ \A w \in Workers : Turn(w)

\* The last part is of a queue that hands an id out again only once nobody starts its job.
JobsInv ==
    /\ TypeOK
    /\ \A j \in Jobs : Submitted(j)
    /\ Found
    /\ HeldBack
    /\ Redelivery = "later" => InTurn
================================================================================
