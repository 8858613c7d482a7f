------------------------------- MODULE JobTable --------------------------------
(* The table of import jobs, as transactions see it: the operations of           *)
(* SqlAlchemyImportJobRepository, statement by statement, over an external       *)
(* database.  A claim is one UPDATE: it picks the oldest pending row it sees,    *)
(* waits while another transaction has that row, and updates it if it is         *)
(* pending still.  A save says nothing of what the row holds: it writes what the *)
(* worker's copy of the job says.  Copies come from run_job, which reads a       *)
(* pending job, marks its copy and saves it twice, and from claims, which no     *)
(* driver in the repository makes yet.  A unit of work here writes one job, as   *)
(* each one that ImportService opens does.                                       *)
EXTENDS Integers

CONSTANTS
    Jobs,      \* jobs, numbered by submission time and id, which is how lists are sorted
    Workers,   \* whoever opens a session on the database
    MaxAborts  \* bound: how many transactions end without a commit

ASSUME JobTableAssumption == Jobs \subseteq Nat /\ MaxAborts \in Nat

VARIABLES
    row,     \* per job, the status the database has committed
    tx,      \* per worker, the transaction it has open: what it does to which job
    copy,    \* per worker and job, the copy it has in hand: marked running, saved, or claimed
    aborts   \* how many transactions ended without a commit

tableVars == <<row, tx, copy, aborts>>

Verdicts == {"done", "failed"}
\* a deleted row is not an absent one: ids are never used again
Status == {"absent", "pending", "running", "deleted"} \cup Verdicts
InHand == {"marked", "running", "claimed"}
Closed == [op |-> "none", job |-> 0, to |-> "absent", wrote |-> FALSE]
Transaction == [op : {"add", "claim", "save", "delete"}, job : Jobs, to : Status, wrote : BOOLEAN]

JobTableTypeOK ==
    /\ row \in [Jobs -> Status]
    /\ tx \in [Workers -> Transaction \cup {Closed}]
    /\ copy \in [Workers -> [Jobs -> InHand \cup {"none"}]]
    /\ aborts \in Nat

JobTableInit ==
    /\ row = [j \in Jobs |-> "absent"]
    /\ tx = [w \in Workers |-> Closed]
    /\ copy = [w \in Workers |-> [j \in Jobs |-> "none"]]
    /\ aborts = 0

Stored(j) == row[j] \notin {"absent", "deleted"}
Pending == {j \in Jobs : row[j] = "pending"}

--------------------------------------------------------------------------------
(* The first statement of each operation: what it reads. *)

Opens(w, op, j, to) ==
    /\ tx[w] = Closed
    /\ tx' = [tx EXCEPT ![w] = [op |-> op, job |-> j, to |-> to, wrote |-> FALSE]]
    /\ UNCHANGED <<row, copy, aborts>>

\* fault: a job in any state is begun
ReadsAnyStatus(w, j) ==
    /\ tx[w] = Closed
    /\ Stored(j) /\ copy[w][j] = "none"
    /\ copy' = [copy EXCEPT ![w][j] = "marked"]
    /\ UNCHANGED <<row, tx, aborts>>

\* run_job's first: the job is read, and marked running on the copy; JobStateError
\* unless it is pending
Reads(w, j) ==
    /\ tx[w] = Closed
    /\ row[j] = "pending" /\ copy[w][j] = "none"
    /\ copy' = [copy EXCEPT ![w][j] = "marked"]
    /\ UNCHANGED <<row, tx, aborts>>

\* with a fresh id, so that ConflictError is nobody's
AskAdd(w, j) ==
    /\ row[j] = "absent"
    /\ \A v \in Workers : tx[v].op = "add" => tx[v].job # j
    /\ Opens(w, "add", j, "pending")

\* the subquery, which sees committed rows; without any the answer is None
AskClaim(w) ==
    \E j \in Pending :
        /\ \A k \in Pending : j <= k
        /\ Opens(w, "claim", j, "running")

\* by id, whatever the row holds now: first that the job runs, then its verdict
AskSave(w, j, to) ==
    /\ \/ copy[w][j] = "marked" /\ to = "running"
       \/ copy[w][j] \in {"running", "claimed"} /\ to \in Verdicts
    /\ Stored(j)
    /\ Opens(w, "save", j, to)

\* NotFoundError: the job it ran is not there
Bereft(w, j) ==
    /\ tx[w] = Closed
    /\ copy[w][j] # "none"
    /\ ~Stored(j)
    /\ copy' = [copy EXCEPT ![w][j] = "none"]
    /\ UNCHANGED <<row, tx, aborts>>

AskDelete(w, j) ==
    /\ Stored(j)
    /\ Opens(w, "delete", j, "deleted")

--------------------------------------------------------------------------------
(* The second one, which writes the row, or waits for the one who has it. *)

\* fault: the status is looked at in the subquery only
MatchesById(w) == tx[w].op # "add" => Stored(tx[w].job)

\* the WHERE of each statement, on the row as it is when the lock is had
Matches(w) ==
    LET t == tx[w] IN
    CASE t.op = "claim" -> row[t.job] = "pending"
      [] t.op \in {"save", "delete"} -> Stored(t.job)
      [] OTHER -> TRUE

Unlocked(w) == \A v \in Workers : ~(tx[v].wrote /\ tx[v].job = tx[w].job)

Writes(w) ==
    /\ tx[w] # Closed /\ ~tx[w].wrote
    /\ Unlocked(w)
    /\ Matches(w)
    /\ tx' = [tx EXCEPT ![w].wrote = TRUE]
    /\ UNCHANGED <<row, copy, aborts>>

\* what a worker has in hand once its save is through
AfterSave(w) == IF tx[w].to = "running" THEN "running" ELSE "none"

\* no row matched: a claim gets None, and what was saved is lost with the deleted row,
\* which nobody notices
Misses(w) ==
    LET t == tx[w] IN
    /\ t # Closed /\ ~t.wrote
    /\ Unlocked(w)
    /\ ~Matches(w)
    /\ copy' = IF t.op = "save" THEN [copy EXCEPT ![w][t.job] = AfterSave(w)] ELSE copy
    /\ tx' = [tx EXCEPT ![w] = Closed]
    /\ UNCHANGED <<row, aborts>>

Commit(w) ==
    LET t == tx[w] IN
    /\ t.wrote
    /\ row' = [row EXCEPT ![t.job] = t.to]
    /\ copy' = CASE t.op = "claim" -> [copy EXCEPT ![w][t.job] = "claimed"]
                 [] t.op = "save" -> [copy EXCEPT ![w][t.job] = AfterSave(w)]
                 [] OTHER -> copy
    /\ tx' = [tx EXCEPT ![w] = Closed]
    /\ UNCHANGED aborts

\* an error, or a session closed before its commit: the row is as it was, and a run whose
\* save fails is over
Rollback(w) ==
    LET t == tx[w] IN
    /\ t # Closed
    /\ aborts < MaxAborts
    /\ aborts' = aborts + 1
    /\ copy' = IF t.op = "save" THEN [copy EXCEPT ![w][t.job] = "none"] ELSE copy
    /\ tx' = [tx EXCEPT ![w] = Closed]
    /\ UNCHANGED row

\* the worker dies: the database rolls back, and nobody has the copies it had
Die(w) ==
    /\ tx' = [tx EXCEPT ![w] = Closed]
    /\ copy' = [copy EXCEPT ![w] = [j \in Jobs |-> "none"]]
    /\ UNCHANGED row

Statement(w) ==
    \/ AskClaim(w)
    \/ \E j \in Jobs :
        \/ AskAdd(w, j) \/ Reads(w, j) \/ Bereft(w, j) \/ AskDelete(w, j)
        \/ \E to \in Verdicts \cup {"running"} : AskSave(w, j, to)
    \/ Writes(w) \/ Misses(w) \/ Commit(w) \/ Rollback(w)

Crash(w) ==
    /\ aborts < MaxAborts
    /\ aborts' = aborts + 1
    /\ Die(w)

JobTableNext == \E w \in Workers : Statement(w) \/ Crash(w)

JobTableSpec == JobTableInit /\ [][JobTableNext]_tableVars

--------------------------------------------------------------------------------
\* The jobs a worker has claimed, or will have when its claim is committed.
Claimed(w) ==
    {j \in Jobs : \/ copy[w][j] = "claimed"
                  \/ tx[w].op = "claim" /\ tx[w].wrote /\ tx[w].job = j}

\* Two workers never have the same job, however their claims, waits, rollbacks and
\* crashes interleave, and whoever else runs it unclaimed: what the port asks of
\* claim_next_pending.
OneHolder == \A v, w \in Workers : v # w => Claimed(v) \cap Claimed(w) = {}

\* A job comes into a worker's hands only while it is pending, however long a claim
\* waited for the row after its subquery looked: a job that runs, has a verdict or was
\* deleted meanwhile is not begun again.  (Whoever had it in hand before may still save
\* over the verdict.)
TakenWhilePending ==
    [][\A w \in Workers, j \in Jobs :
          copy'[w][j] \in {"marked", "claimed"} /\ copy'[w][j] # copy[w][j]
            => row[j] = "pending"]_tableVars

--------------------------------------------------------------------------------
(* Why they hold, as an inductive invariant (DeploymentProofs). *)

Is(w, op) == tx[w].op = op

\* what an open transaction is about
Meant(w) ==
    /\ Is(w, "claim") => tx[w].to = "running"
    /\ Is(w, "delete") => tx[w].to = "deleted"
    /\ Is(w, "save") => tx[w].to \in Verdicts \cup {"running"}
    /\ Is(w, "add") => /\ tx[w].to = "pending" /\ row[tx[w].job] = "absent"
                       /\ \A v \in Workers : Is(v, "add") /\ tx[v].job = tx[w].job => v = w

\* a row that is written is as it was found until the commit, and has one writer
Locks(w) ==
    tx[w].wrote =>
        /\ Is(w, "claim") => row[tx[w].job] = "pending"
        /\ tx[w].op \in {"save", "delete"} => Stored(tx[w].job)
        /\ \A v \in Workers : tx[v].wrote /\ tx[v].job = tx[w].job => v = w

\* a job that is claimed is not pending any more, and nobody else has claimed it
Holds(w) ==
    \A j \in Jobs : copy[w][j] = "claimed" =>
        /\ row[j] \notin {"absent", "pending"}
        /\ \A v \in Workers : copy[v][j] = "claimed" => v = w

TableInv == JobTableTypeOK /\ \A w \in Workers : Meant(w) /\ Locks(w) /\ Holds(w)

================================================================================
