------------------------------- MODULE GradeBook -------------------------------
(* Transcripts in the SQL database, and the two writers of them: record_grade   *)
(* for one student, and a grade sheet's rows in one transaction.  A transcript  *)
(* is one row, read whole, appended to in memory and written whole, and every   *)
(* statement sent to the database is a step.                                    *)
(*                                                                              *)
(* The database is external: reads see what is committed, a written row is      *)
(* locked until its transaction ends, and a cycle of waits costs one of its     *)
(* members its transaction.  Authorization came before: module Access.          *)
EXTENDS Naturals, Sequences

CONSTANTS
    Students,
    Enrolled,  \* the students on the roster of the section being graded
    Works,     \* the transactions: calls of record_grade and runs of an import
    Files,     \* what they may be asked: [call, dryRun, rows] records
    MaxRows    \* bound: the longest sheet

Row == [student : Students, flaw : {"none", "nobody", "grade"}]
File == [call : BOOLEAN, dryRun : BOOLEAN, rows : Seq(Row)]

ASSUME GradeAssumption ==
    /\ Enrolled \subseteq Students
    /\ Files \subseteq File
    /\ MaxRows \in Nat
    /\ \A f \in Files : Len(f.rows) \in 1..MaxRows /\ (f.call => Len(f.rows) = 1 /\ ~f.dryRun)

VARIABLES
    history,   \* the committed transcripts
    file,      \* per work, what it was asked to record
    pc,        \* per work, where it is
    line,      \* per work, the row it is at
    copy,      \* per work, the transcripts in its session
    locked,    \* per work, the transcripts it has written and not committed
    reported,  \* per work, the rows its report counts as recorded
    risked     \* history: attempts committed past a transaction already holding the old copy

vars == <<history, file, pc, line, copy, locked, reported, risked>>

Attempt == [work : Works, line : 1..MaxRows]
Ends == {"committed", "rehearsed", "refused", "victim", "crashed"}

\* The variables' types.
TypeOK ==
    /\ history \in [Students -> [there : BOOLEAN, attempts : SUBSET Attempt]]
    /\ file \in [Works -> Files]
    /\ pc \in [Works -> {"ready", "open", "absent", "loaded"} \cup Ends]
    /\ line \in [Works -> 1..(MaxRows + 1)]
    /\ copy \in [Works -> [Students -> SUBSET Attempt]]
    /\ locked \in [Works -> SUBSET Students]
    /\ reported \in [Works -> SUBSET (1..MaxRows)]
    /\ risked \in SUBSET Attempt

Init ==
    /\ history = [s \in Students |-> [there |-> FALSE, attempts |-> {}]]
    /\ file \in [Works -> Files]
    /\ pc = [w \in Works |-> "ready"]
    /\ line = [w \in Works |-> 1]
    /\ copy = [w \in Works |-> [s \in Students |-> {}]]
    /\ locked = [w \in Works |-> {}]
    /\ reported = [w \in Works |-> {}]
    /\ risked = {}

--------------------------------------------------------------------------------
Rows(w) == file[w].rows
This(w) == Rows(w)[line[w]]
Left(w) == line[w] <= Len(Rows(w))
Student(w) == This(w).student

\* waiting for another transaction's lock: an INSERT of a row it inserted, or an
\* UPDATE of a row it wrote
WaitsFor(w) ==
    {u \in Works \ {w} :
        /\ \/ pc[w] = "absent"
           \/ pc[w] = "loaded" /\ Student(w) \in Enrolled
        /\ Student(w) \in locked[u]}

\* the transaction is over, and what it had not committed is gone
End(w, how) ==
    /\ pc' = [pc EXCEPT ![w] = how]
    /\ locked' = [locked EXCEPT ![w] = {}]
    /\ copy' = [copy EXCEPT ![w] = [s \in Students |-> {}]]
    /\ UNCHANGED <<file, line>>

\* record_grade checks the grade before its transaction, run_inline parses before its own
Begin(w) ==
    /\ pc[w] = "ready"
    /\ pc' = [pc EXCEPT ![w] = IF file[w].call /\ This(w).flaw = "grade" THEN "refused" ELSE "open"]
    /\ UNCHANGED <<history, file, line, copy, locked, reported, risked>>

\* fault: the file's earlier rows are forgotten
SeenNothing(w) == {}

\* the students a sheet has a recorded row for
Seen(w) == {Rows(w)[i].student : i \in reported[w]}

\* nobody has the row's email, the student has a row recorded already, or it is no grade
Unusable(w) == This(w).flaw # "none" \/ Student(w) \in Seen(w)

\* fault: a refused call leaves the block without rolling back
RefuseHoldingLocks(w) ==
    /\ \/ pc[w] = "open" /\ Left(w) /\ Unusable(w)
       \/ pc[w] = "loaded" /\ Student(w) \notin Enrolled
    /\ \/ /\ file[w].call
          /\ pc' = [pc EXCEPT ![w] = "refused"]
          /\ UNCHANGED <<file, line, copy, locked>>
       \/ /\ ~file[w].call
          /\ pc' = [pc EXCEPT ![w] = "open"]
          /\ line' = [line EXCEPT ![w] = @ + 1]
          /\ UNCHANGED <<file, copy, locked>>
    /\ UNCHANGED <<history, reported, risked>>

\* a bad row costs a sheet that row, and a call everything
TurnAway(w) ==
    /\ \/ pc[w] = "open" /\ Left(w) /\ Unusable(w)
       \/ pc[w] = "loaded" /\ Student(w) \notin Enrolled
    /\ \/ file[w].call /\ End(w, "refused")
       \/ /\ ~file[w].call
          /\ pc' = [pc EXCEPT ![w] = "open"]
          /\ line' = [line EXCEPT ![w] = @ + 1]
          /\ UNCHANGED <<file, copy, locked>>
    /\ UNCHANGED <<history, reported, risked>>

\* get_or_create looks: in the session, where this transaction's own writes are, or
\* in the table
Look(w) ==
    LET s == Student(w) IN
    /\ pc[w] = "open" /\ Left(w) /\ ~Unusable(w)
    /\ pc' = [pc EXCEPT ![w] = IF s \in locked[w] \/ history[s].there THEN "loaded" ELSE "absent"]
    /\ copy' = IF s \in locked[w] THEN copy ELSE [copy EXCEPT ![w][s] = history[s].attempts]
    /\ UNCHANGED <<history, file, line, locked, reported, risked>>

\* fault: the loser of the race goes on with an empty transcript of its own
InsertInventing(w) ==
    LET s == Student(w) IN
    /\ pc[w] = "absent" /\ WaitsFor(w) = {}
    /\ pc' = [pc EXCEPT ![w] = "loaded"]
    /\ copy' = [copy EXCEPT ![w][s] = {}]
    /\ locked' = [locked EXCEPT ![w] = IF history[s].there THEN @ ELSE @ \cup {s}]
    /\ UNCHANGED <<history, file, line, reported, risked>>

\* fault: without the savepoint, the loser of the race fails
InsertWithoutSavepoint(w) ==
    LET s == Student(w) IN
    /\ pc[w] = "absent" /\ WaitsFor(w) = {}
    /\ \/ history[s].there /\ End(w, "refused")
       \/ /\ ~history[s].there
          /\ pc' = [pc EXCEPT ![w] = "loaded"]
          /\ copy' = [copy EXCEPT ![w][s] = {}]
          /\ locked' = [locked EXCEPT ![w] = @ \cup {s}]
          /\ UNCHANGED <<file, line>>
    /\ UNCHANGED <<history, reported, risked>>

\* it inserts an empty transcript inside a savepoint; when somebody committed one since,
\* the savepoint is rolled back and theirs is read
Insert(w) ==
    LET s == Student(w) IN
    /\ pc[w] = "absent" /\ WaitsFor(w) = {}
    /\ pc' = [pc EXCEPT ![w] = "loaded"]
    /\ copy' = [copy EXCEPT ![w][s] = history[s].attempts]
    /\ locked' = [locked EXCEPT ![w] = IF history[s].there THEN @ ELSE @ \cup {s}]
    /\ UNCHANGED <<history, file, line, reported, risked>>

\* fault: the collection is not flagged, so the flush finds nothing to write
SaveUnflagged(w) ==
    /\ pc[w] = "loaded" /\ Student(w) \in Enrolled /\ WaitsFor(w) = {}
    /\ reported' = [reported EXCEPT ![w] = @ \cup {line[w]}]
    /\ pc' = [pc EXCEPT ![w] = "open"]
    /\ line' = [line EXCEPT ![w] = @ + 1]
    /\ UNCHANGED <<history, file, copy, locked, risked>>

\* fault: the report numbers a sheet's rows from zero
SaveNumberedFromZero(w) ==
    LET s == Student(w) IN
    /\ pc[w] = "loaded" /\ s \in Enrolled /\ WaitsFor(w) = {}
    /\ copy' = [copy EXCEPT ![w][s] = @ \cup {[work |-> w, line |-> line[w]]}]
    /\ locked' = [locked EXCEPT ![w] = @ \cup {s}]
    /\ reported' = [reported EXCEPT ![w] = @ \cup {line[w] - 1}]
    /\ pc' = [pc EXCEPT ![w] = "open"]
    /\ line' = [line EXCEPT ![w] = @ + 1]
    /\ UNCHANGED <<history, file, risked>>

\* the attempt is appended to the session's copy, and the copy written whole
Save(w) ==
    LET s == Student(w) IN
    /\ pc[w] = "loaded" /\ s \in Enrolled /\ WaitsFor(w) = {}
    /\ copy' = [copy EXCEPT ![w][s] = @ \cup {[work |-> w, line |-> line[w]]}]
    /\ locked' = [locked EXCEPT ![w] = @ \cup {s}]
    /\ reported' = [reported EXCEPT ![w] = @ \cup {line[w]}]
    /\ pc' = [pc EXCEPT ![w] = "open"]
    /\ line' = [line EXCEPT ![w] = @ + 1]
    /\ UNCHANGED <<history, file, risked>>

\* attempts of w on s that a transaction holding an older copy of s can overwrite
Exposed(w) ==
    {a \in UNION {copy[w][s] : s \in locked[w]} :
        \E u \in Works \ {w} : /\ pc[u] = "loaded"
                               /\ Student(u) \in locked[w]
                               /\ a \in copy[w][Student(u)] \ copy[u][Student(u)]}

\* fault: every import is committed, a rehearsal too
FinishCommitting(w) ==
    /\ pc[w] = "open" /\ ~Left(w)
    /\ history' = [s \in Students |->
                     IF s \in locked[w] THEN [there |-> TRUE, attempts |-> copy[w][s]] ELSE history[s]]
    /\ risked' = risked \cup Exposed(w)
    /\ End(w, IF file[w].dryRun THEN "rehearsed" ELSE "committed")
    /\ UNCHANGED reported

\* after the last row: commit, or the rollback a dry run asked for
Finish(w) ==
    /\ pc[w] = "open" /\ ~Left(w)
    /\ \/ /\ ~file[w].dryRun
          /\ history' = [s \in Students |->
                           IF s \in locked[w] THEN [there |-> TRUE, attempts |-> copy[w][s]]
                                              ELSE history[s]]
          /\ risked' = risked \cup Exposed(w)
          /\ End(w, "committed")
       \/ /\ file[w].dryRun
          /\ End(w, "rehearsed")
          /\ UNCHANGED <<history, risked>>
    /\ UNCHANGED reported

--------------------------------------------------------------------------------
\* Works each of which waits for another of them, and is waited for.
Deadlocked(C) ==
    /\ C # {}
    /\ \A w \in C : WaitsFor(w) \cap C # {} /\ \E u \in C : w \in WaitsFor(u)

\* the database breaks a deadlock; the error is in no table of the application
Break(w) ==
    /\ \E C \in SUBSET Works : w \in C /\ Deadlocked(C)
    /\ End(w, "victim")
    /\ UNCHANGED <<history, reported, risked>>

\* the process or its connection dies, and the database rolls back
Crash(w) ==
    /\ pc[w] \in {"open", "absent", "loaded"}
    /\ End(w, "crashed")
    /\ UNCHANGED <<history, reported, risked>>

Step(w) == Begin(w) \/ TurnAway(w) \/ Look(w) \/ Insert(w) \/ Save(w) \/ Finish(w)

Next == \E w \in Works : Step(w) \/ Break(w) \/ Crash(w)

Spec == Init /\ [][Next]_vars

\* The event loop runs every ready coroutine and the database breaks every deadlock;
\* nobody has to call, and nothing has to crash.
FairSpec ==
    Spec /\ \A w \in Works : WF_vars((pc[w] # "ready" /\ Step(w)) \/ Break(w))

--------------------------------------------------------------------------------
\* Nothing of a work that was refused, rehearsed or rolled back is ever in a transcript,
\* not even carried there by somebody who read it; and a transcript that is there, be it an
\* empty one, comes of a committed work with a sound row for its student.
NothingOfTheAborted ==
    \A s \in Students :
        /\ \A a \in history[s].attempts : pc[a.work] = "committed"
        /\ history[s].there =>
             \E w \in Works :
                /\ pc[w] = "committed"
                /\ \E i \in DOMAIN Rows(w) : Rows(w)[i] = [student |-> s, flaw |-> "none"]

\* A committed attempt can only be lost to a transaction that already held a copy of
\* the transcript from before it: no other interleaving loses a grade.
LossNeedsOverlap ==
    \A w \in Works : pc[w] = "committed" =>
        \A i \in reported[w] :
            LET a == [work |-> w, line |-> i] IN
            a \in history[Rows(w)[i].student].attempts \cup risked

\* One sheet gives a student one attempt.
OneRowPerStudent ==
    \A s \in Students : \A a, b \in history[s].attempts : a.work = b.work => a = b

\* Only a call with something wrong in it is refused: two first grades for one student
\* at the same moment are both recorded or waited for, never an error.
OnlyBadCallsRefused ==
    \A w \in Works : pc[w] = "refused" =>
        This(w).flaw # "none" \/ Student(w) \notin Enrolled

\* Whatever the locks, a work that has begun comes to an end.
EveryWorkEnds == \A w \in Works : pc[w] = "open" ~> pc[w] \in Ends

--------------------------------------------------------------------------------
(* Why the safety ones hold, as an inductive invariant (module GradeBookProofs). *)

Live(w) == pc[w] \in {"ready", "open", "absent", "loaded"}

\* a work is at a row it can use once it has looked, and has recorded earlier rows only,
\* of one student each
AtRow(w) ==
    /\ line[w] <= Len(Rows(w)) + 1
    /\ pc[w] = "ready" => line[w] = 1
    /\ reported[w] \subseteq 1..(line[w] - 1)
    /\ pc[w] \in {"absent", "loaded"} => Left(w) /\ ~Unusable(w)
    /\ pc[w] = "absent" => Student(w) \notin locked[w]
    /\ \A i, j \in reported[w] : Rows(w)[i].student = Rows(w)[j].student => i = j

\* the attempt is one its work reports, on the student of its row
Genuine(a, s) == a.line \in reported[a.work] /\ Rows(a.work)[a.line].student = s

\* what is written has a sound row behind it, and what is reported is written
Written(w) ==
    /\ \A s \in locked[w] :
         \E i \in DOMAIN Rows(w) : Rows(w)[i] = [student |-> s, flaw |-> "none"]
    /\ Live(w) => \A i \in reported[w] :
         /\ Rows(w)[i].student \in locked[w]
         /\ [work |-> w, line |-> i] \in copy[w][Rows(w)[i].student]

\* a copy has nothing that may yet be rolled back but the work's own, and the copy of a
\* transcript it writes, or is about to, lacks nothing but what is at risk
Copies(w) ==
    \A s \in Students :
        /\ \A a \in copy[w][s] : Genuine(a, s) /\ (a.work = w \/ pc[a.work] = "committed")
        /\ s \in locked[w] \/ (pc[w] = "loaded" /\ s = Student(w)) =>
             history[s].attempts \ risked \subseteq copy[w][s]

OneWriter == \A u, w \in Works : u # w => locked[u] \cap locked[w] = {}

BookInv ==
    /\ TypeOK
    /\ \A w \in Works : AtRow(w) /\ Written(w) /\ Copies(w)
    /\ OneWriter
    /\ \A s \in Students : \A a \in history[s].attempts : Genuine(a, s)
    /\ NothingOfTheAborted /\ LossNeedsOverlap /\ OnlyBadCallsRefused
================================================================================
