------------------------------- MODULE MCGradeBook -----------------------------
(* Instances of GradeBook small enough for TLC. *)
EXTENDS GradeBook

CONSTANTS ada, bob, zoe

Good(s) == [student |-> s, flaw |-> "none"]
Flawed(s, flaw) == [student |-> s, flaw |-> flaw]
Call(row) == [call |-> TRUE, dryRun |-> FALSE, rows |-> <<row>>]
Sheet(dry, rows) == [call |-> FALSE, dryRun |-> dry, rows |-> rows]

\* one-student calls: a good one, one for a student of another section, one with no grade
Calls == {Call(Good(ada)), Call(Good(zoe)), Call(Flawed(ada, "grade"))}

\* sheets that meet each other in both orders, one of them a rehearsal; one that repeats
\* a student; one that names nobody and a student of another section
Sheets ==
    {Sheet(FALSE, <<Good(ada), Good(bob)>>), Sheet(TRUE, <<Good(bob), Good(ada)>>),
     Sheet(FALSE, <<Good(ada), Good(ada)>>), Sheet(FALSE, <<Flawed(bob, "nobody"), Good(zoe)>>)}

CallsAndSheets == Calls \cup Sheets
================================================================================
