------------------------------- MODULE MCRegistry ------------------------------
(* Instances of Registry small enough for TLC. *)
EXTENDS Registry, Repositories

CONSTANTS teacher, registrar, section, first, tess, adele, you

\* two of the five people are enough to be in each other's way; the section has no address
TwoPeopleAndSection ==
    <<[id |-> teacher, email |-> tess], [id |-> registrar, email |-> adele],
      [id |-> section, email |-> NoEmail]>>

--------------------------------------------------------------------------------
(* A database of a few texts, for the columns and the listings. *)

TwoIds == {"one", "two"}
\* as str compares them: digits, then "T", then letters; the year 999 after 2026
TextsInOrder ==
    <<" Ada@x ", "-1", "0", "18", "1a-", "1b-", "2026-01-01", "2026-01-02", "2026-T1", "2026-T2",
      "2026-T3", "999-T1", "999-T2", "ada", "ada@x", "bob@x", "{1a-}">>
SomeTexts == ToSet(TextsInOrder)
AsCompared ==
    {<<TextsInOrder[p[1]], TextsInOrder[p[2]]>> :
        p \in {q \in (DOMAIN TextsInOrder) \X (DOMAIN TextsInOrder) : q[1] < q[2]}}
Lowercase == [i \in TwoIds |-> IF i = "one" THEN "1a-" ELSE "1b-"]
WithBraces == [t \in {"1a-", "1b-", "{1a-}"} |-> IF t = "1b-" THEN "two" ELSE "one"]
ReadAsNumbers == [t \in {"-1", "0", "18"} |-> CASE t = "-1" -> -1 [] t = "0" -> 0 [] OTHER -> 18]
WrittenNumbers == [n \in {0, 18} |-> IF n = 0 THEN "0" ELSE "18"]
TwoYears == {999, 2026}
Labels ==
    [t \in [year : TwoYears, number : {1, 2}] |->
        CASE t.year = 999 /\ t.number = 1 -> "999-T1"
          [] t.year = 999 /\ t.number = 2 -> "999-T2"
          [] t.year = 2026 /\ t.number = 1 -> "2026-T1"
          [] OTHER -> "2026-T2"]
ReadAsTerms ==
    [t \in {"2026-T1", "2026-T2", "2026-T3", "999-T1", "999-T2"} |->
        CASE t = "2026-T1" -> <<2026, 1>>
          [] t = "2026-T2" -> <<2026, 2>>
          [] t = "2026-T3" -> <<2026, 3>>
          [] t = "999-T1" -> <<999, 1>>
          [] OTHER -> <<999, 2>>]
Normalised == [t \in SomeTexts |-> IF t = " Ada@x " THEN "ada@x" ELSE t]
Addresses == {"ada@x", "bob@x"}
TwoDays == [m \in {1, 2} |-> IF m = 1 THEN "2026-01-01" ELSE "2026-01-02"]

SomeJobs ==
    {[id |-> i, kind |-> "people", by |-> "1a-", at |-> [clock |-> m, offset |-> 0],
      status |-> "done"] : i \in TwoIds, m \in {1, 2}}
SomeSections ==
    {[id |-> i, subject |-> "one", term |-> t, teacher |-> "two", enrollments |-> <<"one">>] :
        i \in TwoIds, t \in Terms}
KeyedTables(rows) == {S \in SUBSET rows : Keyed(S) /\ Cardinality(S) <= 2}

\* The newest jobs come alike but for a tie, and of two terms the later year may come first
\* among the sections, which are listed by the text of the term, but not in the journal.
ASSUME ListingsEvaluated ==
    /\ \A S \in KeyedTables(SomeJobs) :
         /\ MemoryJobs(S, {}) = SqlJobs(S, {})
         /\ (MemoryNewest(S, {}) = SqlNewest(S, {})) = (\A j, k \in S : j.at = k.at => j = k)
    /\ \E S \in KeyedTables(SomeSections) :
         SectionsListed(S, {}) = RecentFirst(S, {}) /\ Cardinality(S) = 2

\* On SQLite no job comes back with the moment it was submitted at, and none moves when it is
\* saved as it was read.
ASSUME MomentsEvaluated ==
    \A j \in SomeJobs : \E k \in ReadJob(JobRow(j)) :
        /\ k = [j EXCEPT !.at.offset = Naive]
        /\ ReadJob(JobRow(k)) = {k}
================================================================================
