------------------------------- MODULE Academics -------------------------------
(* The domain's academic side: a degree program and its plans, course sections, *)
(* enrollment, transcripts and graduations.  Every operation is synchronous; no *)
(* use case calls most of them yet, so any order of calls the types allow is    *)
(* one a use case may make.                                                     *)
EXTENDS Naturals, Sequences, SequencesExt

CONSTANTS
    Students,        \* the people the operations are called with
    Teachers,
    Subjects,
    Plans,           \* the plans of one degree program
    Sections,        \* the course sections
    Terms,
    Grades,          \* the grades considered, out of 0..10
    Roles,           \* the people who hold the role they are called for
    Qualified,       \* pairs: a teacher with a credential, a subject it qualifies for
    DirectPlans,     \* may Plan.activate be called past the program that owns the plan?
    MaxAttempts      \* bound: the longest transcript

ASSUME AcademicsAssumption ==
    /\ Teachers # {} /\ Subjects # {} /\ Terms # {}
    /\ Grades \subseteq 0..10
    /\ Roles \subseteq Students \cup Teachers
    /\ Qualified \subseteq Teachers \X Subjects
    /\ DirectPlans \in BOOLEAN
    /\ MaxAttempts \in Nat

VARIABLES
    plan,        \* per plan: whether the program has it, its subjects, whether it is active
    section,     \* per section: whether it exists, its subject, term, teacher and roster
    transcript,  \* per student, their attempts in order
    graduation   \* per student: their graduation's status, and the subjects it was conferred on

vars == <<plan, section, transcript, graduation>>

Attempt == [subject : Subjects, grade : Grades, source : Sections, detached : BOOLEAN]

\* The variables' types.
TypeOK ==
    /\ plan \in [Plans -> [added : BOOLEAN, subjects : SUBSET Subjects, active : BOOLEAN]]
    /\ section \in [Sections -> [formed : BOOLEAN, subject : Subjects, term : Terms,
                                 teacher : Teachers, roster : SUBSET Students]]
    /\ transcript \in [Students -> Seq(Attempt)]
    /\ graduation \in [Students -> [status : {"none", "active", "revoked"},
                                    subjects : SUBSET Subjects]]

Init ==
    /\ plan = [p \in Plans |-> [added |-> FALSE, subjects |-> {}, active |-> FALSE]]
    /\ section = [c \in Sections |->
                    [formed |-> FALSE, subject |-> CHOOSE x \in Subjects : TRUE,
                     term |-> CHOOSE t \in Terms : TRUE,
                     teacher |-> CHOOSE t \in Teachers : TRUE, roster |-> {}]]
    /\ transcript = [s \in Students |-> << >>]
    /\ graduation = [s \in Students |-> [status |-> "none", subjects |-> {}]]

--------------------------------------------------------------------------------
(* Plans. *)

\* a plan comes with its subjects, active or not; an active one deactivates the others
AddPlan(p, subjects, active) ==
    /\ ~plan[p].added
    /\ plan' = [q \in Plans |->
                  IF q = p THEN [added |-> TRUE, subjects |-> subjects, active |-> active]
                  ELSE [plan[q] EXCEPT !.active = @ /\ ~active]]
    /\ UNCHANGED <<section, transcript, graduation>>

AddSubject(p, x) ==
    /\ plan[p].added
    /\ plan' = [plan EXCEPT ![p].subjects = @ \cup {x}]
    /\ UNCHANGED <<section, transcript, graduation>>

\* fault: the plan that was active stays so
ActivateBeside(p) ==
    /\ plan[p].added
    /\ plan' = [plan EXCEPT ![p].active = TRUE]
    /\ UNCHANGED <<section, transcript, graduation>>

\* every plan is deactivated, then the chosen one activated, whatever its subjects
ActivatePlan(p) ==
    /\ plan[p].added
    /\ plan' = [q \in Plans |-> [plan[q] EXCEPT !.active = q = p]]
    /\ UNCHANGED <<section, transcript, graduation>>

\* the plan's own methods, which the program's invariant does not see
SetActive(p, active) ==
    /\ active => DirectPlans
    /\ plan[p].added
    /\ plan' = [plan EXCEPT ![p].active = active]
    /\ UNCHANGED <<section, transcript, graduation>>

--------------------------------------------------------------------------------
(* Sections and enrollment. *)

\* the factory: the teacher holds the role, and a credential for the subject
FormSection(c, x, term, t) ==
    /\ ~section[c].formed
    /\ t \in Roles
    /\ <<t, x>> \in Qualified
    /\ section' = [section EXCEPT ![c] = [formed |-> TRUE, subject |-> x, term |-> term,
                                          teacher |-> t, roster |-> {}]]
    /\ UNCHANGED <<plan, transcript, graduation>>

\* fault: a student may take a subject in two sections at once
EnrollTwice(s, c, p, term) ==
    /\ section[c].formed
    /\ s \in Roles
    /\ plan[p].added /\ section[c].subject \in plan[p].subjects
    /\ section[c].term = term
    /\ s \notin section[c].roster
    /\ section' = [section EXCEPT ![c].roster = @ \cup {s}]
    /\ UNCHANGED <<plan, transcript, graduation>>

\* the subjects a student already has a section for, as the caller finds them
TakenBy(s) == {section[c].subject : c \in {d \in Sections : s \in section[d].roster}}

Enroll(s, c, p, term) ==
    /\ section[c].formed
    /\ s \in Roles
    /\ plan[p].added /\ section[c].subject \in plan[p].subjects
    /\ section[c].term = term
    /\ section[c].subject \notin TakenBy(s)
    /\ s \notin section[c].roster
    /\ section' = [section EXCEPT ![c].roster = @ \cup {s}]
    /\ UNCHANGED <<plan, transcript, graduation>>

--------------------------------------------------------------------------------
(* Transcripts: attempts are only ever added, and standing is computed from them. *)

Attempts(h, x) == {h[i].grade : i \in {j \in DOMAIN h : h[j].subject = x}}

\* fault: the last attempt decides, not the best
PassedLast(h, x) ==
    \E i \in DOMAIN h : /\ h[i].subject = x /\ h[i].grade >= 6
                        /\ \A j \in (i + 1)..Len(h) : h[j].subject # x

\* the best grade of a subject is a pass
Passed(h, x) == \E g \in Attempts(h, x) : g >= 6

\* fault: anybody may be graded by the section's teacher
RecordStranger(s, c, t, g) ==
    /\ section[c].formed
    /\ t = section[c].teacher
    /\ Len(transcript[s]) < MaxAttempts
    /\ transcript' = [transcript EXCEPT ![s] =
         Append(@, [subject |-> section[c].subject, grade |-> g, source |-> c, detached |-> FALSE])]
    /\ UNCHANGED <<plan, section, graduation>>

\* the grading service: the section's own teacher, for a student enrolled in it
RecordGrade(s, c, t, g) ==
    /\ section[c].formed
    /\ t = section[c].teacher
    /\ s \in section[c].roster
    /\ Len(transcript[s]) < MaxAttempts
    /\ transcript' = [transcript EXCEPT ![s] =
         Append(@, [subject |-> section[c].subject, grade |-> g, source |-> c, detached |-> FALSE])]
    /\ UNCHANGED <<plan, section, graduation>>

\* fault: the attempts of a deleted section go with it
DropSection(s, c) ==
    /\ transcript' = [transcript EXCEPT ![s] = SelectSeq(@, LAMBDA a : a.source # c)]
    /\ UNCHANGED <<plan, section, graduation>>

\* a deleted section's attempts stay, and forget where they came from
DetachSection(s, c) ==
    /\ transcript' = [transcript EXCEPT ![s] =
         [i \in DOMAIN @ |-> IF @[i].source = c THEN [@[i] EXCEPT !.detached = TRUE] ELSE @[i]]]
    /\ UNCHANGED <<plan, section, graduation>>

--------------------------------------------------------------------------------
(* Graduation. *)

\* every subject of the plan is passed; an empty plan is an error, not a degree
Eligible(s, p) ==
    plan[p].subjects # {} /\ \A x \in plan[p].subjects : Passed(transcript[s], x)

\* fault: the record names the plan, where the subjects it was conferred on belong
ConferNamingPlan(s, p) ==
    /\ graduation[s].status = "none"
    /\ plan[p].added /\ Eligible(s, p)
    /\ graduation' = [graduation EXCEPT ![s] = [status |-> "active", subjects |-> {p}]]
    /\ UNCHANGED <<plan, section, transcript>>

\* a graduation is a new record each time; the first of each student is the one followed
Confer(s, p) ==
    /\ graduation[s].status = "none"
    /\ plan[p].added /\ Eligible(s, p)
    /\ graduation' = [graduation EXCEPT ![s] = [status |-> "active", subjects |-> plan[p].subjects]]
    /\ UNCHANGED <<plan, section, transcript>>

Revoke(s) ==
    /\ graduation[s].status = "active"
    /\ graduation' = [graduation EXCEPT ![s].status = "revoked"]
    /\ UNCHANGED <<plan, section, transcript>>

Reissue(s) ==
    /\ graduation[s].status = "revoked"
    /\ graduation' = [graduation EXCEPT ![s].status = "active"]
    /\ UNCHANGED <<plan, section, transcript>>

Next ==
    \/ \E p \in Plans :
         \/ \E subjects \in SUBSET Subjects, active \in BOOLEAN : AddPlan(p, subjects, active)
         \/ \E x \in Subjects : AddSubject(p, x)
         \/ ActivatePlan(p)
         \/ \E active \in BOOLEAN : SetActive(p, active)
    \/ \E c \in Sections, t \in Teachers :
         \/ \E x \in Subjects, term \in Terms : FormSection(c, x, term, t)
         \/ \E s \in Students, g \in Grades : RecordGrade(s, c, t, g)
    \/ \E s \in Students :
         \/ \E c \in Sections, p \in Plans, term \in Terms : Enroll(s, c, p, term)
         \/ \E c \in Sections : DetachSection(s, c)
         \/ \E p \in Plans : Confer(s, p)
         \/ Revoke(s) \/ Reissue(s)

Spec == Init /\ [][Next]_vars

--------------------------------------------------------------------------------
\* A program has at most one active plan.
OneActivePlan == \A p, q \in Plans : plan[p].active /\ plan[q].active => p = q

\* A student is on the roster of at most one section of a subject.
OneSectionPerSubject ==
    \A c, d \in Sections :
        section[c].subject = section[d].subject /\ section[c].roster \cap section[d].roster # {}
            => c = d

\* Every attempt was made in a section of its subject with the student on its roster,
\* and its teacher is qualified to have given it.
AttemptsWereTaught ==
    \A s \in Students : \A i \in DOMAIN transcript[s] :
        LET a == transcript[s][i] IN
        /\ s \in section[a.source].roster
        /\ section[a.source].subject = a.subject
        /\ <<section[a.source].teacher, a.subject>> \in Qualified

\* A degree once conferred stays earned: whatever is recorded, detached, activated or
\* reissued later, the student has passed every subject the plan had that day.
DegreesStayEarned ==
    \A s \in Students : graduation[s].status # "none" =>
        /\ graduation[s].subjects # {}
        /\ \A x \in graduation[s].subjects : Passed(transcript[s], x)

\* A section is formed with a teacher who is qualified for it, and has nobody before.
FormedWhole ==
    \A c \in Sections : IF section[c].formed
                       THEN <<section[c].teacher, section[c].subject>> \in Qualified
                       ELSE section[c].roster = {}

\* Every state reached: what the properties above need of one another, and the plans that
\* the program alone activates.
AcademicsInv ==
    /\ TypeOK
    /\ ~DirectPlans => OneActivePlan
    /\ FormedWhole
    /\ OneSectionPerSubject
    /\ AttemptsWereTaught
    /\ DegreesStayEarned

\* Standing never falls: no operation takes a pass or a better grade away.
StandingNeverFalls ==
    [][\A s \in Students, x \in Subjects :
          Attempts(transcript[s], x) \subseteq Attempts(transcript'[s], x)]_vars
================================================================================
