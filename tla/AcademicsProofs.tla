---------------------------- MODULE AcademicsProofs ----------------------------
(* AcademicsInv is inductive; what it gives for any plans, sections and grades. *)
EXTENDS Academics, TLAPS

--------------------------------------------------------------------------------
(* Transcripts. *)

\* Appending an attempt keeps the ones there are.
LEMMA AppendKeeps ==
    ASSUME NEW h \in Seq(Attempt), NEW a \in Attempt
    PROVE  /\ Append(h, a) \in Seq(Attempt)
           /\ \A x \in Subjects : Attempts(h, x) \subseteq Attempts(Append(h, a), x)
           /\ \A i \in DOMAIN Append(h, a) :
                \/ i \in DOMAIN h /\ Append(h, a)[i] = h[i]
                \/ Append(h, a)[i] = a
<1>1. Append(h, a) \in Seq(Attempt) /\ Len(Append(h, a)) = Len(h) + 1 /\ Len(h) \in Nat
  OBVIOUS
<1>2. DOMAIN h = 1..Len(h) /\ DOMAIN Append(h, a) = 1..Len(h) + 1
  BY <1>1
<1>3. \A i \in DOMAIN h : i \in DOMAIN Append(h, a) /\ Append(h, a)[i] = h[i]
  BY <1>1, <1>2
<1>4. Append(h, a)[Len(h) + 1] = a
  BY <1>1
<1>5. ASSUME NEW x \in Subjects, NEW g \in Attempts(h, x)
      PROVE  g \in Attempts(Append(h, a), x)
  <2>1. PICK i \in DOMAIN h : h[i].subject = x /\ g = h[i].grade
    BY <1>5 DEF Attempts
  <2> QED BY <2>1, <1>3 DEF Attempts
<1>6. ASSUME NEW i \in DOMAIN Append(h, a)
      PROVE  (i \in DOMAIN h /\ Append(h, a)[i] = h[i]) \/ Append(h, a)[i] = a
  BY <1>1, <1>2, <1>3, <1>4
<1> QED
  BY <1>1, <1>5, <1>6

\* a transcript whose attempts forgot the section c
Detached(h, c) ==
    [i \in DOMAIN h |-> IF h[i].source = c THEN [h[i] EXCEPT !.detached = TRUE] ELSE h[i]]

\* Forgetting where an attempt came from keeps its subject, its grade and its place.
LEMMA DetachKeeps ==
    ASSUME NEW h \in Seq(Attempt), NEW c
    PROVE  /\ Detached(h, c) \in Seq(Attempt)
           /\ \A x \in Subjects : Attempts(Detached(h, c), x) = Attempts(h, x)
           /\ DOMAIN Detached(h, c) = DOMAIN h
           /\ \A i \in DOMAIN h : /\ Detached(h, c)[i].subject = h[i].subject
                                  /\ Detached(h, c)[i].source = h[i].source
<1>1. DOMAIN h = 1..Len(h) /\ Len(h) \in Nat /\ DOMAIN Detached(h, c) = DOMAIN h
  BY DEF Detached
<1>2. ASSUME NEW i \in DOMAIN h
      PROVE  /\ Detached(h, c)[i] \in Attempt
             /\ Detached(h, c)[i].subject = h[i].subject
             /\ Detached(h, c)[i].grade = h[i].grade
             /\ Detached(h, c)[i].source = h[i].source
  <2>1. h[i] \in Attempt
    BY <1>1
  <2> QED BY <2>1 DEF Detached, Attempt
<1>3. Detached(h, c) \in [1..Len(h) -> Attempt]
  BY <1>1, <1>2 DEF Detached
<1>4. Detached(h, c) \in Seq(Attempt)
  BY <1>1, <1>3
<1>5. ASSUME NEW x \in Subjects
      PROVE  Attempts(Detached(h, c), x) = Attempts(h, x)
  BY <1>1, <1>2 DEF Attempts
<1> QED
  BY <1>1, <1>2, <1>4, <1>5

\* An attempt of a transcript is in a section of the model.
LEMMA SourcesAre ==
    ASSUME TypeOK, NEW s \in Students, NEW i \in DOMAIN transcript[s]
    PROVE  transcript[s][i].source \in Sections
<1>1. transcript[s] \in Seq(Attempt)
  BY DEF TypeOK
<1>2. transcript[s][i] \in Attempt
  BY <1>1
<1> QED
  BY <1>2 DEF Attempt

\* A pass stays a pass while the grades of its subject stay.
LEMMA PassesStay ==
    ASSUME NEW h, NEW k, NEW x, Attempts(h, x) \subseteq Attempts(k, x), Passed(h, x)
    PROVE  Passed(k, x)
  BY DEF Passed

--------------------------------------------------------------------------------
(* Plans. *)

PlanRow == [added : BOOLEAN, subjects : SUBSET Subjects, active : BOOLEAN]

LEMMA ActiveIsSet ==
    ASSUME NEW r \in PlanRow, NEW b \in BOOLEAN
    PROVE  [r EXCEPT !.active = b] \in PlanRow
<1>1. CASE b = TRUE
  <2>1. [r EXCEPT !.active = b] = [r EXCEPT !.active = TRUE]
    BY <1>1, Zenon
  <2>2. [r EXCEPT !.active = TRUE] \in PlanRow
    BY DEF PlanRow
  <2> QED BY <2>1, <2>2, Zenon
<1>2. CASE b = FALSE
  <2>1. [r EXCEPT !.active = b] = [r EXCEPT !.active = FALSE]
    BY <1>2, Zenon
  <2>2. [r EXCEPT !.active = FALSE] \in PlanRow
    BY DEF PlanRow
  <2> QED BY <2>1, <2>2, Zenon
<1> QED
  BY <1>1, <1>2

--------------------------------------------------------------------------------
(* The inductive invariant. *)

LEMMA AcademicsStart == Init => AcademicsInv
<1> SUFFICES ASSUME Init PROVE AcademicsInv
  OBVIOUS
<1>1. /\ (CHOOSE x \in Subjects : TRUE) \in Subjects
      /\ (CHOOSE t \in Terms : TRUE) \in Terms
      /\ (CHOOSE t \in Teachers : TRUE) \in Teachers
  BY AcademicsAssumption
<1>2. \A s \in Students : transcript[s] \in Seq(Attempt) /\ DOMAIN transcript[s] = {}
  BY DEF Init
<1>3. TypeOK
  <2>1. transcript \in [Students -> Seq(Attempt)]
    BY DEF Init
  <2> QED BY <1>1, <2>1 DEF Init, TypeOK
<1>4. OneActivePlan /\ FormedWhole /\ OneSectionPerSubject
  BY DEF Init, OneActivePlan, FormedWhole, OneSectionPerSubject
<1>5. AttemptsWereTaught
  BY <1>2 DEF AttemptsWereTaught
<1>6. DegreesStayEarned
  BY DEF Init, DegreesStayEarned
<1> QED
  BY <1>3, <1>4, <1>5, <1>6 DEF AcademicsInv

\* Plans: nothing else reads whether one is active, and no degree is a plan's.
LEMMA PlanSteps ==
    ASSUME AcademicsInv, NEW p \in Plans,
           \/ \E subjects \in SUBSET Subjects, active \in BOOLEAN : AddPlan(p, subjects, active)
           \/ \E x \in Subjects : AddSubject(p, x)
           \/ ActivatePlan(p)
           \/ \E active \in BOOLEAN : SetActive(p, active)
    PROVE  AcademicsInv'
<1> USE DEF AcademicsInv
<1>1. UNCHANGED <<section, transcript, graduation>>
  BY DEF AddPlan, AddSubject, ActivatePlan, SetActive
<1>2. /\ plan' \in [Plans -> [added : BOOLEAN, subjects : SUBSET Subjects, active : BOOLEAN]]
      /\ ~DirectPlans => OneActivePlan'
  <2>1. CASE \E subjects \in SUBSET Subjects, active \in BOOLEAN : AddPlan(p, subjects, active)
    <3>1. PICK subjects \in SUBSET Subjects, active \in BOOLEAN : AddPlan(p, subjects, active)
      BY <2>1
    <3>2. /\ plan'[p].active = active
          /\ \A q \in Plans \ {p} : plan'[q].active = (plan[q].active /\ ~active)
      BY <3>1 DEF AddPlan, TypeOK
    <3>3. plan' \in [Plans -> [added : BOOLEAN, subjects : SUBSET Subjects, active : BOOLEAN]]
      BY <3>1 DEF AddPlan, TypeOK
    <3> QED BY <3>2, <3>3 DEF OneActivePlan
  <2>2. CASE \E x \in Subjects : AddSubject(p, x)
    <3>1. PICK x \in Subjects : AddSubject(p, x)
      BY <2>2
    <3>2. \A q \in Plans : plan'[q].active = plan[q].active
      BY <3>1 DEF AddSubject, TypeOK
    <3>3. plan' \in [Plans -> [added : BOOLEAN, subjects : SUBSET Subjects, active : BOOLEAN]]
      BY <3>1 DEF AddSubject, TypeOK
    <3> QED BY <3>2, <3>3 DEF OneActivePlan
  <2>3. CASE ActivatePlan(p)
    <3>1. \A q \in Plans : plan'[q].active = (q = p)
      BY <2>3 DEF ActivatePlan, TypeOK
    <3>2. \A q \in Plans : plan'[q] = [plan[q] EXCEPT !.active = (q = p)]
      BY <2>3 DEF ActivatePlan
    <3>3. \A q \in Plans : plan[q] \in PlanRow
      BY DEF TypeOK, PlanRow
    <3>4. ASSUME NEW q \in Plans PROVE plan'[q] \in PlanRow
      <4>1. (q = p) \in BOOLEAN
        OBVIOUS
      <4>2. [plan[q] EXCEPT !.active = (q = p)] \in PlanRow
        BY <3>3, <4>1, ActiveIsSet, Zenon
      <4> QED BY <3>2, <4>2, Zenon
    <3>5. plan' = [q \in Plans |-> plan'[q]]
      BY <2>3, Zenon DEF ActivatePlan
    <3>6. plan' \in [Plans -> [added : BOOLEAN, subjects : SUBSET Subjects, active : BOOLEAN]]
      BY <3>4, <3>5 DEF PlanRow
    <3> QED BY <3>1, <3>6 DEF OneActivePlan
  <2>4. CASE \E active \in BOOLEAN : SetActive(p, active)
    <3>1. PICK active \in BOOLEAN : SetActive(p, active)
      BY <2>4
    <3>2. \A q \in Plans : q # p => plan'[q].active = plan[q].active
      BY <3>1 DEF SetActive, TypeOK
    <3>3. plan'[p].active = active /\ (active => DirectPlans)
      BY <3>1 DEF SetActive, TypeOK
    <3>4. plan' \in [Plans -> [added : BOOLEAN, subjects : SUBSET Subjects, active : BOOLEAN]]
      <4>1. plan[p] \in PlanRow /\ plan \in [Plans -> PlanRow]
        BY DEF TypeOK, PlanRow
      <4>2. [plan[p] EXCEPT !.active = active] \in PlanRow
        BY <4>1, ActiveIsSet, Zenon
      <4>3. plan' = [plan EXCEPT ![p] = [plan[p] EXCEPT !.active = active]]
        BY <3>1, Zenon DEF SetActive
      <4>4. \A r \in PlanRow : [plan EXCEPT ![p] = r] \in [Plans -> PlanRow]
        BY <4>1
      <4>5. plan' \in [Plans -> PlanRow]
        BY <4>2, <4>3, <4>4, Zenon
      <4> QED BY <4>5 DEF PlanRow
    <3> QED BY <3>2, <3>3, <3>4 DEF OneActivePlan
  <2> QED BY <2>1, <2>2, <2>3, <2>4
<1>3. TypeOK'
  BY <1>1, <1>2 DEF TypeOK
<1>4. FormedWhole' /\ OneSectionPerSubject' /\ AttemptsWereTaught' /\ DegreesStayEarned'
  BY <1>1 DEF FormedWhole, OneSectionPerSubject, AttemptsWereTaught, DegreesStayEarned
<1> QED
  BY <1>2, <1>3, <1>4

\* Sections: one is formed before anybody is enrolled or graded in it.
LEMMA FormStep ==
    ASSUME AcademicsInv, NEW c \in Sections, NEW t \in Teachers, NEW x \in Subjects,
           NEW term \in Terms, FormSection(c, x, term, t)
    PROVE  AcademicsInv'
<1> USE DEF AcademicsInv
<1>1. UNCHANGED <<plan, transcript, graduation>>
  BY DEF FormSection
<1>2. /\ section'[c].formed /\ section'[c].subject = x /\ section'[c].teacher = t
      /\ section'[c].roster = {}
      /\ \A d \in Sections \ {c} : section'[d] = section[d]
  BY DEF FormSection, TypeOK
<1>3. TypeOK'
  BY <1>1 DEF FormSection, TypeOK
<1>4. FormedWhole'
  BY <1>2 DEF FormSection, FormedWhole
<1>5. OneSectionPerSubject'
  BY <1>2 DEF OneSectionPerSubject
<1>6. section[c].roster = {}
  BY DEF FormSection, FormedWhole
<1>8. AttemptsWereTaught'
  <2> SUFFICES ASSUME NEW s \in Students, NEW i \in DOMAIN transcript[s]
               PROVE  /\ s \in section'[transcript[s][i].source].roster
                      /\ section'[transcript[s][i].source].subject = transcript[s][i].subject
                      /\ <<section'[transcript[s][i].source].teacher, transcript[s][i].subject>>
                           \in Qualified
    BY <1>1 DEF AttemptsWereTaught
  <2>1. transcript[s][i].source \in Sections
    BY SourcesAre
  <2>2. transcript[s][i].source # c
    BY <1>6 DEF AttemptsWereTaught
  <2> QED BY <2>1, <2>2, <1>2 DEF AttemptsWereTaught
<1>9. DegreesStayEarned'
  BY <1>1 DEF DegreesStayEarned
<1>10. (~DirectPlans => OneActivePlan)'
  BY <1>1 DEF OneActivePlan
<1> QED
  BY <1>3, <1>4, <1>5, <1>8, <1>9, <1>10

\* Enrollment: the student has no section of the subject yet.
LEMMA EnrollStep ==
    ASSUME AcademicsInv, NEW s \in Students, NEW c \in Sections, NEW p \in Plans,
           NEW term \in Terms, Enroll(s, c, p, term)
    PROVE  AcademicsInv'
<1> USE DEF AcademicsInv
<1>1. UNCHANGED <<plan, transcript, graduation>>
  BY DEF Enroll
<1>2. /\ \A d \in Sections : /\ section'[d].formed = section[d].formed
                             /\ section'[d].subject = section[d].subject
                             /\ section'[d].teacher = section[d].teacher
      /\ section'[c].roster = section[c].roster \cup {s}
      /\ \A d \in Sections \ {c} : section'[d].roster = section[d].roster
  BY DEF Enroll, TypeOK
<1>3. TypeOK'
  <2> DEFINE Formed == [formed : BOOLEAN, subject : Subjects, term : Terms,
                        teacher : Teachers, roster : SUBSET Students]
             more == [section[c] EXCEPT !.roster = @ \cup {s}]
  <2>1. section \in [Sections -> Formed]
    BY DEF TypeOK
  <2>2. more \in Formed
    BY <2>1
  <2>3. section' = [section EXCEPT ![c] = more]
    BY DEF Enroll
  <2> HIDE DEF Formed, more
  <2>4. section' \in [Sections -> Formed]
    BY <2>1, <2>2, <2>3
  <2> QED BY <1>1, <2>4 DEF TypeOK, Formed
<1>4. FormedWhole'
  BY <1>2 DEF Enroll, FormedWhole
<1>5. OneSectionPerSubject'
  <2>1. \A d \in Sections : s \in section[d].roster => section[d].subject # section[c].subject
    BY DEF Enroll, TakenBy
  <2> SUFFICES ASSUME NEW d \in Sections, NEW e \in Sections, NEW q,
                      section[d].subject = section[e].subject,
                      q \in section'[d].roster, q \in section'[e].roster
               PROVE  d = e
    BY <1>2 DEF OneSectionPerSubject
  <2>2. CASE q \in section[d].roster /\ q \in section[e].roster
    BY <2>2 DEF OneSectionPerSubject
  <2>3. CASE q \notin section[d].roster
    BY <1>2, <2>1, <2>3
  <2>4. CASE q \notin section[e].roster
    BY <1>2, <2>1, <2>4
  <2> QED BY <2>2, <2>3, <2>4
<1>6. AttemptsWereTaught'
  <2> SUFFICES ASSUME NEW q \in Students, NEW i \in DOMAIN transcript[q]
               PROVE  /\ q \in section'[transcript[q][i].source].roster
                      /\ section'[transcript[q][i].source].subject = transcript[q][i].subject
                      /\ <<section'[transcript[q][i].source].teacher, transcript[q][i].subject>>
                           \in Qualified
    BY <1>1 DEF AttemptsWereTaught
  <2>1. transcript[q][i].source \in Sections
    BY SourcesAre
  <2> QED BY <2>1, <1>2 DEF AttemptsWereTaught
<1>7. DegreesStayEarned'
  BY <1>1 DEF DegreesStayEarned
<1>8. (~DirectPlans => OneActivePlan)'
  BY <1>1 DEF OneActivePlan
<1> QED
  BY <1>3, <1>4, <1>5, <1>6, <1>7, <1>8

\* A transcript that keeps its attempts keeps the degrees conferred on it.
LEMMA DegreesKept ==
    ASSUME AcademicsInv, UNCHANGED graduation,
           \A s \in Students, x \in Subjects :
              Attempts(transcript[s], x) \subseteq Attempts(transcript'[s], x)
    PROVE  DegreesStayEarned'
<1> SUFFICES ASSUME NEW s \in Students, graduation[s].status # "none"
             PROVE  /\ graduation[s].subjects # {}
                    /\ \A x \in graduation[s].subjects : Passed(transcript'[s], x)
  BY DEF DegreesStayEarned
<1>1. /\ graduation[s].subjects # {} /\ graduation[s].subjects \subseteq Subjects
      /\ \A x \in graduation[s].subjects : Passed(transcript[s], x)
  BY DEF AcademicsInv, DegreesStayEarned, TypeOK
<1> QED
  BY <1>1, PassesStay

\* Grading: the section's own teacher, for a student on its roster.
LEMMA RecordStep ==
    ASSUME AcademicsInv, NEW s \in Students, NEW c \in Sections, NEW t \in Teachers,
           NEW g \in Grades, RecordGrade(s, c, t, g)
    PROVE  /\ AcademicsInv'
           /\ \A q \in Students, x \in Subjects :
                 Attempts(transcript[q], x) \subseteq Attempts(transcript'[q], x)
<1> USE DEF AcademicsInv
<1> DEFINE a == [subject |-> section[c].subject, grade |-> g, source |-> c, detached |-> FALSE]
<1>1. UNCHANGED <<plan, section, graduation>>
  BY DEF RecordGrade
<1>2. /\ a \in Attempt /\ a.subject = section[c].subject /\ a.source = c
      /\ transcript[s] \in Seq(Attempt)
  BY DEF TypeOK, Attempt
<1>3. /\ transcript'[s] = Append(transcript[s], a)
      /\ \A q \in Students \ {s} : transcript'[q] = transcript[q]
      /\ transcript' = [transcript EXCEPT ![s] = Append(transcript[s], a)]
  BY DEF RecordGrade, TypeOK
<1>4. /\ s \in section[c].roster
      /\ <<section[c].teacher, section[c].subject>> \in Qualified
  BY DEF RecordGrade, FormedWhole
<1> HIDE DEF a
<1>5. /\ transcript'[s] \in Seq(Attempt)
      /\ \A x \in Subjects : Attempts(transcript[s], x) \subseteq Attempts(transcript'[s], x)
      /\ \A i \in DOMAIN transcript'[s] :
           \/ i \in DOMAIN transcript[s] /\ transcript'[s][i] = transcript[s][i]
           \/ transcript'[s][i] = a
  BY <1>2, <1>3, AppendKeeps
<1>6. \A q \in Students, x \in Subjects :
         Attempts(transcript[q], x) \subseteq Attempts(transcript'[q], x)
  BY <1>3, <1>5
<1>7. TypeOK'
  <2>1. transcript' \in [Students -> Seq(Attempt)]
    BY <1>3, <1>5 DEF TypeOK
  <2> QED BY <1>1, <2>1 DEF TypeOK
<1>8. AttemptsWereTaught'
  <2> SUFFICES ASSUME NEW q \in Students, NEW i \in DOMAIN transcript'[q]
               PROVE  /\ q \in section[transcript'[q][i].source].roster
                      /\ section[transcript'[q][i].source].subject = transcript'[q][i].subject
                      /\ <<section[transcript'[q][i].source].teacher, transcript'[q][i].subject>>
                           \in Qualified
    BY <1>1 DEF AttemptsWereTaught
  <2>1. CASE i \in DOMAIN transcript[q] /\ transcript'[q][i] = transcript[q][i]
    BY <2>1 DEF AttemptsWereTaught
  <2>2. CASE q = s /\ transcript'[q][i] = a
    BY <2>2, <1>2, <1>4
  <2> QED BY <2>1, <2>2, <1>3, <1>5
<1>9. DegreesStayEarned'
  BY <1>1, <1>6, DegreesKept
<1>10. FormedWhole' /\ OneSectionPerSubject' /\ (~DirectPlans => OneActivePlan)'
  BY <1>1 DEF FormedWhole, OneSectionPerSubject, OneActivePlan
<1> QED
  BY <1>6, <1>7, <1>8, <1>9, <1>10

\* A section that is deleted takes no attempt away.
LEMMA DetachStep ==
    ASSUME AcademicsInv, NEW s \in Students, NEW c \in Sections, DetachSection(s, c)
    PROVE  /\ AcademicsInv'
           /\ \A q \in Students, x \in Subjects :
                 Attempts(transcript[q], x) \subseteq Attempts(transcript'[q], x)
<1> USE DEF AcademicsInv
<1>1. UNCHANGED <<plan, section, graduation>> /\ transcript[s] \in Seq(Attempt)
  BY DEF DetachSection, TypeOK
<1>2. /\ transcript'[s] = Detached(transcript[s], c)
      /\ \A q \in Students \ {s} : transcript'[q] = transcript[q]
      /\ transcript' = [transcript EXCEPT ![s] = Detached(transcript[s], c)]
  BY DEF DetachSection, Detached, TypeOK
<1>3. /\ transcript'[s] \in Seq(Attempt)
      /\ \A x \in Subjects : Attempts(transcript'[s], x) = Attempts(transcript[s], x)
      /\ DOMAIN transcript'[s] = DOMAIN transcript[s]
      /\ \A i \in DOMAIN transcript[s] :
            /\ transcript'[s][i].subject = transcript[s][i].subject
            /\ transcript'[s][i].source = transcript[s][i].source
  BY <1>1, <1>2, DetachKeeps
<1>4. \A q \in Students, x \in Subjects :
         Attempts(transcript[q], x) \subseteq Attempts(transcript'[q], x)
  BY <1>2, <1>3
<1>5. TypeOK'
  <2>1. transcript' \in [Students -> Seq(Attempt)]
    BY <1>2, <1>3 DEF TypeOK
  <2> QED BY <1>1, <2>1 DEF TypeOK
<1>6. AttemptsWereTaught'
  <2> SUFFICES ASSUME NEW q \in Students, NEW i \in DOMAIN transcript'[q]
               PROVE  /\ q \in section[transcript'[q][i].source].roster
                      /\ section[transcript'[q][i].source].subject = transcript'[q][i].subject
                      /\ <<section[transcript'[q][i].source].teacher, transcript'[q][i].subject>>
                           \in Qualified
    BY <1>1 DEF AttemptsWereTaught
  <2>1. /\ i \in DOMAIN transcript[q]
        /\ transcript'[q][i].subject = transcript[q][i].subject
        /\ transcript'[q][i].source = transcript[q][i].source
    BY <1>2, <1>3
  <2> QED BY <2>1 DEF AttemptsWereTaught
<1>7. DegreesStayEarned'
  BY <1>1, <1>4, DegreesKept
<1>8. FormedWhole' /\ OneSectionPerSubject' /\ (~DirectPlans => OneActivePlan)'
  BY <1>1 DEF FormedWhole, OneSectionPerSubject, OneActivePlan
<1> QED
  BY <1>4, <1>5, <1>6, <1>7, <1>8

\* Graduation: conferred on what is passed, and afterwards only its status changes.
LEMMA GraduationSteps ==
    ASSUME AcademicsInv, NEW s \in Students,
           (\E p \in Plans : Confer(s, p)) \/ Revoke(s) \/ Reissue(s)
    PROVE  AcademicsInv'
<1> USE DEF AcademicsInv
<1>1. UNCHANGED <<plan, section, transcript>>
  BY DEF Confer, Revoke, Reissue
<1>2. TypeOK' /\ DegreesStayEarned'
  <2>1. CASE \E p \in Plans : Confer(s, p)
    <3>1. PICK p \in Plans : Confer(s, p)
      BY <2>1
    <3>2. /\ plan[p].subjects \in SUBSET Subjects /\ plan[p].subjects # {}
          /\ \A x \in plan[p].subjects : Passed(transcript[s], x)
          /\ graduation' = [graduation EXCEPT ![s] = [status |-> "active",
                                                      subjects |-> plan[p].subjects]]
      BY <3>1 DEF Confer, Eligible, TypeOK
    <3>3. TypeOK'
      BY <1>1, <3>2 DEF TypeOK
    <3>4. DegreesStayEarned'
      BY <1>1, <3>2 DEF DegreesStayEarned, TypeOK
    <3> QED BY <3>3, <3>4
  <2>2. CASE Revoke(s) \/ Reissue(s)
    <3>1. /\ graduation[s].status # "none"
          /\ \A q \in Students : /\ graduation'[q].subjects = graduation[q].subjects
                                 /\ q # s => graduation'[q].status = graduation[q].status
      BY <2>2 DEF Revoke, Reissue, TypeOK
    <3>2. TypeOK'
      <4>1. CASE Revoke(s)
        BY <1>1, <4>1 DEF Revoke, TypeOK
      <4>2. CASE Reissue(s)
        BY <1>1, <4>2 DEF Reissue, TypeOK
      <4> QED BY <2>2, <4>1, <4>2
    <3>3. DegreesStayEarned'
      BY <1>1, <3>1 DEF DegreesStayEarned
    <3> QED BY <3>2, <3>3
  <2> QED BY <2>1, <2>2
<1>3. /\ FormedWhole' /\ OneSectionPerSubject' /\ AttemptsWereTaught'
      /\ (~DirectPlans => OneActivePlan)'
  BY <1>1 DEF FormedWhole, OneSectionPerSubject, AttemptsWereTaught, OneActivePlan
<1> QED
  BY <1>2, <1>3

LEMMA AcademicsStep == AcademicsInv /\ [Next]_vars => AcademicsInv'
<1> SUFFICES ASSUME AcademicsInv, [Next]_vars PROVE AcademicsInv'
  OBVIOUS
<1>1. CASE UNCHANGED vars
  BY <1>1 DEF vars, AcademicsInv, TypeOK, OneActivePlan, FormedWhole, OneSectionPerSubject,
              AttemptsWereTaught, DegreesStayEarned
<1>2. CASE Next
  BY <1>2, PlanSteps, FormStep, EnrollStep, RecordStep, DetachStep, GraduationSteps DEF Next
<1> QED
  BY <1>1, <1>2

LEMMA StandingStep ==
    ASSUME AcademicsInv, [Next]_vars
    PROVE  [\A s \in Students, x \in Subjects :
              Attempts(transcript[s], x) \subseteq Attempts(transcript'[s], x)]_vars
<1>1. CASE UNCHANGED transcript
  BY <1>1
<1>2. CASE \E s \in Students, c \in Sections, t \in Teachers, g \in Grades : RecordGrade(s, c, t, g)
  BY <1>2, RecordStep
<1>3. CASE \E s \in Students, c \in Sections : DetachSection(s, c)
  BY <1>3, DetachStep
<1> QED
  BY <1>1, <1>2, <1>3 DEF Next, vars, AddPlan, AddSubject, ActivatePlan, SetActive, FormSection,
                          Enroll, Confer, Revoke, Reissue

--------------------------------------------------------------------------------
(* What holds of every behaviour. *)

\* AcademicsInv holds in every state, for any plans, sections, people and grades.
THEOREM AcademicsInvariant == Spec => []AcademicsInv
  BY AcademicsStart, AcademicsStep, PTL DEF Spec

\* A program whose plans are activated through it has one active plan at most.
THEOREM OneActivePlanOnly ==
    ASSUME DirectPlans = FALSE
    PROVE  Spec => []OneActivePlan
<1>1. AcademicsInv => OneActivePlan
  BY DEF AcademicsInv
<1> QED
  BY <1>1, AcademicsInvariant, PTL

\* A student takes a subject in one section at most.
THEOREM SubjectsAreTakenOnce == Spec => []OneSectionPerSubject
<1>1. AcademicsInv => OneSectionPerSubject
  BY DEF AcademicsInv
<1> QED
  BY <1>1, AcademicsInvariant, PTL

\* Every grade on a transcript was given in a section the student is enrolled in, of the
\* subject it counts for, taught by somebody qualified for it.
THEOREM GradesWereTaught == Spec => []AttemptsWereTaught
<1>1. AcademicsInv => AttemptsWereTaught
  BY DEF AcademicsInv
<1> QED
  BY <1>1, AcademicsInvariant, PTL

\* A degree stays earned, whatever happens to its plan and to the sections it was earned in.
THEOREM DegreesAreEarned == Spec => []DegreesStayEarned
<1>1. AcademicsInv => DegreesStayEarned
  BY DEF AcademicsInv
<1> QED
  BY <1>1, AcademicsInvariant, PTL

\* No step takes a grade away from anybody's standing in a subject.
THEOREM StandingIsKept == Spec => StandingNeverFalls
<1>1. AcademicsInv /\ [Next]_vars
        => [\A s \in Students, x \in Subjects :
              Attempts(transcript[s], x) \subseteq Attempts(transcript'[s], x)]_vars
  BY StandingStep
<1> QED
  BY <1>1, AcademicsInvariant, PTL DEF Spec, StandingNeverFalls
================================================================================
