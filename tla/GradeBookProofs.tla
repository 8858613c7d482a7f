---------------------------- MODULE GradeBookProofs ----------------------------
(* BookInv is inductive; what it gives for any students, works and sheets.      *)
EXTENDS GradeBook, TLAPS

\* A work's rows are a sheet, and a call's sheet is one row.
LEMMA RowsAre ==
    ASSUME NEW w \in Works, NEW f \in [Works -> Files], Files \subseteq File
    PROVE  /\ f[w].rows \in Seq(Row) /\ Len(f[w].rows) \in 1..MaxRows
           /\ f[w].call => Len(f[w].rows) = 1 /\ ~f[w].dryRun
           /\ f[w].call \in BOOLEAN /\ f[w].dryRun \in BOOLEAN
           /\ \A i \in 1..Len(f[w].rows) : f[w].rows[i] \in Row
  BY GradeAssumption DEF File

\* What a work that is not at the end of its sheet is at.
LEMMA RowAt ==
    ASSUME BookInv, NEW w \in Works
    PROVE  /\ Rows(w) \in Seq(Row) /\ Len(Rows(w)) \in 1..MaxRows
           /\ file[w].call => Len(Rows(w)) = 1
           /\ line[w] \in 1..(Len(Rows(w)) + 1)
           /\ Left(w) => /\ line[w] \in DOMAIN Rows(w) /\ line[w] \in 1..MaxRows
                         /\ This(w) \in Row /\ Student(w) \in Students
           /\ \A i \in DOMAIN Rows(w) : Rows(w)[i] \in Row /\ Rows(w)[i].student \in Students
           /\ reported[w] \subseteq DOMAIN Rows(w)
<1>1. /\ Rows(w) \in Seq(Row) /\ Len(Rows(w)) \in 1..MaxRows
      /\ file[w].call => Len(Rows(w)) = 1
      /\ \A i \in 1..Len(Rows(w)) : Rows(w)[i] \in Row
  BY RowsAre, GradeAssumption DEF BookInv, TypeOK, Rows
<1>2. line[w] \in Nat /\ line[w] >= 1 /\ line[w] <= Len(Rows(w)) + 1
  <2>1. line[w] \in 1..(MaxRows + 1) /\ line[w] <= Len(Rows(w)) + 1
    BY DEF BookInv, TypeOK, AtRow
  <2> QED BY <1>1, <2>1, GradeAssumption
<1>3. DOMAIN Rows(w) = 1..Len(Rows(w)) /\ Len(Rows(w)) \in Nat /\ MaxRows \in Nat
  BY <1>1, GradeAssumption
<1>4. \A i \in DOMAIN Rows(w) : Rows(w)[i] \in Row /\ Rows(w)[i].student \in Students
  BY <1>1, <1>3 DEF Row
<1>5. reported[w] \subseteq 1..(line[w] - 1)
  BY DEF BookInv, AtRow
<1> QED
  BY <1>1, <1>2, <1>3, <1>4, <1>5 DEF Left, This, Student

LEMMA BookStart == Init => BookInv
<1> SUFFICES ASSUME Init PROVE BookInv
  OBVIOUS
<1>1. TypeOK
  BY GradeAssumption DEF Init, TypeOK
<1>2. \A w \in Works : Len(Rows(w)) \in 1..MaxRows
  BY RowsAre, GradeAssumption DEF Init, Rows
<1>3. \A w \in Works : AtRow(w) /\ Written(w) /\ Copies(w)
  BY <1>2, GradeAssumption DEF Init, AtRow, Written, Copies
<1>4. OneWriter /\ NothingOfTheAborted /\ LossNeedsOverlap /\ OnlyBadCallsRefused
      /\ \A s \in Students : \A a \in history[s].attempts : Genuine(a, s)
  BY DEF Init, OneWriter, NothingOfTheAborted, LossNeedsOverlap, OnlyBadCallsRefused
<1> QED
  BY <1>1, <1>3, <1>4 DEF BookInv

--------------------------------------------------------------------------------
(* The steps of a work that commit nothing: whoever was committed still is, and  *)
(* what is committed stays as it was.                                            *)

\* A work that was not committed is over, and not committed either.
LEMMA EndStep ==
    ASSUME BookInv, NEW w \in Works, NEW how \in Ends \ {"committed"}, End(w, how),
           pc[w] \in {"open", "absent", "loaded"},
           how = "refused" => This(w).flaw # "none" \/ Student(w) \notin Enrolled,
           UNCHANGED <<history, reported, risked>>
    PROVE  BookInv'
<1>1. /\ TypeOK
      /\ \A v \in Works : AtRow(v) /\ Written(v) /\ Copies(v)
  BY DEF BookInv
<1>2. /\ pc'[w] = how /\ locked'[w] = {} /\ \A s \in Students : copy'[w][s] = {}
      /\ \A v \in Works \ {w} : pc'[v] = pc[v] /\ locked'[v] = locked[v] /\ copy'[v] = copy[v]
      /\ UNCHANGED <<file, line, history, reported, risked>>
  BY <1>1 DEF End, TypeOK
<1>3. TypeOK'
  BY <1>1, <1>2 DEF TypeOK, End
<1>4. \A v \in Works : pc'[v] = "committed" <=> pc[v] = "committed"
  BY <1>2
<1>5. \A v \in Works : Rows(v)' = Rows(v) /\ This(v)' = This(v) /\ Student(v)' = Student(v)
                       /\ Left(v)' = Left(v) /\ Unusable(v)' = Unusable(v)
  BY <1>2 DEF Rows, This, Student, Left, Unusable, Seen
<1>6. \A v \in Works : AtRow(v)'
  <2>1. ASSUME NEW v \in Works PROVE AtRow(v)'
    <3>1. AtRow(v)
      BY <1>1
    <3>2. pc'[v] \in {"ready", "absent", "loaded"} => v # w
      BY <1>2 DEF Ends
    <3> QED
      BY <1>2, <1>5, <3>1, <3>2 DEF AtRow
  <2> QED BY <2>1
<1>7. \A v \in Works : Written(v)'
  <2>1. ASSUME NEW v \in Works PROVE Written(v)'
    <3>1. Written(v)
      BY <1>1
    <3>2. ~Live(w)'
      BY <1>2 DEF Live, Ends
    <3>3. v # w => (Live(v)' <=> Live(v))
      BY <1>2 DEF Live
    <3> QED
      BY <1>2, <1>5, <3>1, <3>2, <3>3 DEF Written
  <2> QED BY <2>1
<1>8. \A v \in Works : Copies(v)'
  <2>1. ASSUME NEW v \in Works PROVE Copies(v)'
    <3>1. CASE v = w
      BY <1>2, <1>5, <3>1 DEF Copies, Ends
    <3>2. CASE v # w
      <4>1. Copies(v)
        BY <1>1
      <4>2. \A s \in Students : \A a \in copy[v][s] : a.work \in Works
        BY <1>1 DEF TypeOK, Attempt
      <4> QED
        BY <1>2, <1>4, <1>5, <3>2, <4>1, <4>2 DEF Copies, Genuine
    <3> QED BY <3>1, <3>2
  <2> QED BY <2>1
<1>9. OneWriter'
  BY <1>2 DEF BookInv, OneWriter
<1>10. \A s \in Students : \A a \in history'[s].attempts : Genuine(a, s)'
  <2>1. \A s \in Students : \A a \in history[s].attempts : Genuine(a, s) /\ a.work \in Works
    BY <1>1 DEF BookInv, TypeOK, Attempt
  <2> QED
    BY <1>2, <1>5, <2>1 DEF Genuine
<1>11. NothingOfTheAborted'
  <2>1. \A s \in Students : \A a \in history[s].attempts : a.work \in Works
    BY <1>1 DEF TypeOK, Attempt
  <2> QED
    BY <1>2, <1>4, <1>5, <2>1 DEF BookInv, NothingOfTheAborted
<1>12. LossNeedsOverlap'
  BY <1>2, <1>4, <1>5 DEF BookInv, LossNeedsOverlap
<1>13. OnlyBadCallsRefused'
  BY <1>2, <1>5 DEF BookInv, OnlyBadCallsRefused
<1> QED
  BY <1>3, <1>6, <1>7, <1>8, <1>9, <1>10, <1>11, <1>12, <1>13 DEF BookInv

\* A work goes on to another place or another row, or is refused at once, and writes nothing.
LEMMA GoOnStep ==
    ASSUME BookInv, NEW w \in Works,
           NEW to \in {"open", "absent", "loaded", "refused"},
           NEW n \in {line[w], line[w] + 1}, n # line[w] => Left(w),
           pc[w] \in {"ready", "open", "loaded"},
           pc' = [pc EXCEPT ![w] = to],
           line' = [line EXCEPT ![w] = n],
           UNCHANGED <<history, file, locked, reported, risked>>,
           to \in {"absent", "loaded"} => pc[w] = "open" /\ n = line[w] /\ Left(w) /\ ~Unusable(w),
           to = "refused" => This(w).flaw # "none" /\ n = line[w],
           to = "absent" => Student(w) \notin locked[w],
           IF to \in {"absent", "loaded"} /\ Student(w) \notin locked[w]
              THEN copy' = [copy EXCEPT ![w][Student(w)] = history[Student(w)].attempts]
              ELSE copy' = copy
    PROVE  BookInv'
<1>1. /\ TypeOK
      /\ \A v \in Works : AtRow(v) /\ Written(v) /\ Copies(v)
      /\ \A s \in Students : \A a \in history[s].attempts : Genuine(a, s) /\ a.work \in Works
                                                          /\ pc[a.work] = "committed"
  BY DEF BookInv, TypeOK, Attempt, NothingOfTheAborted
<1>2. /\ pc'[w] = to /\ line'[w] = n
      /\ \A v \in Works \ {w} : pc'[v] = pc[v] /\ line'[v] = line[v] /\ copy'[v] = copy[v]
  BY <1>1 DEF TypeOK
<1>3. \A s \in Students : \/ copy'[w][s] = copy[w][s]
                         \/ /\ to \in {"absent", "loaded"} /\ s = Student(w) /\ s \notin locked[w]
                            /\ copy'[w][s] = history[s].attempts
  BY <1>1 DEF TypeOK
<1>4. /\ \A v \in Works : pc'[v] = "committed" <=> pc[v] = "committed"
      /\ \A v \in Works : Live(v)' => Live(v)
      /\ pc[w] # "committed"
  BY <1>2 DEF Live
<1>5. /\ \A v \in Works : Rows(v)' = Rows(v) /\ Seen(v)' = Seen(v)
      /\ \A v \in Works : line'[v] = line[v] =>
           This(v)' = This(v) /\ Student(v)' = Student(v) /\ Left(v)' = Left(v)
             /\ Unusable(v)' = Unusable(v)
  BY DEF Rows, This, Student, Left, Unusable, Seen
<1>6. line[w] \in 1..(Len(Rows(w)) + 1) /\ Len(Rows(w)) \in 1..MaxRows
      /\ (Left(w) => Student(w) \in Students)
  BY RowAt
<1>7. n \in 1..(MaxRows + 1) /\ n <= Len(Rows(w)) + 1 /\ n >= line[w]
  BY <1>6, GradeAssumption DEF Left
<1>8. TypeOK'
  <2>1. copy' \in [Works -> [Students -> SUBSET Attempt]]
    <3>1. CASE copy' = copy
      BY <1>1, <3>1 DEF TypeOK
    <3>2. CASE copy' = [copy EXCEPT ![w][Student(w)] = history[Student(w)].attempts] /\ Left(w)
      <4>1. history[Student(w)].attempts \in SUBSET Attempt
        BY <1>1, <1>6, <3>2 DEF TypeOK
      <4> QED
        BY <1>1, <3>2, <4>1 DEF TypeOK
    <3> QED BY <3>1, <3>2
  <2> QED
    BY <1>1, <1>7, <2>1 DEF TypeOK, Ends
<1>9. \A v \in Works : AtRow(v)'
  <2>1. ASSUME NEW v \in Works, v # w PROVE AtRow(v)'
    BY <1>1, <1>2, <1>5, <2>1 DEF AtRow
  <2>2. AtRow(w)'
    <3>1. reported[w] \subseteq 1..(n - 1)
      BY <1>1, <1>6, <1>7 DEF AtRow
    <3> QED
      BY <1>1, <1>2, <1>5, <1>7, <3>1 DEF AtRow
  <2> QED BY <2>1, <2>2
<1>10. \A v \in Works : Written(v)'
  <2>1. ASSUME NEW v \in Works, v # w PROVE Written(v)'
    BY <1>1, <1>2, <1>4, <1>5, <2>1 DEF Written
  <2>2. Written(w)'
    <3>1. \A s \in locked[w] : copy'[w][s] = copy[w][s]
      BY <1>1, <1>3 DEF TypeOK
    <3> QED
      BY <1>1, <1>4, <1>5, <3>1 DEF Written
  <2> QED BY <2>1, <2>2
<1>11. \A v \in Works : Copies(v)'
  <2>0. \A v \in Works, s \in Students : \A a \in copy[v][s] : a.work \in Works
    BY <1>1 DEF TypeOK, Attempt
  <2>1. ASSUME NEW v \in Works, v # w PROVE Copies(v)'
    BY <1>1, <1>2, <1>4, <1>5, <2>0, <2>1 DEF Copies, Genuine
  <2>2. Copies(w)'
    <3>1. ASSUME NEW s \in Students, copy'[w][s] = copy[w][s]
          PROVE  \A a \in copy'[w][s] : Genuine(a, s)' /\ (a.work = w \/ pc'[a.work] = "committed")
      BY <1>1, <1>4, <1>5, <2>0, <3>1 DEF Copies, Genuine
    <3>2. ASSUME NEW s \in Students, copy'[w][s] = history[s].attempts
          PROVE  \A a \in copy'[w][s] : Genuine(a, s)' /\ (a.work = w \/ pc'[a.work] = "committed")
      BY <1>1, <1>4, <1>5, <3>2 DEF Genuine
    <3>3. ASSUME NEW s \in Students, s \in locked[w] \/ (to = "loaded" /\ s = Student(w)')
          PROVE  history[s].attempts \ risked \subseteq copy'[w][s]
      <4>1. to = "loaded" => Student(w)' = Student(w)
        BY <1>2, <1>5
      <4> QED
        <5>1. CASE s \in locked[w]
          BY <1>1, <1>3, <5>1 DEF Copies
        <5>2. CASE to = "loaded" /\ s = Student(w) /\ s \notin locked[w]
          <6>1. copy' = [copy EXCEPT ![w][s] = history[s].attempts]
            BY <5>2
          <6> QED
            BY <1>1, <6>1 DEF TypeOK
        <5> QED BY <3>3, <4>1, <5>1, <5>2
    <3> QED
      BY <1>2, <1>3, <3>1, <3>2, <3>3 DEF Copies
  <2> QED BY <2>1, <2>2
<1>12. OneWriter'
  BY DEF BookInv, OneWriter
<1>13. \A s \in Students : \A a \in history'[s].attempts : Genuine(a, s)'
  BY <1>1, <1>5 DEF Genuine
<1>14. NothingOfTheAborted'
  BY <1>1, <1>4, <1>5 DEF BookInv, NothingOfTheAborted
<1>15. LossNeedsOverlap'
  BY <1>4, <1>5 DEF BookInv, LossNeedsOverlap
<1>16. OnlyBadCallsRefused'
  BY <1>2, <1>5 DEF BookInv, OnlyBadCallsRefused
<1> QED
  BY <1>8, <1>9, <1>10, <1>11, <1>12, <1>13, <1>14, <1>15, <1>16 DEF BookInv

\* An insert locks a transcript nobody has, or finds the one somebody committed.
LEMMA InsertStep ==
    ASSUME BookInv, NEW w \in Works, Insert(w)
    PROVE  BookInv'
<1> DEFINE s0 == Student(w)
<1>1. /\ TypeOK
      /\ \A v \in Works : AtRow(v) /\ Written(v) /\ Copies(v)
      /\ \A s \in Students : \A a \in history[s].attempts : Genuine(a, s) /\ a.work \in Works
                                                          /\ pc[a.work] = "committed"
  BY DEF BookInv, TypeOK, Attempt, NothingOfTheAborted
<1>2. /\ pc[w] = "absent" /\ WaitsFor(w) = {}
      /\ UNCHANGED <<history, file, line, reported, risked>>
      /\ Left(w) /\ ~Unusable(w) /\ s0 \in Students /\ s0 \notin locked[w]
      /\ line[w] \in DOMAIN Rows(w) /\ This(w) = [student |-> s0, flaw |-> "none"]
  <2>1. This(w) \in Row /\ Left(w) /\ ~Unusable(w) /\ pc[w] = "absent"
    BY <1>1, RowAt DEF Insert, AtRow
  <2> QED
    BY <1>1, <2>1, RowAt DEF Insert, AtRow, Unusable, Row, Student
<1>3. /\ pc'[w] = "loaded" /\ \A v \in Works \ {w} : pc'[v] = pc[v]
      /\ copy'[w][s0] = history[s0].attempts /\ \A s \in Students \ {s0} : copy'[w][s] = copy[w][s]
      /\ \A v \in Works \ {w} : copy'[v] = copy[v] /\ locked'[v] = locked[v]
      /\ locked[w] \subseteq locked'[w] /\ locked'[w] \subseteq locked[w] \cup {s0}
  BY <1>1, <1>2 DEF Insert, TypeOK
<1>4. /\ \A v \in Works : pc'[v] = "committed" <=> pc[v] = "committed"
      /\ \A v \in Works : Live(v)' <=> Live(v)
  BY <1>2, <1>3 DEF Live
<1>5. \A v \in Works : /\ Rows(v)' = Rows(v) /\ Seen(v)' = Seen(v) /\ This(v)' = This(v)
                       /\ Student(v)' = Student(v) /\ Left(v)' = Left(v) /\ Unusable(v)' = Unusable(v)
  BY <1>2 DEF Rows, This, Student, Left, Unusable, Seen
<1>6. TypeOK'
  <2>1. history[s0].attempts \in SUBSET Attempt
    BY <1>1, <1>2 DEF TypeOK
  <2>2. copy' \in [Works -> [Students -> SUBSET Attempt]]
    BY <1>1, <1>2, <2>1 DEF TypeOK, Insert
  <2>3. locked' \in [Works -> SUBSET Students]
    BY <1>1, <1>2 DEF TypeOK, Insert
  <2>4. pc' \in [Works -> {"ready", "open", "absent", "loaded"} \cup Ends]
    BY <1>1 DEF TypeOK, Insert
  <2> QED
    BY <1>1, <1>2, <2>2, <2>3, <2>4 DEF TypeOK
<1>7. \A v \in Works : AtRow(v)'
  <2>1. ASSUME NEW v \in Works, v # w PROVE AtRow(v)'
    BY <1>1, <1>2, <1>3, <1>5, <2>1 DEF AtRow
  <2>2. AtRow(w)'
    BY <1>1, <1>2, <1>3, <1>5 DEF AtRow
  <2> QED BY <2>1, <2>2
<1>8. \A v \in Works : Written(v)'
  <2>1. ASSUME NEW v \in Works, v # w PROVE Written(v)'
    BY <1>1, <1>2, <1>3, <1>4, <1>5, <2>1 DEF Written
  <2>2. Written(w)'
    <3>1. \A s \in locked[w] : copy'[w][s] = copy[w][s]
      BY <1>1, <1>2, <1>3 DEF TypeOK
    <3>2. \A s \in locked'[w] :
             \E i \in DOMAIN Rows(w) : Rows(w)[i] = [student |-> s, flaw |-> "none"]
      BY <1>1, <1>2, <1>3 DEF Written, This
    <3>3. Live(w)' => \A i \in reported[w] :
            /\ Rows(w)[i].student \in locked'[w]
            /\ [work |-> w, line |-> i] \in copy'[w][Rows(w)[i].student]
      BY <1>1, <1>3, <1>4, <3>1 DEF Written
    <3> QED
      BY <1>2, <1>5, <3>2, <3>3 DEF Written
  <2> QED BY <2>1, <2>2
<1>9. \A v \in Works : Copies(v)'
  <2>0. \A v \in Works, s \in Students : \A a \in copy[v][s] : a.work \in Works
    BY <1>1 DEF TypeOK, Attempt
  <2>1. ASSUME NEW v \in Works, v # w PROVE Copies(v)'
    BY <1>1, <1>2, <1>3, <1>4, <1>5, <2>0, <2>1 DEF Copies, Genuine
  <2>2. Copies(w)'
    <3>1. ASSUME NEW s \in Students
          PROVE  \A a \in copy'[w][s] : Genuine(a, s)' /\ (a.work = w \/ pc'[a.work] = "committed")
      <4>1. CASE s = s0
        BY <1>1, <1>2, <1>3, <1>4, <1>5, <4>1 DEF Genuine
      <4>2. CASE s # s0
        BY <1>1, <1>2, <1>3, <1>4, <1>5, <2>0, <4>2 DEF Copies, Genuine
      <4> QED BY <4>1, <4>2
    <3>2. ASSUME NEW s \in Students, s \in locked'[w] \/ s = s0
          PROVE  history[s].attempts \ risked \subseteq copy'[w][s]
      BY <1>1, <1>3, <3>2 DEF Copies
    <3> QED
      BY <1>2, <1>3, <1>5, <3>1, <3>2 DEF Copies
  <2> QED BY <2>1, <2>2
<1>10. OneWriter'
  <2>1. \A v \in Works \ {w} : s0 \notin locked[v]
    BY <1>2 DEF WaitsFor
  <2> QED
    BY <1>3, <2>1 DEF BookInv, OneWriter
<1>11. \A s \in Students : \A a \in history'[s].attempts : Genuine(a, s)'
  BY <1>1, <1>2, <1>5 DEF Genuine
<1>12. NothingOfTheAborted'
  BY <1>1, <1>2, <1>4, <1>5 DEF BookInv, NothingOfTheAborted
<1>13. LossNeedsOverlap'
  BY <1>2, <1>4, <1>5 DEF BookInv, LossNeedsOverlap
<1>14. OnlyBadCallsRefused'
  BY <1>3, <1>5 DEF BookInv, OnlyBadCallsRefused
<1> QED
  BY <1>6, <1>7, <1>8, <1>9, <1>10, <1>11, <1>12, <1>13, <1>14 DEF BookInv

\* An attempt is added to the copy, and the copy written: one row of a student it had
\* no recorded row of.
LEMMA SaveStep ==
    ASSUME BookInv, NEW w \in Works, Save(w)
    PROVE  BookInv'
<1> DEFINE s0 == Student(w)
           a0 == [work |-> w, line |-> line[w]]
<1>1. /\ TypeOK
      /\ \A v \in Works : AtRow(v) /\ Written(v) /\ Copies(v)
      /\ \A s \in Students : \A a \in history[s].attempts : Genuine(a, s) /\ a.work \in Works
                                                          /\ pc[a.work] = "committed"
  BY DEF BookInv, TypeOK, Attempt, NothingOfTheAborted
<1>2. /\ pc[w] = "loaded" /\ WaitsFor(w) = {} /\ s0 \in Enrolled
      /\ UNCHANGED <<history, file, risked>>
      /\ Left(w) /\ ~Unusable(w) /\ s0 \in Students /\ line[w] \in Nat /\ line[w] >= 1
      /\ line[w] \in 1..MaxRows /\ line[w] <= Len(Rows(w)) /\ Len(Rows(w)) \in Nat
      /\ line[w] \in DOMAIN Rows(w) /\ This(w) = [student |-> s0, flaw |-> "none"]
  <2>1. This(w) \in Row /\ Left(w) /\ ~Unusable(w) /\ pc[w] = "loaded"
    BY <1>1, RowAt DEF Save, AtRow
  <2>2. line[w] \in 1..MaxRows /\ line[w] \in DOMAIN Rows(w) /\ s0 \in Students
        /\ Len(Rows(w)) \in Nat
    BY <2>1, RowAt
  <2>3. This(w) = [student |-> s0, flaw |-> "none"]
    BY <2>1 DEF Unusable, Row, Student
  <2> QED
    BY <2>1, <2>2, <2>3, GradeAssumption DEF Save, Left
<1>3. /\ pc'[w] = "open" /\ \A v \in Works \ {w} : pc'[v] = pc[v]
      /\ copy'[w][s0] = copy[w][s0] \cup {a0} /\ \A s \in Students \ {s0} : copy'[w][s] = copy[w][s]
      /\ locked'[w] = locked[w] \cup {s0} /\ reported'[w] = reported[w] \cup {line[w]}
      /\ line'[w] = line[w] + 1
      /\ \A v \in Works \ {w} : /\ copy'[v] = copy[v] /\ locked'[v] = locked[v]
                               /\ reported'[v] = reported[v] /\ line'[v] = line[v]
  BY <1>1, <1>2 DEF Save, TypeOK
<1>4. /\ \A v \in Works : pc'[v] = "committed" <=> pc[v] = "committed"
      /\ \A v \in Works : Live(v)' <=> Live(v)
  BY <1>2, <1>3 DEF Live
<1>5. /\ \A v \in Works : Rows(v)' = Rows(v)
      /\ \A v \in Works \ {w} : /\ Seen(v)' = Seen(v) /\ This(v)' = This(v) /\ Left(v)' = Left(v)
                               /\ Student(v)' = Student(v) /\ Unusable(v)' = Unusable(v)
  <2>1. \A v \in Works : Rows(v)' = Rows(v)
    BY <1>2 DEF Rows
  <2>2. ASSUME NEW v \in Works \ {w}
        PROVE  /\ Seen(v)' = Seen(v) /\ This(v)' = This(v) /\ Left(v)' = Left(v)
               /\ Student(v)' = Student(v) /\ Unusable(v)' = Unusable(v)
    BY <1>3, <2>1 DEF This, Student, Left, Unusable, Seen
  <2> QED BY <2>1, <2>2
<1>6. TypeOK'
  <2>1. a0 \in Attempt
    BY <1>2 DEF Attempt
  <2>2. copy' \in [Works -> [Students -> SUBSET Attempt]]
    BY <1>1, <1>2, <2>1 DEF TypeOK, Save
  <2>3. locked' \in [Works -> SUBSET Students] /\ reported' \in [Works -> SUBSET (1..MaxRows)]
    BY <1>1, <1>2 DEF TypeOK, Save
  <2>4. pc' \in [Works -> {"ready", "open", "absent", "loaded"} \cup Ends]
    BY <1>1 DEF TypeOK, Save
  <2>5. line' \in [Works -> 1..(MaxRows + 1)]
    BY <1>1, <1>2, GradeAssumption DEF TypeOK, Save
  <2> QED
    BY <1>1, <1>2, <2>2, <2>3, <2>4, <2>5 DEF TypeOK
<1>7. \A v \in Works : AtRow(v)'
  <2>1. ASSUME NEW v \in Works, v # w PROVE AtRow(v)'
    BY <1>1, <1>2, <1>3, <1>5, <2>1 DEF AtRow
  <2>2. AtRow(w)'
    <3>1. reported'[w] \subseteq 1..(line'[w] - 1)
      BY <1>1, <1>2, <1>3 DEF AtRow
    <3>2. \A i \in reported[w] : Rows(w)[i].student # Rows(w)[line[w]].student
      BY <1>2 DEF Unusable, Seen, Student, This
    <3>3. \A i, j \in reported'[w] : Rows(w)[i].student = Rows(w)[j].student => i = j
      BY <1>1, <1>3, <3>2 DEF AtRow
    <3> QED
      BY <1>2, <1>3, <1>5, <3>1, <3>3 DEF AtRow
  <2> QED BY <2>1, <2>2
<1>8. \A v \in Works : Written(v)'
  <2>1. ASSUME NEW v \in Works, v # w PROVE Written(v)'
    BY <1>1, <1>2, <1>3, <1>4, <1>5, <2>1 DEF Written
  <2>2. Written(w)'
    <3>1. \A s \in Students : copy[w][s] \subseteq copy'[w][s]
      BY <1>3
    <3>2. \A s \in locked'[w] :
             \E i \in DOMAIN Rows(w) : Rows(w)[i] = [student |-> s, flaw |-> "none"]
      BY <1>1, <1>2, <1>3 DEF Written, This
    <3>3. \A i \in reported[w] :
            /\ Rows(w)[i].student \in locked[w]
            /\ [work |-> w, line |-> i] \in copy[w][Rows(w)[i].student]
      BY <1>1, <1>2 DEF Written, Live
    <3>4. Rows(w)[line[w]].student = s0
      BY DEF Student, This
    <3>5. \A i \in reported'[w] :
            /\ Rows(w)[i].student \in locked'[w]
            /\ [work |-> w, line |-> i] \in copy'[w][Rows(w)[i].student]
      BY <1>1, <1>3, <3>1, <3>3, <3>4 DEF TypeOK
    <3> QED
      BY <1>5, <3>2, <3>5 DEF Written
  <2> QED BY <2>1, <2>2
<1>9. \A a, s : a.work \in Works /\ Genuine(a, s) => Genuine(a, s)'
  BY <1>3, <1>5 DEF Genuine
<1>10. \A v \in Works : Copies(v)'
  <2>0. \A v \in Works, s \in Students : \A a \in copy[v][s] : a.work \in Works
    BY <1>1 DEF TypeOK, Attempt
  <2>1. ASSUME NEW v \in Works, v # w PROVE Copies(v)'
    BY <1>1, <1>2, <1>3, <1>4, <1>5, <1>9, <2>0, <2>1 DEF Copies
  <2>2. Copies(w)'
    <3>1. line[w] \in reported'[w] /\ Rows(w)'[line[w]].student = s0
      BY <1>3, <1>5 DEF Student, This
    <3>2. ASSUME NEW s \in Students, NEW a \in copy'[w][s]
          PROVE  Genuine(a, s)' /\ (a.work = w \/ pc'[a.work] = "committed")
      <4>1. CASE a \in copy[w][s]
        <5>1. a.work \in Works /\ Genuine(a, s) /\ (a.work = w \/ pc[a.work] = "committed")
          BY <1>1, <2>0, <4>1 DEF Copies
        <5> QED
          BY <1>4, <1>9, <5>1
      <4>2. CASE a = a0 /\ s = s0
        BY <3>1, <4>2 DEF Genuine
      <4> QED BY <1>3, <4>1, <4>2
    <3>3. ASSUME NEW s \in Students, s \in locked'[w]
          PROVE  history[s].attempts \ risked \subseteq copy'[w][s]
      BY <1>1, <1>2, <1>3, <3>3 DEF Copies
    <3> QED
      BY <1>2, <1>3, <3>2, <3>3 DEF Copies
  <2> QED BY <2>1, <2>2
<1>11. OneWriter'
  <2>1. \A v \in Works \ {w} : s0 \notin locked[v]
    BY <1>2 DEF WaitsFor
  <2> QED
    BY <1>3, <2>1 DEF BookInv, OneWriter
<1>12. \A s \in Students : \A a \in history'[s].attempts : Genuine(a, s)'
  BY <1>1, <1>2, <1>9
<1>13. NothingOfTheAborted'
  BY <1>1, <1>2, <1>4, <1>5 DEF BookInv, NothingOfTheAborted
<1>14. LossNeedsOverlap'
  BY <1>2, <1>3, <1>4, <1>5 DEF BookInv, LossNeedsOverlap
<1>15. OnlyBadCallsRefused'
  BY <1>3, <1>5 DEF BookInv, OnlyBadCallsRefused
<1> QED
  BY <1>6, <1>7, <1>8, <1>10, <1>11, <1>12, <1>13, <1>14, <1>15 DEF BookInv

\* A commit publishes the work's copies.  Whoever is about to write one of them with an
\* older copy puts at risk what that copy lacks.
LEMMA CommitStep ==
    ASSUME BookInv, NEW w \in Works, Finish(w), ~file[w].dryRun
    PROVE  BookInv'
<1>1. /\ TypeOK
      /\ \A v \in Works : AtRow(v) /\ Written(v) /\ Copies(v)
      /\ \A s \in Students : \A a \in history[s].attempts : Genuine(a, s) /\ a.work \in Works
                                                          /\ pc[a.work] = "committed"
  BY DEF BookInv, TypeOK, Attempt, NothingOfTheAborted
<1>2. /\ pc[w] = "open" /\ End(w, "committed") /\ UNCHANGED reported
      /\ history' = [s \in Students |->
                       IF s \in locked[w] THEN [there |-> TRUE, attempts |-> copy[w][s]]
                                          ELSE history[s]]
      /\ risked' = risked \cup Exposed(w)
  BY DEF Finish
<1>3. /\ pc'[w] = "committed" /\ locked'[w] = {} /\ \A s \in Students : copy'[w][s] = {}
      /\ \A v \in Works \ {w} : pc'[v] = pc[v] /\ locked'[v] = locked[v] /\ copy'[v] = copy[v]
      /\ UNCHANGED <<file, line, reported>>
  BY <1>1, <1>2 DEF End, TypeOK
<1>4. /\ \A v \in Works : pc[v] = "committed" => pc'[v] = "committed"
      /\ \A v \in Works \ {w} : Live(v)' <=> Live(v)
      /\ Live(w) /\ ~Live(w)'
  BY <1>2, <1>3 DEF Live
<1>5. \A v \in Works : /\ Rows(v)' = Rows(v) /\ Seen(v)' = Seen(v) /\ This(v)' = This(v)
                       /\ Student(v)' = Student(v) /\ Left(v)' = Left(v) /\ Unusable(v)' = Unusable(v)
  BY <1>3 DEF Rows, This, Student, Left, Unusable, Seen
<1>6. TypeOK'
  <2>1. history' \in [Students -> [there : BOOLEAN, attempts : SUBSET Attempt]]
    BY <1>1, <1>2 DEF TypeOK
  <2>2. risked' \in SUBSET Attempt
    BY <1>1, <1>2 DEF TypeOK, Exposed
  <2> QED
    BY <1>1, <1>2, <2>1, <2>2 DEF TypeOK, End, Ends
<1>7. \A v \in Works : AtRow(v)'
  <2>1. ASSUME NEW v \in Works PROVE AtRow(v)'
    <3>1. pc'[v] \in {"ready", "absent", "loaded"} => v # w
      BY <1>3
    <3> QED
      BY <1>1, <1>3, <1>5, <3>1 DEF AtRow
  <2> QED BY <2>1
<1>8. \A v \in Works : Written(v)'
  BY <1>1, <1>3, <1>4, <1>5 DEF Written
<1>9. \A a, s : a.work \in Works /\ Genuine(a, s) => Genuine(a, s)'
  BY <1>3, <1>5 DEF Genuine
<1>10. \A v \in Works : Copies(v)'
  <2>0. \A v \in Works, s \in Students : \A a \in copy[v][s] : a.work \in Works
    BY <1>1 DEF TypeOK, Attempt
  <2>1. ASSUME NEW v \in Works, v # w, NEW s \in Students
        PROVE  /\ \A a \in copy'[v][s] : Genuine(a, s)' /\ (a.work = v \/ pc'[a.work] = "committed")
               /\ s \in locked'[v] \/ (pc'[v] = "loaded" /\ s = Student(v)') =>
                    history'[s].attempts \ risked' \subseteq copy'[v][s]
    <3>1. \A a \in copy[v][s] : Genuine(a, s) /\ (a.work = v \/ pc[a.work] = "committed")
      BY <1>1 DEF Copies
    <3>2. \A a \in copy'[v][s] : Genuine(a, s)' /\ (a.work = v \/ pc'[a.work] = "committed")
      BY <1>3, <1>4, <1>9, <2>0, <2>1, <3>1
    <3>3. CASE s \notin locked[w]
      <4>1. history'[s] = history[s] /\ risked \subseteq risked'
        BY <1>2, <3>3
      <4> QED
        BY <1>1, <1>3, <1>5, <2>1, <3>2, <4>1 DEF Copies
    <3>4. CASE s \in locked[w]
      <4>1. history'[s].attempts = copy[w][s] /\ s \notin locked'[v]
        BY <1>2, <1>3, <2>1, <3>4 DEF BookInv, OneWriter
      <4>2. ASSUME pc[v] = "loaded", s = Student(v), NEW a \in copy[w][s], a \notin copy[v][s]
            PROVE  a \in risked'
        BY <1>2, <2>1, <3>4, <4>2 DEF Exposed
      <4> QED
        BY <1>3, <1>5, <2>1, <3>2, <4>1, <4>2
    <3> QED BY <3>3, <3>4
  <2>2. Copies(w)'
    BY <1>3 DEF Copies
  <2> QED BY <2>1, <2>2 DEF Copies
<1>11. OneWriter'
  BY <1>3 DEF BookInv, OneWriter
<1>12. ASSUME NEW s \in Students, NEW a \in history'[s].attempts
       PROVE  Genuine(a, s)' /\ pc'[a.work] = "committed"
  <2>1. CASE s \in locked[w]
    <3>1. a \in copy[w][s]
      BY <1>2, <1>12, <2>1
    <3>2. Genuine(a, s) /\ a.work \in Works /\ (a.work = w \/ pc[a.work] = "committed")
      BY <1>1, <3>1 DEF Copies, TypeOK, Attempt
    <3> QED
      BY <1>3, <1>4, <1>9, <3>2
  <2>2. CASE s \notin locked[w]
    BY <1>1, <1>2, <1>4, <1>9, <1>12, <2>2
  <2> QED BY <2>1, <2>2
<1>13. NothingOfTheAborted'
  <2>1. ASSUME NEW s \in Students, history'[s].there
        PROVE  \E v \in Works : /\ pc'[v] = "committed"
                                /\ \E i \in DOMAIN Rows(v)' : Rows(v)'[i] = [student |-> s, flaw |-> "none"]
    <3>1. CASE s \in locked[w]
      BY <1>1, <1>3, <1>5, <3>1 DEF Written
    <3>2. CASE s \notin locked[w]
      <4>1. history[s].there
        BY <1>2, <2>1, <3>2
      <4> QED
        BY <1>4, <1>5, <4>1 DEF BookInv, NothingOfTheAborted
    <3> QED BY <3>1, <3>2
  <2> QED
    BY <1>12, <2>1 DEF NothingOfTheAborted
<1>14. LossNeedsOverlap'
  <2>1. ASSUME NEW v \in Works, pc'[v] = "committed", NEW i \in reported[v]
        PROVE  [work |-> v, line |-> i] \in history'[Rows(v)[i].student].attempts \cup risked'
    <3> DEFINE s == Rows(v)[i].student
               a == [work |-> v, line |-> i]
    <3>0. s \in Students
      BY RowAt
    <3>1. CASE v = w
      BY <1>1, <1>2, <1>4, <3>0, <3>1 DEF Written
    <3>2. CASE v # w
      <4>1. a \in history[s].attempts \cup risked
        BY <1>3, <2>1, <3>2 DEF BookInv, LossNeedsOverlap
      <4>2. s \in locked[w] => history[s].attempts \ risked \subseteq copy[w][s]
        BY <1>1, <3>0 DEF Copies
      <4> QED
        BY <1>2, <3>0, <4>1, <4>2
    <3> QED BY <3>1, <3>2
  <2> QED
    BY <1>3, <1>5, <2>1 DEF LossNeedsOverlap
<1>15. OnlyBadCallsRefused'
  BY <1>3, <1>5 DEF BookInv, OnlyBadCallsRefused
<1> QED
  BY <1>6, <1>7, <1>8, <1>10, <1>11, <1>12, <1>13, <1>14, <1>15 DEF BookInv

--------------------------------------------------------------------------------
LEMMA BookStep == BookInv /\ [Next]_vars => BookInv'
<1> SUFFICES ASSUME BookInv, [Next]_vars PROVE BookInv'
  OBVIOUS
<1>1. ASSUME NEW w \in Works, Begin(w) PROVE BookInv'
  <2>1. pc[w] = "ready" /\ line[w] = 1
    BY <1>1 DEF Begin, BookInv, AtRow
  <2>2. CASE file[w].call /\ This(w).flaw = "grade"
    <3>1. pc' = [pc EXCEPT ![w] = "refused"]
      BY <1>1, <2>2 DEF Begin
    <3>2. /\ line' = [line EXCEPT ![w] = line[w]]
          /\ UNCHANGED <<history, file, copy, locked, reported, risked>>
      BY <1>1 DEF Begin, BookInv, TypeOK
    <3> QED
      BY <2>1, <2>2, <3>1, <3>2, GoOnStep
  <2>3. CASE ~(file[w].call /\ This(w).flaw = "grade")
    <3>1. pc' = [pc EXCEPT ![w] = "open"] /\ line' = [line EXCEPT ![w] = line[w]]
          /\ UNCHANGED <<history, file, copy, locked, reported, risked>>
      BY <1>1, <2>3 DEF Begin, BookInv, TypeOK
    <3> QED
      BY <2>1, <3>1, GoOnStep
  <2> QED BY <2>2, <2>3
<1>2. ASSUME NEW w \in Works, TurnAway(w) PROVE BookInv'
  <2>1. pc[w] \in {"open", "loaded"} /\ Left(w) /\ UNCHANGED <<history, reported, risked>>
    BY <1>2 DEF TurnAway, BookInv, AtRow
  <2>2. CASE file[w].call /\ End(w, "refused")
    <3>1. line[w] = 1 /\ reported[w] = {}
      <4>1. line[w] \in 1..1 /\ reported[w] \subseteq 1..(line[w] - 1)
        BY <2>1, <2>2, RowAt DEF Left, BookInv, AtRow
      <4> QED BY <4>1
    <3>2. This(w).flaw # "none" \/ Student(w) \notin Enrolled
      BY <1>2, <3>1 DEF TurnAway, Unusable, Seen
    <3> QED
      BY <2>1, <2>2, <3>2, EndStep DEF Ends
  <2>3. CASE ~file[w].call
    <3>1. pc' = [pc EXCEPT ![w] = "open"] /\ line' = [line EXCEPT ![w] = line[w] + 1]
          /\ UNCHANGED <<file, copy, locked>>
      BY <1>2, <2>3 DEF TurnAway
    <3> QED
      BY <2>1, <3>1, GoOnStep
  <2> QED BY <1>2, <2>2, <2>3 DEF TurnAway
<1>3. ASSUME NEW w \in Works, Look(w) PROVE BookInv'
  <2> DEFINE to == IF Student(w) \in locked[w] \/ history[Student(w)].there THEN "loaded" ELSE "absent"
  <2>1. /\ pc[w] = "open" /\ Left(w) /\ ~Unusable(w)
        /\ pc' = [pc EXCEPT ![w] = to] /\ line' = [line EXCEPT ![w] = line[w]]
        /\ UNCHANGED <<history, file, locked, reported, risked>>
        /\ to \in {"absent", "loaded"} /\ (to = "absent" => Student(w) \notin locked[w])
        /\ IF Student(w) \notin locked[w]
              THEN copy' = [copy EXCEPT ![w][Student(w)] = history[Student(w)].attempts]
              ELSE copy' = copy
    BY <1>3 DEF Look, BookInv, TypeOK
  <2> HIDE DEF to
  <2> QED
    BY <2>1, GoOnStep
<1>4. ASSUME NEW w \in Works, Finish(w), file[w].dryRun PROVE BookInv'
  BY <1>4, EndStep DEF Finish, Ends
<1>5. ASSUME NEW w \in Works, Break(w) \/ Crash(w) PROVE BookInv'
  <2>1. CASE Break(w)
    <3>1. pc[w] \in {"absent", "loaded"}
      BY <2>1 DEF Break, Deadlocked, WaitsFor
    <3>2. End(w, "victim") /\ UNCHANGED <<history, reported, risked>>
      BY <2>1 DEF Break
    <3> QED
      BY <3>1, <3>2, EndStep DEF Ends
  <2>2. CASE Crash(w)
    BY <2>2, EndStep DEF Crash, Ends
  <2> QED BY <1>5, <2>1, <2>2
<1>6. CASE UNCHANGED vars
  <2>1. /\ UNCHANGED <<history, file, pc, line, copy, locked, reported, risked>>
        /\ \A w \in Works : /\ Rows(w)' = Rows(w) /\ This(w)' = This(w) /\ Left(w)' = Left(w)
                           /\ Student(w)' = Student(w) /\ Unusable(w)' = Unusable(w)
    BY <1>6 DEF vars, Rows, This, Left, Student, Unusable, Seen
  <2>2. TypeOK' /\ OneWriter'
    BY <2>1 DEF BookInv, TypeOK, OneWriter
  <2>3. \A w \in Works : AtRow(w)' /\ Written(w)'
    BY <2>1 DEF BookInv, AtRow, Written, Live
  <2>4. \A a, s : a.work \in Works /\ Genuine(a, s) => Genuine(a, s)'
    BY <2>1 DEF Genuine
  <2>5. /\ \A v \in Works, s \in Students : \A a \in copy[v][s] : a.work \in Works
        /\ \A s \in Students : \A a \in history[s].attempts : a.work \in Works
    BY DEF BookInv, TypeOK, Attempt
  <2>6. \A w \in Works : Copies(w)'
    BY <2>1, <2>4, <2>5 DEF BookInv, Copies
  <2>7. \A s \in Students : \A a \in history'[s].attempts : Genuine(a, s)'
    BY <2>1, <2>4, <2>5 DEF BookInv
  <2>8. NothingOfTheAborted' /\ LossNeedsOverlap' /\ OnlyBadCallsRefused'
    BY <2>1 DEF BookInv, NothingOfTheAborted, LossNeedsOverlap, OnlyBadCallsRefused
  <2> QED
    BY <2>2, <2>3, <2>6, <2>7, <2>8 DEF BookInv
<1> QED
  BY <1>1, <1>2, <1>3, <1>4, <1>5, <1>6, InsertStep, SaveStep, CommitStep DEF Next, Step

\* The inductive invariant holds of every run, for any students, works and sheets.
THEOREM BookInvariant == Spec => []BookInv
  BY BookStart, BookStep, PTL DEF Spec

\* No transcript ever has anything of a work that was refused, rehearsed or rolled back,
\* and none is there that no committed work with a sound row put there.
THEOREM AbortedLeavesNothing == Spec => []NothingOfTheAborted
<1>1. BookInv => NothingOfTheAborted
  BY DEF BookInv
<1> QED
  BY <1>1, BookInvariant, PTL

\* A committed grade is lost only to a transaction that held the transcript from before it.
THEOREM GradesAreLostToOverlapsOnly == Spec => []LossNeedsOverlap
<1>1. BookInv => LossNeedsOverlap
  BY DEF BookInv
<1> QED
  BY <1>1, BookInvariant, PTL

\* Whatever a sheet repeats, a transcript has one attempt of it.
THEOREM OneAttemptPerSheet == Spec => []OneRowPerStudent
<1>1. BookInv => OneRowPerStudent
  <2> SUFFICES ASSUME BookInv, NEW s \in Students,
                      NEW a \in history[s].attempts, NEW b \in history[s].attempts,
                      a.work = b.work
               PROVE  a = b
    BY DEF OneRowPerStudent
  <2>1. a \in Attempt /\ b \in Attempt /\ Genuine(a, s) /\ Genuine(b, s)
    BY DEF BookInv, TypeOK
  <2>2. a.work \in Works /\ AtRow(a.work)
    BY <2>1 DEF BookInv, Attempt
  <2>3. a.line = b.line
    BY <2>1, <2>2 DEF Genuine, AtRow
  <2> QED
    BY <2>1, <2>3 DEF Attempt
<1> QED
  BY <1>1, BookInvariant, PTL

\* No interleaving makes an error of a call with nothing wrong in it.
THEOREM GoodCallsAreNotRefused == Spec => []OnlyBadCallsRefused
<1>1. BookInv => OnlyBadCallsRefused
  BY DEF BookInv
<1> QED
  BY <1>1, BookInvariant, PTL

================================================================================
