-------------------------------- MODULE Columns --------------------------------
(* What the database holds of a value, and what is made of what it holds: the     *)
(* column types, and the rows the mappings and _to_row, _to_job build with them.   *)
(* A read is the set of what it can give: one value, or none where a constructor   *)
(* refuses.  What str(), UUID(), int(), strip() and lower() do to a text is given, *)
(* and so are JSON and the texts of terms.                                         *)
EXTENDS Integers, Sequences

CONSTANTS
    Texts,
    Uuids,      \* identifiers
    Canonical,  \* str() of an identifier
    Uuid,       \* the texts UUID() reads, and what it reads them as
    Numbers,    \* the texts int() reads, and what it reads them as
    Decimal,    \* str() of the numbers in play
    Years,
    Label,      \* a term's label, for every year and number
    Halves,     \* the texts whose halves around a first "-T" int() reads, and what it reads
    Normal,     \* a text without the space around it, in lower case
    WellFormed, \* the normalised texts that Email takes for addresses
    Zone,       \* the offset PostgreSQL gives an instant back at; Naive on SQLite, which has none
    Naive       \* the offset of a datetime without one

NoSource == "None"
Terms == [year : Years, number : {1, 2}]

ASSUME ColumnsAssumption ==
    /\ Canonical \in [Uuids -> Texts]
    /\ \A i \in Uuids : Canonical[i] \in DOMAIN Uuid /\ Uuid[Canonical[i]] = i
    /\ \A t \in DOMAIN Uuid : Uuid[t] \in Uuids
    /\ DOMAIN Decimal \subseteq Nat
    /\ \A n \in DOMAIN Decimal : Decimal[n] \in DOMAIN Numbers /\ Numbers[Decimal[n]] = n
    /\ \A t \in DOMAIN Numbers : Numbers[t] \in Int
    /\ Years \subseteq Nat \ {0}
    /\ Label \in [Terms -> Texts]
    /\ \A t \in Terms : Label[t] \in DOMAIN Halves /\ Halves[Label[t]] = <<t.year, t.number>>
    /\ Normal \in [Texts -> Texts]
    /\ WellFormed \subseteq Texts /\ \A a \in WellFormed : Normal[a] = a
    /\ NoSource \notin Uuids \cup Texts
    /\ Naive \notin Int /\ Zone \in Int \cup {Naive}

Roles == {"administrative_employee", "teacher", "student", "guardian"}
Kinds == {"people", "subjects", "enrollments", "grade_sheet"}
Statuses == {"pending", "running", "done", "failed"}
Grades == 0..10

--------------------------------------------------------------------------------
(* Columns of one value. *)

ReadId(t) == IF t \in DOMAIN Uuid THEN {Uuid[t]} ELSE {}

\* through the value object, so that what was written in capitals by hand is read in lower case
ReadEmail(t) == {Normal[t]} \cap WellFormed

ReadTerm(t) ==
    {u \in Terms : t \in DOMAIN Halves /\ Halves[t] = <<u.year, u.number>>}

AgesOfMajority == DOMAIN Decimal \ {0}
WriteAge(n) == Decimal[n]
ReadAge(t) == IF t \in DOMAIN Numbers /\ Numbers[t] > 0 THEN {Numbers[t]} ELSE {}

\* What a clock shows and its distance from UTC.  PostgreSQL holds the instant, and takes what
\* has no offset to be of its own zone; SQLite holds what the clock shows.
Moments == [clock : Int, offset : Int \cup {Naive}]
WriteMoment(m) ==
    IF Zone = Naive THEN m.clock ELSE m.clock - (IF m.offset = Naive THEN Zone ELSE m.offset)
ReadMoment(v) == [clock |-> IF Zone = Naive THEN v ELSE v + Zone, offset |-> Zone]

\* an enum, by its values
ReadMember(t, members) == {t} \cap members

--------------------------------------------------------------------------------
(* Columns that hold a JSON array.  A sorted one is the set of its elements. *)

\* an array of reads is the read of an array
Each(reads) ==
    {s \in [DOMAIN reads -> UNION {reads[i] : i \in DOMAIN reads}] :
        \A i \in DOMAIN reads : s[i] \in reads[i]}

WriteRoles(roles) == roles
ReadRoles(raw) == IF raw \subseteq Roles THEN {raw} ELSE {}

WriteCredentials(ids) == {Canonical[i] : i \in ids}
ReadCredentials(raw) == IF raw \subseteq DOMAIN Uuid THEN {{Uuid[t] : t \in raw}} ELSE {}

WriteEnrollments(students) == [i \in DOMAIN students |-> [student_id |-> Canonical[students[i]]]]
ReadEnrollments(raw) == Each([i \in DOMAIN raw |-> ReadId(raw[i].student_id)])

Entries == [subject : Uuids, term : Terms, grade : Grades, source : Uuids \cup {NoSource}]
WriteEntry(e) ==
    [subject |-> Canonical[e.subject], term |-> Label[e.term], grade |-> e.grade,
     source |-> IF e.source = NoSource THEN NoSource ELSE Canonical[e.source]]
ReadEntry(raw) ==
    {[subject |-> i, term |-> t, grade |-> g, source |-> o] :
        i \in ReadId(raw.subject), t \in ReadTerm(raw.term), g \in {raw.grade} \cap Grades,
        o \in IF raw.source = NoSource THEN {NoSource} ELSE ReadId(raw.source)}
WriteEntries(entries) == [i \in DOMAIN entries |-> WriteEntry(entries[i])]
ReadEntries(raw) == Each([i \in DOMAIN raw |-> ReadEntry(raw[i])])

--------------------------------------------------------------------------------
(* Rows. *)

People == [id : Uuids, email : WellFormed, roles : SUBSET Roles, credentials : SUBSET Uuids]
PersonRow(p) ==
    [id |-> Canonical[p.id], email |-> p.email, roles |-> WriteRoles(p.roles),
     credentials |-> WriteCredentials(p.credentials)]
ReadPerson(row) ==
    {[id |-> i, email |-> e, roles |-> r, credentials |-> c] :
        i \in ReadId(row.id), e \in ReadEmail(row.email), r \in ReadRoles(row.roles),
        c \in ReadCredentials(row.credentials)}

Sections ==
    [id : Uuids, subject : Uuids, term : Terms, teacher : Uuids, enrollments : Seq(Uuids)]
SectionRow(s) ==
    [id |-> Canonical[s.id], subject |-> Canonical[s.subject], term |-> Label[s.term],
     teacher |-> Canonical[s.teacher], enrollments |-> WriteEnrollments(s.enrollments)]
ReadSection(row) ==
    {[id |-> i, subject |-> u, term |-> t, teacher |-> w, enrollments |-> e] :
        i \in ReadId(row.id), u \in ReadId(row.subject), t \in ReadTerm(row.term),
        w \in ReadId(row.teacher), e \in ReadEnrollments(row.enrollments)}

Histories == [id : Uuids, entries : Seq(Entries)]
HistoryRow(h) == [id |-> Canonical[h.id], entries |-> WriteEntries(h.entries)]
ReadHistory(row) ==
    {[id |-> i, entries |-> e] : i \in ReadId(row.id), e \in ReadEntries(row.entries)}

Guardianships == [id : Uuids, guardian : Uuids, ward : Uuids]
GuardianshipRow(g) ==
    [id |-> Canonical[g.id], guardian |-> Canonical[g.guardian], ward |-> Canonical[g.ward]]
ReadGuardianship(row) ==
    {[id |-> i, guardian |-> a, ward |-> w] :
        i \in ReadId(row.id), a \in ReadId(row.guardian), w \in ReadId(row.ward)}

\* the submitter is a plain text
Jobs == [id : Uuids, kind : Kinds, by : Texts, at : Moments, status : Statuses]
JobRow(j) ==
    [id |-> Canonical[j.id], kind |-> j.kind, by |-> j.by, at |-> WriteMoment(j.at),
     status |-> j.status]
ReadJob(row) ==
    {[id |-> i, kind |-> k, by |-> row.by, at |-> ReadMoment(row.at), status |-> s] :
        i \in ReadId(row.id), k \in ReadMember(row.kind, Kinds),
        s \in ReadMember(row.status, Statuses)}

================================================================================
