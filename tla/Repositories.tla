------------------------------ MODULE Repositories -----------------------------
(* The questions the repositories answer, on either backend: the rows an answer   *)
(* selects, and the order it lists them in.  A table is a set of rows; an order    *)
(* is a set of pairs, of a row and one listed after it.  A backend volunteers      *)
(* rows in an order of its own, and sorting is a pass over it for every part of    *)
(* the key, the last part first.                                                   *)
EXTENDS Columns

CONSTANTS
    Less,  \* the pairs of a text and one after it, as str compares
    Iso    \* isoformat() of the moments the clock gives, by what they show

\* every two are in one order, and only in one
Orders(order, K) ==
    /\ \A a, b \in K : <<a, b>> \in order => <<b, a>> \notin order
    /\ \A a, b \in K : a # b => <<a, b>> \in order \/ <<b, a>> \in order
    /\ \A a, b, c \in K : <<a, b>> \in order /\ <<b, c>> \in order => <<a, c>> \in order

ASSUME RepositoriesAssumption ==
    /\ Less \subseteq Texts \X Texts /\ Orders(Less, Texts)
    /\ DOMAIN Iso \subseteq Int /\ \A m \in DOMAIN Iso : Iso[m] \in Texts
    /\ \A m, n \in DOMAIN Iso : m < n => <<Iso[m], Iso[n]>> \in Less

\* ids are primary keys, or the keys of a dict
Keyed(S) == \A r, q \in S : r.id = q.id => r = q

--------------------------------------------------------------------------------
(* Sorting. *)

\* a stable one
Pass(before, S, key, order) ==
    {p \in S \X S : \/ <<key[p[1]], key[p[2]]>> \in order
                    \/ key[p[1]] = key[p[2]] /\ p \in before}

\* reverse=True, or DESC: equal keys are left as they were
Down(order) == {<<p[2], p[1]>> : p \in order}

TermsUp ==
    {p \in Terms \X Terms : \/ p[1].year < p[2].year
                            \/ p[1].year = p[2].year /\ p[1].number < p[2].number}
Earlier == {p \in (DOMAIN Iso) \X (DOMAIN Iso) : p[1] < p[2]}

ById(S, before, order) == Pass(before, S, [r \in S |-> Canonical[r.id]], order)

PeopleListed(S, before) == Pass(ById(S, before, Less), S, [r \in S |-> r.email], Less)
SectionsListed(S, before) ==
    Pass(Pass(ById(S, before, Less), S, [r \in S |-> Canonical[r.subject]], Less),
         S, [r \in S |-> Label[r.term]], Less)
HistoriesListed(S, before) == ById(S, before, Less)
GuardianshipsListed(S, before) ==
    Pass(Pass(ById(S, before, Less), S, [r \in S |-> Canonical[r.ward]], Less),
         S, [r \in S |-> Canonical[r.guardian]], Less)
RecentFirst(S, before) == Pass(ById(S, before, Less), S, [r \in S |-> r.term], Down(TermsUp))

\* submitted_at is now(), in UTC
FromClock(S) == \A r \in S : r.at.offset = 0 /\ r.at.clock \in DOMAIN Iso

\* sorted in Python by the moment's text, and by the database by what it holds of the moment
MemoryJobs(S, before) == Pass(ById(S, before, Less), S, [r \in S |-> Iso[r.at.clock]], Less)
SqlJobs(S, before) == Pass(ById(S, before, Less), S, [r \in S |-> WriteMoment(r.at)], Earlier)

\* one reversed sort of both parts, and two parts of which one is DESC
MemoryNewest(S, before) ==
    Pass(ById(S, before, Down(Less)), S, [r \in S |-> Iso[r.at.clock]], Down(Less))
SqlNewest(S, before) ==
    Pass(ById(S, before, Less), S, [r \in S |-> WriteMoment(r.at)], Down(Earlier))

--------------------------------------------------------------------------------
(* Selecting. *)

\* a dict that is searched for the text, and a column that is compared with an address
MemoryByEmail(S, t) == {r \in S : r.email = Normal[t]}
SqlByEmail(S, t) == {r \in S : r.email \in ReadEmail(t)}

\* otherwise ConflictError
MemoryEmailUnused(S, p) == \A r \in S : r.id # p.id => r.email # p.email
SqlEmailUnused(S, p) == \A r \in SqlByEmail(S, p.email) : r.id = p.id

\* by_ids and for_students: at every position of the ids asked for, the row, if there is one
InAskedOrder(S, ids) == {p \in (DOMAIN ids) \X S : p[2].id = ids[p[1]]}

HoldersOf(S, credential) == {p \in S : credential \in p.credentials}

IsEnrolled(s, student) == \E i \in DOMAIN s.enrollments : s.enrollments[i] = student
ForTeacher(S, who) == {s \in S : s.teacher = who}
ForStudent(S, who) == {s \in S : IsEnrolled(s, who)}
MemoryInTerm(S, term) == {s \in S : s.term = term}
SqlInTerm(S, term) == {s \in S : Label[s.term] = Label[term]}
SubjectsEnrolledBy(S, who) == {s.subject : s \in ForStudent(S, who)}
TeachingStudentsOf(S, who) ==
    UNION {{s.enrollments[i] : i \in DOMAIN s.enrollments} : s \in ForTeacher(S, who)}

\* whatever the ward's age
WardsOf(S, who) == {g \in S : g.guardian = who}
GuardiansOf(S, who) == {g \in S : g.ward = who}

WithStatus(S, status) == {j \in S : j.status = status}
SubmittedBy(S, who) == {j \in S : j.by = Canonical[who]}

================================================================================
