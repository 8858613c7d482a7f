--------------------------------- MODULE Access --------------------------------
(* Who may read and write whose records.  Nothing about access is stored: every *)
(* check reads sections, guardianships, people, the age of majority and the     *)
(* clock, one await after another, while all of them may change.  One request   *)
(* is followed, since requests only read what they share; the world around it   *)
(* changes through other requests, other processes and time.                    *)
EXTENDS Naturals, FiniteSets

CONSTANTS
    People,
    Sections,
    Worlds,           \* the data to begin with
    KeepsLoaded,      \* does a session return the section it holds as it was loaded? SQL, not memory
    MajorityMayRise,  \* may the age of majority be raised, or only lowered?
    MaxAge,           \* bound: the oldest anybody grows
    MaxChanges        \* bound: how often the world changes

World == [section  : [Sections -> [teacher : People, roster : SUBSET People]],
          links    : SUBSET (People \X People),
          age      : [People -> 0..MaxAge],
          majority : 1..MaxAge,
          admins   : SUBSET People,
          present  : SUBSET People]

ASSUME AccessAssumption ==
    /\ People # {} /\ Sections # {}
    /\ Worlds \subseteq World
    /\ KeepsLoaded \in BOOLEAN /\ MajorityMayRise \in BOOLEAN
    /\ MaxAge \in Nat
    /\ MaxChanges \in Nat

VARIABLES
    world,    \* the stored data, and how old everybody is today
    req,      \* the request: who asks for what, what it has read, and its answer
    held,     \* history: whose records the actor could reach at some instant since asking,
              \* as the request sees it
    changes   \* how often the world has changed

vars == <<world, req, held, changes>>

Kinds == {"sheet", "transcript", "write", "wards"}
Steps == {"idle", "load", "teaching", "links", "ward", "age", "cleared",
          "answered", "refused"}

\* The variables' types.
TypeOK ==
    /\ world \in World
    /\ req \in [pc : Steps, kind : Kinds, actor : People, admin : BOOLEAN, target : Sections,
                teacher : People, roster : SUBSET People, todo : SUBSET People, owner : People,
                relations : SUBSET {"self", "administrator", "teacher_of_section", "guardian_of"},
                wards : SUBSET People, shown : SUBSET People]
    /\ held \in SUBSET People
    /\ changes \in Nat

--------------------------------------------------------------------------------
(* The policy, and the facts relations are made of. *)

\* the grant matrix: resource and action, per relation
Grants == [self               |-> {"read grades", "read history"},
           teacher_of_section |-> {"read grades", "write grades"},
           guardian_of        |-> {"read grades", "read history"},
           administrator      |-> {"read grades", "read history"}]

Wanted(kind) ==
    CASE kind = "sheet" -> "read grades"
      [] kind = "transcript" -> "read history"
      [] kind = "write" -> "write grades"
      [] kind = "wards" -> "be in care"

Allowed(kind, relations) == \E r \in relations : Wanted(kind) \in Grants[r]

Teaches(w, p, o) == \E s \in Sections : w.section[s].teacher = p /\ o \in w.section[s].roster
Minor(w, o) == w.age[o] < w.majority
InCare(w, p, o) == <<p, o>> \in w.links /\ o \in w.present /\ Minor(w, o)

\* every relation between two people, read in one instant: what the code cannot do
Relations(w, p, o) ==
    {r \in DOMAIN Grants :
        \/ r = "self" /\ p = o
        \/ r = "administrator" /\ p \in w.admins
        \/ r = "teacher_of_section" /\ Teaches(w, p, o)
        \/ r = "guardian_of" /\ InCare(w, p, o)}

Reachable(w, kind, p) ==
    IF kind = "wards" THEN {o \in People : InCare(w, p, o)}
    ELSE {o \in People : Allowed(kind, Relations(w, p, o))}

\* The world as a request sees it.  Who teaches a section is asked of the database, but a
\* request for a sheet holds on to its section, and the session's identity map gives it back
\* with the students it was loaded with, whatever is stored by then.
HoldsSection(r) == KeepsLoaded /\ r.kind = "sheet" /\ r.pc \notin {"idle", "load"}
Seen(w, r) == IF HoldsSection(r) THEN [w EXCEPT !.section[r.target].roster = r.roster] ELSE w

Someone == CHOOSE p \in People : TRUE

Init ==
    /\ world \in Worlds
    /\ req = [pc |-> "idle", kind |-> "wards", actor |-> Someone, admin |-> FALSE,
              target |-> CHOOSE s \in Sections : TRUE, teacher |-> Someone, roster |-> {},
              todo |-> {}, owner |-> Someone, relations |-> {}, wards |-> {}, shown |-> {}]
    /\ held = {}
    /\ changes = 0

--------------------------------------------------------------------------------
(* The request. *)

\* the actor's roles are read from the person record once, when the request is authenticated
Ask(kind, p, s, o) ==
    /\ req.pc = "idle"
    /\ p \in world.present
    /\ req' = [req EXCEPT !.kind = kind, !.actor = p, !.target = s, !.owner = o,
                          !.admin = p \in world.admins,
                          !.todo = IF kind \in {"transcript", "write"} THEN {o} ELSE {},
                          !.pc = CASE kind = "sheet" -> "load"
                                   [] kind = "wards" -> "links"
                                   [] OTHER -> "teaching"]
    /\ held' = Reachable(world, kind, p)
    /\ UNCHANGED <<world, changes>>

Goes(next) == req' = next /\ UNCHANGED <<world, held, changes>>

\* fault: a sheet is about its students only
NamedStudentsOnly(section) == section.roster

\* everybody a sheet names: its teacher and its students
Named(section) == {section.teacher} \cup section.roster

\* the section first, because who may read its sheet is derived from it
LoadSection ==
    LET section == world.section[req.target] IN
    /\ req.pc = "load"
    /\ Goes([req EXCEPT !.teacher = section.teacher, !.roster = section.roster,
                        !.todo = Named(section),
                        !.pc = IF Named(section) = {} THEN "cleared" ELSE "teaching"])

\* relations_of, for one of the owners left: self and administrator at hand, teaching read
ReadTeaching ==
    /\ req.pc = "teaching"
    /\ \E o \in req.todo :
         Goes([req EXCEPT !.pc = "links", !.owner = o,
                 !.relations = {r \in DOMAIN Grants :
                                  \/ r = "self" /\ req.actor = o
                                  \/ r = "administrator" /\ req.admin
                                  \/ r = "teacher_of_section"
                                       /\ Teaches(Seen(world, req), req.actor, o)}])

\* the policy decides; the first owner refused ends the request
Decided(relations) ==
    LET left == req.todo \ {req.owner} IN
    IF Allowed(req.kind, relations)
    THEN [req EXCEPT !.todo = left, !.pc = IF left = {} THEN "cleared" ELSE "teaching"]
    ELSE [req EXCEPT !.pc = "refused"]

Linked == {o \in People : <<req.actor, o>> \in world.links}

\* fault: the links are kept, where the wards they name belong
FindWholeLinks ==
    /\ req.pc = "links" /\ req.kind = "wards"
    /\ Goes([req EXCEPT !.wards = {<<req.actor, o>> : o \in Linked}, !.pc = "age"])

\* list_my_wards: all links of the actor, and nobody to ask, since they are the actor's own
FindWards ==
    /\ req.pc = "links" /\ req.kind = "wards"
    /\ Goes([req EXCEPT !.wards = Linked, !.pc = "age"])

\* the guard: the links of this owner
ReadLinks ==
    /\ req.pc = "links" /\ req.kind # "wards"
    /\ Goes(IF req.owner \in Linked THEN [req EXCEPT !.pc = "ward"] ELSE Decided(req.relations))

\* a link may outlive the person it names
ReadWard ==
    /\ req.pc = "ward"
    /\ Goes(IF req.owner \in world.present THEN [req EXCEPT !.pc = "age"]
                                            ELSE Decided(req.relations))

\* fault: a link counts whatever the ward's age
LinkCounts(o) == TRUE

\* guardianship applies while the ward is a minor
Applies(o) == Minor(world, o)

\* the age of majority and today come last, after the link they are applied to
ReadAge ==
    /\ req.pc = "age" /\ req.kind # "wards"
    /\ Goes(Decided(IF Applies(req.owner) THEN req.relations \cup {"guardian_of"}
                                          ELSE req.relations))

\* list_my_wards again: the age and today are read before the wards, which Show then loads
KeepMinors ==
    /\ req.pc = "age" /\ req.kind = "wards"
    /\ Goes([req EXCEPT !.pc = "cleared", !.wards = {o \in req.wards : Applies(o)}])

\* what is shown is what was checked, less the people who are gone
Show(kind, people) ==
    /\ req.pc = "cleared" /\ req.kind = kind
    /\ Goes([req EXCEPT !.pc = "answered", !.shown = world.present \cap people])

\* fault: the sheet is answered from the section as it is now
ShowSheetReloaded == Show("sheet", world.section[req.target].roster)

ShowSheet == Show("sheet", req.roster)
ShowTranscript == Show("transcript", {req.owner})
ShowWards == Show("wards", req.wards)

\* fault: the service takes the guard's word for it
RecordUnchecked ==
    LET section == world.section[req.target] IN
    /\ req.pc = "cleared" /\ req.kind = "write"
    /\ Goes([req EXCEPT !.teacher = section.teacher, !.roster = section.roster,
                        !.pc = "answered"])

\* record_grade reads the section again inside its transaction, then the two people: the
\* actor must teach this section, and the student be in it
Record ==
    LET section == world.section[req.target] IN
    /\ req.pc = "cleared" /\ req.kind = "write"
    /\ Goes([req EXCEPT !.teacher = section.teacher, !.roster = section.roster,
                        !.pc = IF /\ {req.actor, req.owner} \subseteq world.present
                                  /\ section.teacher = req.actor
                                  /\ req.owner \in section.roster
                               THEN "answered" ELSE "refused"])

--------------------------------------------------------------------------------
(* The world. *)

Becomes(next) ==
    /\ changes < MaxChanges
    /\ next # world
    /\ world' = next
    /\ changes' = changes + 1
    /\ held' = IF req.pc = "idle" THEN held
               ELSE held \cup Reachable(Seen(next, req), req.kind, req.actor)
    /\ UNCHANGED req

Reassign(s, p) == Becomes([world EXCEPT !.section[s].teacher = p])
Enroll(s, p) == Becomes([world EXCEPT !.section[s].roster = @ \cup {p}])
Withdraw(s, p) == Becomes([world EXCEPT !.section[s].roster = @ \ {p}])
Link(p, o) == p # o /\ Becomes([world EXCEPT !.links = @ \cup {<<p, o>>}])   \* nobody is their own guardian
Unlink(p, o) == Becomes([world EXCEPT !.links = @ \ {<<p, o>>}])
Birthday(p) == world.age[p] < MaxAge /\ Becomes([world EXCEPT !.age[p] = @ + 1])
SetRoles(admins) == Becomes([world EXCEPT !.admins = admins])
Remove(p) == Becomes([world EXCEPT !.present = @ \ {p}])

SetAgeOfMajority(n) ==
    /\ MajorityMayRise \/ n < world.majority
    /\ Becomes([world EXCEPT !.majority = n])

Change ==
    \/ \E s \in Sections, p \in People : Reassign(s, p) \/ Enroll(s, p) \/ Withdraw(s, p)
    \/ \E p, o \in People : Link(p, o) \/ Unlink(p, o)
    \/ \E p \in People : Birthday(p) \/ Remove(p)
    \/ \E admins \in SUBSET People : SetRoles(admins)
    \/ \E n \in 1..MaxAge : SetAgeOfMajority(n)

Proceed ==
    \/ LoadSection \/ ShowSheet
    \/ ReadTeaching \/ ReadLinks \/ ReadWard \/ ReadAge
    \/ FindWards \/ KeepMinors \/ ShowWards
    \/ ShowTranscript
    \/ Record

Next ==
    \/ \E kind \in Kinds, p, o \in People, s \in Sections : Ask(kind, p, s, o)
    \/ Proceed
    \/ Change

Spec == Init /\ [][Next]_vars

--------------------------------------------------------------------------------
\* Although no check is one reading of the world, nobody is shown a record, or a sheet
\* naming a teacher, that they could not reach at one instant since they asked.  Where a
\* session keeps what it loaded, a sheet's own section counts at that instant with the teacher
\* it had and the students it was loaded with (teaching_students_of): nothing else is old.
ShownWasReadable ==
    /\ req.shown \subseteq held
    /\ req.kind = "sheet" /\ req.pc = "answered" => req.teacher \in held

\* A grade is written only by someone who, since they asked, taught its student and
\* found themselves the teacher of its very section, with that student in it.
WrittenByItsTeacher ==
    req.kind = "write" /\ req.pc = "answered" =>
        /\ req.owner \in held
        /\ req.teacher = req.actor
        /\ req.owner \in req.roster

--------------------------------------------------------------------------------
(* Why they hold, as an inductive invariant (module AccessProofs).               *)

Asking == req.kind # "wards" /\ req.pc \in {"links", "ward", "age"}

\* whose records the request is for, once it knows
Sought == IF req.kind = "sheet" THEN {req.teacher} \cup req.roster ELSE {req.owner}

\* where the request can be, and what it has left to do there
InStep ==
    /\ req.pc = "load" => req.kind = "sheet"
    /\ req.kind = "wards" => /\ req.pc \in {"idle", "links", "age", "cleared", "answered"}
                             /\ req.todo = {}
    /\ req.kind \in {"transcript", "write"} => req.todo \subseteq {req.owner}
    /\ Asking => req.owner \in req.todo
    /\ req.pc \in {"cleared", "answered"} => req.todo = {}
    /\ req.pc # "answered" => req.shown = {}

\* what is within reach now, or was to an administrator when they asked, is in held
HeldSinceAsked ==
    req.pc # "idle" =>
        /\ Reachable(Seen(world, req), req.kind, req.actor) \subseteq held
        /\ req.admin /\ req.kind \in {"sheet", "transcript"} => held = People

\* nobody grows younger, and nobody comes back: a ward found a minor after their link
\* was read was one when it was read
MinorsInReach ==
    /\ Asking /\ req.kind # "write" =>
         /\ req.pc = "ward" /\ req.owner \in world.present /\ Minor(world, req.owner) => req.owner \in held
         /\ req.pc = "age" /\ Minor(world, req.owner) => req.owner \in held
    /\ req.kind = "wards" =>
         \A o \in req.wards \cap world.present :
            \/ req.pc = "age" /\ Minor(world, o)
            \/ req.pc = "cleared"
            => o \in held

\* whoever was cleared could be reached, and so can the one being asked about if the
\* relations read so far are enough
ClearedInReach ==
    req.kind # "wards" /\ req.pc \notin {"idle", "load"} =>
        /\ Sought \ req.todo \subseteq held
        /\ Asking /\ Allowed(req.kind, req.relations) => req.owner \in held

\* nothing that would be a grant comes back
Steady == ~MajorityMayRise \/ req.kind = "write"

AccessInv ==
    /\ TypeOK
    /\ InStep
    /\ HeldSinceAsked
    /\ req.relations \subseteq DOMAIN Grants
    /\ Asking => "guardian_of" \notin req.relations
    /\ Steady => MinorsInReach /\ ClearedInReach /\ ShownWasReadable
    /\ WrittenByItsTeacher
================================================================================
