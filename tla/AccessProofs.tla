----------------------------- MODULE AccessProofs ------------------------------
(* AccessInv is inductive; what it gives for any people, sections and worlds.   *)
EXTENDS Access, TLAPS

Request == [pc : Steps, kind : Kinds, actor : People, admin : BOOLEAN, target : Sections,
            teacher : People, roster : SUBSET People, todo : SUBSET People, owner : People,
            relations : SUBSET {"self", "administrator", "teacher_of_section", "guardian_of"},
            wards : SUBSET People, shown : SUBSET People]

--------------------------------------------------------------------------------
(* The policy. *)

LEMMA GrantsAre == DOMAIN Grants = {"self", "teacher_of_section", "guardian_of", "administrator"}
  BY DEF Grants

\* The grant matrix, relation by relation.
LEMMA AllowedIs ==
    ASSUME NEW kind \in Kinds \ {"wards"}, NEW R \in SUBSET DOMAIN Grants
    PROVE  Allowed(kind, R) <=>
             \/ kind # "write" /\ R \cap {"self", "administrator", "guardian_of"} # {}
             \/ kind # "transcript" /\ "teacher_of_section" \in R
<1>1. R \subseteq {"self", "teacher_of_section", "guardian_of", "administrator"}
  BY GrantsAre
<1>2. /\ Grants["self"] = {"read grades", "read history"}
      /\ Grants["teacher_of_section"] = {"read grades", "write grades"}
      /\ Grants["guardian_of"] = {"read grades", "read history"}
      /\ Grants["administrator"] = {"read grades", "read history"}
  BY DEF Grants
<1>3. CASE kind = "sheet"
  <2>1. Wanted(kind) = "read grades"
    BY <1>3 DEF Wanted
  <2> QED BY <1>1, <1>2, <1>3, <2>1 DEF Allowed
<1>4. CASE kind = "transcript"
  <2>1. Wanted(kind) = "read history"
    BY <1>4 DEF Wanted
  <2> QED BY <1>1, <1>2, <1>4, <2>1 DEF Allowed
<1>5. CASE kind = "write"
  <2>1. Wanted(kind) = "write grades"
    BY <1>5 DEF Wanted
  <2> QED BY <1>1, <1>2, <1>5, <2>1 DEF Allowed
<1> QED
  BY <1>3, <1>4, <1>5 DEF Kinds

\* What puts a person within somebody's reach.
LEMMA ReachIs ==
    ASSUME NEW w, NEW p, NEW o \in People, NEW kind \in Kinds \ {"wards"}
    PROVE  o \in Reachable(w, kind, p) <=>
             \/ kind # "write" /\ (p = o \/ p \in w.admins \/ InCare(w, p, o))
             \/ kind # "transcript" /\ Teaches(w, p, o)
<1>1. Relations(w, p, o) \in SUBSET DOMAIN Grants
  BY DEF Relations
<1>2. /\ "self" \in Relations(w, p, o) <=> p = o
      /\ "administrator" \in Relations(w, p, o) <=> p \in w.admins
      /\ "teacher_of_section" \in Relations(w, p, o) <=> Teaches(w, p, o)
      /\ "guardian_of" \in Relations(w, p, o) <=> InCare(w, p, o)
  BY GrantsAre DEF Relations
<1>3. o \in Reachable(w, kind, p) <=> Allowed(kind, Relations(w, p, o))
  BY DEF Reachable
<1> QED
  BY <1>1, <1>2, <1>3, AllowedIs

LEMMA WardsReachIs ==
    ASSUME NEW w, NEW p, NEW o \in People
    PROVE  o \in Reachable(w, "wards", p) <=> InCare(w, p, o)
  BY DEF Reachable

--------------------------------------------------------------------------------
(* What a request sees: nothing but the roster of a section it holds is old.     *)

LEMMA SeenIs ==
    ASSUME NEW w \in World, NEW r \in Request
    PROVE  /\ Seen(w, r).admins = w.admins
           /\ \A p, o \in People : InCare(Seen(w, r), p, o) <=> InCare(w, p, o)
<1>1. /\ Seen(w, r).links = w.links /\ Seen(w, r).age = w.age /\ Seen(w, r).majority = w.majority
      /\ Seen(w, r).admins = w.admins /\ Seen(w, r).present = w.present
  BY DEF Seen, World
<1> QED
  BY <1>1 DEF InCare, Minor

\* A request that has just loaded its section sees what is stored, and goes on seeing it.
LEMMA SeenStays ==
    ASSUME NEW w \in World, NEW r \in Request, NEW next \in Request,
           r.pc # "idle", next.pc \notin {"idle", "load"},
           next.kind = r.kind, next.target = r.target,
           r.kind = "sheet" =>
             next.roster = IF r.pc = "load" THEN w.section[r.target].roster ELSE r.roster
    PROVE  Seen(w, next) = Seen(w, r)
<1>1. CASE ~KeepsLoaded \/ r.kind # "sheet"
  BY <1>1 DEF Seen, HoldsSection
<1>2. CASE KeepsLoaded /\ r.kind = "sheet" /\ r.pc # "load"
  BY <1>2 DEF Seen, HoldsSection
<1>3. CASE KeepsLoaded /\ r.kind = "sheet" /\ r.pc = "load"
  <2>1. Seen(w, r) = w /\ Seen(w, next) = [w EXCEPT !.section[r.target].roster = next.roster]
    BY <1>3 DEF Seen, HoldsSection
  <2>2. w.section \in [Sections -> [teacher : People, roster : SUBSET People]] /\ r.target \in Sections
    BY DEF World, Request
  <2>3. [w.section[r.target] EXCEPT !.roster = next.roster] = w.section[r.target]
    BY <1>3, <2>2
  <2>4. [w.section EXCEPT ![r.target].roster = next.roster] = w.section
    BY <2>2, <2>3
  <2> QED
    BY <2>1, <2>4 DEF World
<1> QED BY <1>1, <1>2, <1>3

--------------------------------------------------------------------------------
LEMMA AccessStart == Init => AccessInv
<1> SUFFICES ASSUME Init PROVE AccessInv
  OBVIOUS
<1>1. Someone \in People /\ (CHOOSE s \in Sections : TRUE) \in Sections
  BY AccessAssumption DEF Someone
<1>2. TypeOK
  BY <1>1, AccessAssumption DEF Init, TypeOK, Kinds, Steps
<1>3. InStep /\ HeldSinceAsked /\ WrittenByItsTeacher /\ ShownWasReadable
  BY DEF Init, InStep, HeldSinceAsked, WrittenByItsTeacher, ShownWasReadable, Asking
<1>4. MinorsInReach /\ ClearedInReach
  BY DEF Init, MinorsInReach, ClearedInReach, Asking
<1> QED
  BY <1>2, <1>3, <1>4 DEF AccessInv, Init, Asking

--------------------------------------------------------------------------------
(* The request. *)

LEMMA AskStep ==
    ASSUME AccessInv, NEW kind \in Kinds, NEW p \in People, NEW o \in People, NEW s \in Sections,
           Ask(kind, p, s, o)
    PROVE  AccessInv'
<1>1. /\ req \in Request /\ world \in World /\ TypeOK /\ req.pc = "idle" /\ req.shown = {}
      /\ UNCHANGED <<world, changes>> /\ held' = Reachable(world, kind, p)
      /\ req.relations \subseteq DOMAIN Grants
  BY DEF AccessInv, TypeOK, Request, InStep, Ask
<1>2. /\ req'.kind = kind /\ req'.actor = p /\ req'.target = s /\ req'.owner = o
      /\ req'.admin = (p \in world.admins)
      /\ req'.todo = (IF kind \in {"transcript", "write"} THEN {o} ELSE {})
      /\ req'.pc = CASE kind = "sheet" -> "load" [] kind = "wards" -> "links" [] OTHER -> "teaching"
      /\ req'.wards = req.wards /\ req'.shown = req.shown /\ req'.relations = req.relations
  BY <1>1 DEF Ask, Request
<1>3. /\ kind = "sheet" => req'.pc = "load"
      /\ kind = "wards" => req'.pc = "links"
      /\ kind \in {"transcript", "write"} => req'.pc = "teaching"
  BY <1>2
<1>4. TypeOK'
  <2>1. req' \in Request
    <3>1. /\ (p \in world.admins) \in BOOLEAN
          /\ (IF kind \in {"transcript", "write"} THEN {o} ELSE {}) \in SUBSET People
          /\ (CASE kind = "sheet" -> "load" [] kind = "wards" -> "links" [] OTHER -> "teaching") \in Steps
      BY DEF Steps
    <3> QED
      BY <1>1, <3>1 DEF Ask, Request
  <2>2. Reachable(world, kind, p) \in SUBSET People
    BY DEF Reachable
  <2> QED
    BY <1>1, <2>1, <2>2 DEF TypeOK, Request
<1>5. InStep'
  BY <1>1, <1>2, <1>3 DEF InStep, Asking, Kinds
<1>6. HeldSinceAsked'
  <2>1. ASSUME p \in world.admins, kind \in {"sheet", "transcript"} PROVE Reachable(world, kind, p) = People
    <3>1. \A x \in People : x \in Reachable(world, kind, p)
      BY <2>1, ReachIs
    <3> QED
      BY <3>1 DEF Reachable
  <2>2. Reachable(Seen(world, req), req.kind, req.actor)' = Reachable(world, kind, p)
    <3>1. ~HoldsSection(req)'
      BY <1>2, <1>3 DEF HoldsSection
    <3>2. Seen(world, req)' = world
      BY <1>1, <3>1 DEF Seen
    <3> QED
      BY <1>2, <3>2 DEF Reachable, Relations, InCare, Teaches, Minor
  <2> QED
    BY <1>1, <1>2, <2>1, <2>2 DEF HeldSinceAsked
<1>7. MinorsInReach' /\ ClearedInReach'
  BY <1>1, <1>2, <1>3 DEF MinorsInReach, ClearedInReach, Asking, Kinds, Sought
<1>8. ShownWasReadable' /\ WrittenByItsTeacher'
  BY <1>1, <1>2, <1>3 DEF ShownWasReadable, WrittenByItsTeacher, Kinds
<1>9. ~Asking'
  BY <1>2, <1>3 DEF Asking, Kinds
<1> QED
  BY <1>1, <1>2, <1>4, <1>5, <1>6, <1>7, <1>8, <1>9 DEF AccessInv

\* While a request goes on, its kind and actor stay, and so does what was in reach.
LEMMA GoesStep ==
    ASSUME AccessInv, NEW next \in Request, Goes(next), req.pc # "idle",
           next.kind = req.kind, next.actor = req.actor, next.admin = req.admin,
           next.target = req.target, next.pc \notin {"idle", "load"},
           req.kind = "sheet" =>
             next.roster = IF req.pc = "load" THEN world.section[req.target].roster ELSE req.roster
    PROVE  /\ TypeOK' /\ HeldSinceAsked' /\ Steady' = Steady
           /\ req \in Request /\ world \in World /\ req' = next /\ world' = world /\ held' = held
<1>1. /\ TypeOK /\ req \in Request /\ req' = next /\ UNCHANGED <<world, held, changes>>
  BY DEF AccessInv, TypeOK, Request, Goes
<1>2. TypeOK' /\ Steady' = Steady
  BY <1>1 DEF TypeOK, Request, Steady
<1>3. Reachable(Seen(world, req), req.kind, req.actor)' = Reachable(Seen(world, req), req.kind, req.actor)
  <2>1. Seen(world, next) = Seen(world, req)
    BY <1>1, SeenStays DEF TypeOK
  <2>2. Seen(world, req)' = Seen(world, next)
    BY <1>1 DEF Seen, HoldsSection
  <2> QED
    BY <1>1, <2>1, <2>2 DEF Reachable, Relations, InCare, Teaches, Minor
<1>4. HeldSinceAsked'
  BY <1>1, <1>3 DEF AccessInv, HeldSinceAsked
<1> QED
  BY <1>1, <1>2, <1>4 DEF TypeOK

LEMMA LoadStep == AccessInv /\ LoadSection => AccessInv'
<1> SUFFICES ASSUME AccessInv, LoadSection PROVE AccessInv'
  OBVIOUS
<1> DEFINE section == world.section[req.target]
           next == [req EXCEPT !.teacher = section.teacher, !.roster = section.roster,
                               !.todo = Named(section), !.pc = "teaching"]
<1>1. /\ req \in Request /\ world \in World /\ req.pc = "load" /\ req.kind = "sheet"
  BY DEF AccessInv, TypeOK, Request, InStep, LoadSection
<1>2. /\ section.teacher \in People /\ section.roster \in SUBSET People
      /\ Named(section) \in SUBSET People /\ Named(section) # {}
  <2>1. section \in [teacher : People, roster : SUBSET People]
    BY <1>1 DEF World, Request
  <2> QED BY <2>1 DEF Named
<1>3. Goes(next)
  BY <1>2 DEF LoadSection
<1>4. next \in Request
  BY <1>1, <1>2 DEF Request, Steps
<1>5. /\ next.teacher = section.teacher /\ next.roster = section.roster
      /\ next.todo = Named(section) /\ next.pc = "teaching" /\ next.kind = req.kind
      /\ next.target = req.target /\ next.actor = req.actor /\ next.admin = req.admin
      /\ next.relations = req.relations /\ next.wards = req.wards
      /\ next.shown = req.shown /\ next.owner = req.owner
  BY <1>1 DEF Request
<1> HIDE DEF next
<1>6. /\ TypeOK' /\ HeldSinceAsked' /\ req' = next
  BY <1>1, <1>3, <1>4, <1>5, GoesStep
<1>7. InStep' /\ WrittenByItsTeacher' /\ ShownWasReadable' /\ ~Asking'
  BY <1>1, <1>5, <1>6 DEF AccessInv, InStep, Asking, WrittenByItsTeacher, ShownWasReadable
<1>8. MinorsInReach' /\ ClearedInReach'
  <2>1. Sought' = Named(section)
    BY <1>1, <1>5, <1>6 DEF Sought, Named
  <2> QED
    BY <1>1, <1>5, <1>6, <1>7, <2>1 DEF MinorsInReach, ClearedInReach
<1> QED
  BY <1>5, <1>6, <1>7, <1>8 DEF AccessInv

\* What is at hand when the links are read is enough only for somebody within reach.
LEMMA TeachingStep == AccessInv /\ ReadTeaching => AccessInv'
<1> SUFFICES ASSUME AccessInv, NEW o \in req.todo, req.pc = "teaching",
                    Goes([req EXCEPT !.pc = "links", !.owner = o,
                            !.relations = {r \in DOMAIN Grants :
                                             \/ r = "self" /\ req.actor = o
                                             \/ r = "administrator" /\ req.admin
                                             \/ r = "teacher_of_section"
                                                  /\ Teaches(Seen(world, req), req.actor, o)}])
             PROVE  AccessInv'
  BY DEF ReadTeaching
<1> DEFINE R == {r \in DOMAIN Grants : \/ r = "self" /\ req.actor = o
                                       \/ r = "administrator" /\ req.admin
                                       \/ r = "teacher_of_section"
                                            /\ Teaches(Seen(world, req), req.actor, o)}
           next == [req EXCEPT !.pc = "links", !.owner = o, !.relations = R]
<1>1. /\ req \in Request /\ world \in World /\ o \in People /\ req.kind \in Kinds \ {"wards"}
  BY DEF AccessInv, TypeOK, Request, InStep
<1>2. R \in SUBSET {"self", "administrator", "teacher_of_section", "guardian_of"}
      /\ "guardian_of" \notin R /\ R \in SUBSET DOMAIN Grants
  BY GrantsAre
<1>3. next \in Request
  BY <1>1, <1>2 DEF Request, Steps
<1>4. /\ next.owner = o /\ next.pc = "links" /\ next.relations = R
      /\ next.teacher = req.teacher /\ next.roster = req.roster
      /\ next.todo = req.todo /\ next.kind = req.kind /\ next.actor = req.actor
      /\ next.target = req.target /\ next.admin = req.admin
      /\ next.wards = req.wards /\ next.shown = req.shown
  BY <1>1 DEF Request
<1>5. Allowed(req.kind, R) => o \in held
  <2>1. /\ "self" \in R => req.actor = o
        /\ "administrator" \in R => req.admin
        /\ "teacher_of_section" \in R => Teaches(Seen(world, req), req.actor, o)
    OBVIOUS
  <2>2. HeldSinceAsked
    BY DEF AccessInv
  <2> HIDE DEF R
  <2>3. ASSUME Allowed(req.kind, R)
        PROVE  \/ req.kind # "write" /\ (req.actor = o \/ req.admin)
               \/ req.kind # "transcript" /\ Teaches(Seen(world, req), req.actor, o)
    BY <1>1, <1>2, <2>1, <2>3, AllowedIs
  <2>4. \/ req.kind # "write" /\ req.actor = o
        \/ req.kind # "transcript" /\ Teaches(Seen(world, req), req.actor, o)
        => o \in Reachable(Seen(world, req), req.kind, req.actor)
    BY <1>1, ReachIs
  <2>5. req.kind # "write" => req.kind \in {"sheet", "transcript"}
    BY <1>1 DEF Kinds
  <2> QED
    BY <1>1, <2>2, <2>3, <2>4, <2>5 DEF HeldSinceAsked
<1> HIDE DEF R, next
<1>6. /\ TypeOK' /\ HeldSinceAsked' /\ Steady' = Steady /\ req' = next /\ held' = held
  BY <1>3, <1>4, GoesStep DEF next, R
<1>7. InStep' /\ WrittenByItsTeacher' /\ ShownWasReadable'
  BY <1>1, <1>4, <1>6 DEF AccessInv, InStep, Asking, WrittenByItsTeacher, ShownWasReadable
<1>8. MinorsInReach'
  BY <1>1, <1>4, <1>6 DEF MinorsInReach
<1>9. ASSUME Steady PROVE ClearedInReach'
  <2>1. ClearedInReach
    BY <1>9 DEF AccessInv, Steady
  <2>2. (Sought \ req.todo)' \subseteq held'
    <3>1. Sought \ req.todo \subseteq held
      BY <1>1, <2>1 DEF ClearedInReach
    <3>2. CASE req.kind = "sheet"
      BY <1>4, <1>6, <3>1, <3>2 DEF Sought
    <3>3. CASE req.kind # "sheet"
      BY <1>4, <1>6, <3>3 DEF Sought
    <3> QED BY <3>2, <3>3
  <2> QED
    BY <1>4, <1>5, <1>6, <2>2 DEF ClearedInReach
<1> QED
  BY <1>2, <1>4, <1>6, <1>7, <1>8, <1>9 DEF AccessInv, Steady

\* The policy clears one owner or ends the request.
LEMMA DecidedStep ==
    ASSUME AccessInv, Asking, NEW R \in SUBSET DOMAIN Grants, Goes(Decided(R)),
           Steady /\ Allowed(req.kind, R) => req.owner \in held
    PROVE  AccessInv'
<1> DEFINE left == req.todo \ {req.owner}
<1>1. /\ req \in Request /\ req.kind \in Kinds \ {"wards"} /\ req.owner \in req.todo
      /\ req.pc \in {"links", "ward", "age"} /\ left \in SUBSET People
      /\ req.kind \in {"transcript", "write"} => req.todo \subseteq {req.owner}
      /\ req.relations \subseteq DOMAIN Grants /\ req.shown = {}
  BY DEF AccessInv, TypeOK, Request, InStep, Asking
<1>2. CASE ~Allowed(req.kind, R)
  <2> DEFINE next == [req EXCEPT !.pc = "refused"]
  <2>1. Goes(next) /\ next \in Request
    BY <1>1, <1>2 DEF Decided, Request, Steps
  <2>2. /\ next.pc = "refused" /\ next.teacher = req.teacher /\ next.roster = req.roster
        /\ next.todo = req.todo /\ next.kind = req.kind /\ next.actor = req.actor
        /\ next.owner = req.owner /\ next.relations = req.relations
        /\ next.target = req.target /\ next.admin = req.admin
        /\ next.wards = req.wards /\ next.shown = req.shown
    BY <1>1 DEF Request
  <2> HIDE DEF next
  <2>3. TypeOK' /\ HeldSinceAsked' /\ Steady' = Steady /\ req' = next /\ held' = held
    BY <1>1, <2>1, <2>2, GoesStep
  <2>4. InStep' /\ WrittenByItsTeacher' /\ ShownWasReadable' /\ ~Asking'
    BY <1>1, <2>2, <2>3 DEF AccessInv, InStep, Asking, WrittenByItsTeacher, ShownWasReadable
  <2>5. MinorsInReach'
    BY <1>1, <2>2, <2>3, <2>4 DEF MinorsInReach
  <2>6. Steady => ClearedInReach'
    BY <1>1, <2>2, <2>3, <2>4 DEF AccessInv, ClearedInReach, Sought
  <2> QED
    BY <1>1, <2>2, <2>3, <2>4, <2>5, <2>6 DEF AccessInv
<1>3. CASE Allowed(req.kind, R)
  <2> DEFINE to == IF left = {} THEN "cleared" ELSE "teaching"
             next == [req EXCEPT !.todo = left, !.pc = to]
  <2>1. Goes(next) /\ next \in Request
    BY <1>1, <1>3 DEF Decided, Request, Steps
  <2>2. /\ next.pc = to /\ next.teacher = req.teacher /\ next.roster = req.roster
        /\ next.todo = left /\ next.kind = req.kind /\ next.actor = req.actor
        /\ next.owner = req.owner /\ next.relations = req.relations
        /\ next.target = req.target /\ next.admin = req.admin
        /\ next.wards = req.wards /\ next.shown = req.shown
    BY <1>1 DEF Request
  <2> HIDE DEF next
  <2>3. TypeOK' /\ HeldSinceAsked' /\ Steady' = Steady /\ req' = next /\ held' = held
    BY <1>1, <2>1, <2>2, GoesStep
  <2>4. InStep' /\ WrittenByItsTeacher' /\ ShownWasReadable' /\ ~Asking'
    BY <1>1, <2>2, <2>3 DEF AccessInv, InStep, Asking, WrittenByItsTeacher, ShownWasReadable
  <2>5. MinorsInReach'
    BY <1>1, <2>2, <2>3, <2>4 DEF MinorsInReach
  <2>6. ASSUME Steady PROVE ClearedInReach'
    <3>1. req.owner \in held /\ Sought \ req.todo \subseteq held
      BY <1>1, <1>3, <2>6 DEF AccessInv, ClearedInReach
    <3>2. Sought' = Sought
      BY <2>2, <2>3 DEF Sought
    <3> QED
      BY <2>2, <2>3, <2>4, <3>1, <3>2 DEF ClearedInReach
  <2> QED
    BY <1>1, <2>2, <2>3, <2>4, <2>5, <2>6 DEF AccessInv
<1> QED BY <1>2, <1>3

\* The guard goes on to the next thing it reads about an owner; what it keeps of them is
\* what MinorsInReach says.
LEMMA ReadOnStep ==
    ASSUME AccessInv, Asking, NEW to \in {"ward", "age"}, Goes([req EXCEPT !.pc = to]),
           Steady /\ req.kind # "write" /\ Minor(world, req.owner)
             /\ (to = "ward" => req.owner \in world.present) => req.owner \in held
    PROVE  AccessInv'
<1> DEFINE next == [req EXCEPT !.pc = to]
<1>1. /\ req \in Request /\ req.kind \in Kinds \ {"wards"} /\ req.owner \in req.todo
      /\ req.pc \in {"links", "ward", "age"}
      /\ req.kind \in {"transcript", "write"} => req.todo \subseteq {req.owner}
      /\ req.relations \subseteq DOMAIN Grants /\ req.shown = {} /\ "guardian_of" \notin req.relations
  BY DEF AccessInv, TypeOK, Request, InStep, Asking
<1>2. Goes(next) /\ next \in Request
  BY <1>1 DEF Request, Steps
<1>3. /\ next.pc = to /\ next.teacher = req.teacher /\ next.roster = req.roster
      /\ next.todo = req.todo /\ next.kind = req.kind /\ next.actor = req.actor
      /\ next.owner = req.owner /\ next.relations = req.relations
      /\ next.target = req.target /\ next.admin = req.admin
      /\ next.wards = req.wards /\ next.shown = req.shown
  BY <1>1 DEF Request
<1> HIDE DEF next
<1>4. TypeOK' /\ HeldSinceAsked' /\ Steady' = Steady /\ req' = next /\ held' = held /\ world' = world
  BY <1>1, <1>2, <1>3, GoesStep
<1>5. InStep' /\ WrittenByItsTeacher' /\ ShownWasReadable'
  BY <1>1, <1>3, <1>4 DEF AccessInv, InStep, Asking, WrittenByItsTeacher, ShownWasReadable
<1>6. Steady => MinorsInReach'
  BY <1>1, <1>3, <1>4 DEF MinorsInReach, Minor
<1>7. Steady => ClearedInReach'
  <2>1. Sought' = Sought
    BY <1>3, <1>4 DEF Sought
  <2> QED
    BY <1>1, <1>3, <1>4, <2>1 DEF AccessInv, ClearedInReach, Asking
<1> QED
  BY <1>1, <1>3, <1>4, <1>5, <1>6, <1>7 DEF AccessInv

LEMMA GuardStep == AccessInv /\ (ReadLinks \/ ReadWard \/ ReadAge) => AccessInv'
<1> SUFFICES ASSUME AccessInv, ReadLinks \/ ReadWard \/ ReadAge PROVE AccessInv'
  OBVIOUS
<1>1. /\ Asking /\ req.kind \in Kinds \ {"wards"} /\ req.owner \in People
      /\ req.relations \in SUBSET DOMAIN Grants /\ req.pc # "idle"
      /\ Steady => (Allowed(req.kind, req.relations) => req.owner \in held) /\ MinorsInReach
      /\ HeldSinceAsked /\ req \in Request /\ world \in World /\ req.actor \in People
  <2>1. req \in Request /\ world \in World
    BY DEF AccessInv, TypeOK, Request
  <2>2. req.kind \in Kinds \ {"wards"} /\ req.pc \in {"links", "ward", "age"}
    BY <2>1 DEF AccessInv, InStep, Request, ReadLinks, ReadWard, ReadAge
  <2>3. Asking
    BY <2>2 DEF Asking
  <2> QED
    BY <2>1, <2>2, <2>3 DEF AccessInv, Request, ClearedInReach
<1>2. CASE ReadLinks
  <2>1. CASE req.owner \in Linked
    <3>1. Goes([req EXCEPT !.pc = "ward"])
      BY <1>2, <2>1 DEF ReadLinks
    <3>2. req.kind # "write" /\ Minor(world, req.owner) /\ req.owner \in world.present
            => req.owner \in Reachable(Seen(world, req), req.kind, req.actor)
      <4>1. req.kind # "write" /\ Minor(world, req.owner) /\ req.owner \in world.present
              => req.kind # "write" /\ InCare(Seen(world, req), req.actor, req.owner)
        BY <1>1, <2>1, SeenIs DEF InCare, Linked
      <4> QED
        BY <1>1, <4>1, ReachIs
    <3> QED
      BY <1>1, <3>1, <3>2, ReadOnStep DEF HeldSinceAsked
  <2>2. CASE req.owner \notin Linked
    BY <1>1, <1>2, <2>2, DecidedStep DEF ReadLinks
  <2> QED BY <2>1, <2>2
<1>3. CASE ReadWard
  <2>1. CASE req.owner \in world.present
    <3>1. Goes([req EXCEPT !.pc = "age"]) /\ req.pc = "ward"
      BY <1>3, <2>1 DEF ReadWard
    <3> QED
      BY <1>1, <2>1, <3>1, ReadOnStep DEF MinorsInReach
  <2>2. CASE req.owner \notin world.present
    BY <1>1, <1>3, <2>2, DecidedStep DEF ReadWard
  <2> QED BY <2>1, <2>2
<1>4. CASE ReadAge
  <2> DEFINE R == IF Applies(req.owner) THEN req.relations \cup {"guardian_of"} ELSE req.relations
  <2>1. Goes(Decided(R)) /\ req.pc = "age" /\ R \in SUBSET DOMAIN Grants
    BY <1>1, <1>4, GrantsAre DEF ReadAge
  <2>2. ASSUME Steady, Allowed(req.kind, R) PROVE req.owner \in held
    <3>1. CASE Applies(req.owner) /\ req.kind # "write"
      BY <1>1, <2>1, <2>2, <3>1 DEF MinorsInReach, Applies
    <3>2. CASE Applies(req.owner) /\ req.kind = "write"
      <4>1. Allowed(req.kind, req.relations)
        BY <1>1, <2>1, <2>2, <3>2, AllowedIs, GrantsAre
      <4> QED BY <1>1, <2>2, <4>1
    <3>3. CASE ~Applies(req.owner)
      BY <1>1, <2>2, <3>3
    <3> QED BY <3>1, <3>2, <3>3
  <2> QED
    BY <1>1, <2>1, <2>2, DecidedStep
<1> QED BY <1>2, <1>3, <1>4

\* The actor's wards, from their links to what they are shown.
LEMMA WardsStep == AccessInv /\ (FindWards \/ KeepMinors) => AccessInv'
<1> SUFFICES ASSUME AccessInv, FindWards \/ KeepMinors PROVE AccessInv'
  OBVIOUS
<1> DEFINE to == IF req.pc = "links" THEN "age" ELSE "cleared"
           W == IF req.pc = "links" THEN Linked ELSE {o \in req.wards : Applies(o)}
           next == [req EXCEPT !.wards = W, !.pc = to]
<1>1. /\ req \in Request /\ world \in World /\ req.kind = "wards" /\ req.pc \in {"links", "age"}
      /\ req.relations \subseteq DOMAIN Grants /\ req.shown = {} /\ req.todo = {}
  BY DEF AccessInv, TypeOK, Request, InStep, FindWards, KeepMinors
<1>3. Goes(next) /\ next \in Request
  <2>1. W \in SUBSET People
    BY <1>1 DEF Linked, Request
  <2>2. next \in Request
    BY <1>1, <2>1 DEF Request, Steps
  <2>3. CASE FindWards
    BY <2>2, <2>3 DEF FindWards
  <2>4. CASE KeepMinors
    <3>1. Goes([req EXCEPT !.pc = "cleared", !.wards = {o \in req.wards : Applies(o)}]) /\ req.pc = "age"
      BY <2>4 DEF KeepMinors
    <3>2. next = [req EXCEPT !.pc = "cleared", !.wards = {o \in req.wards : Applies(o)}]
      BY <1>1, <3>1 DEF Request
    <3> QED BY <2>2, <3>1, <3>2
  <2> QED BY <2>3, <2>4
<1>4. /\ next.pc = to /\ next.wards = W /\ next.kind = "wards" /\ next.actor = req.actor
      /\ next.todo = req.todo /\ next.owner = req.owner /\ next.relations = req.relations
      /\ next.target = req.target /\ next.admin = req.admin /\ next.shown = req.shown
  BY <1>1 DEF Request
<1> HIDE DEF next
<1>5. TypeOK' /\ HeldSinceAsked' /\ Steady' = Steady /\ req' = next /\ held' = held /\ world' = world
  BY <1>1, <1>3, <1>4, GoesStep
<1>6. InStep' /\ WrittenByItsTeacher' /\ ShownWasReadable' /\ ~Asking' /\ ClearedInReach'
  BY <1>1, <1>4, <1>5 DEF AccessInv, InStep, Asking, WrittenByItsTeacher, ShownWasReadable,
                          ClearedInReach
<1>7. ASSUME Steady PROVE MinorsInReach'
  <2>1. CASE req.pc = "links"
    <3>1. ASSUME NEW o \in W \cap world.present, Minor(world, o) PROVE o \in held
      <4>1. InCare(world, req.actor, o) /\ o \in People
        BY <2>1, <3>1 DEF InCare, Linked
      <4>2. InCare(Seen(world, req), req.actor, o)
        BY <1>1, <4>1, SeenIs DEF Request
      <4>3. o \in Reachable(Seen(world, req), "wards", req.actor)
        BY <4>1, <4>2, WardsReachIs
      <4> QED
        BY <1>1, <4>3 DEF AccessInv, HeldSinceAsked
    <3> QED
      BY <1>4, <1>5, <1>6, <2>1, <3>1 DEF MinorsInReach, Minor
  <2>2. CASE req.pc = "age"
    <3>1. \A o \in W \cap world.present : o \in held
      BY <1>1, <1>7, <2>2 DEF AccessInv, MinorsInReach, Applies
    <3> QED
      BY <1>4, <1>5, <1>6, <2>2, <3>1 DEF MinorsInReach
  <2> QED BY <1>1, <2>1, <2>2
<1> QED
  BY <1>1, <1>4, <1>5, <1>6, <1>7 DEF AccessInv

LEMMA ShowStep == AccessInv /\ (ShowSheet \/ ShowTranscript \/ ShowWards) => AccessInv'
<1> SUFFICES ASSUME AccessInv, NEW people,
                    \/ req.kind = "sheet" /\ people = req.roster
                    \/ req.kind = "transcript" /\ people = {req.owner}
                    \/ req.kind = "wards" /\ people = req.wards,
                    req.pc = "cleared",
                    Goes([req EXCEPT !.pc = "answered", !.shown = world.present \cap people])
             PROVE  AccessInv'
  BY DEF ShowSheet, ShowTranscript, ShowWards, Show
<1> DEFINE next == [req EXCEPT !.pc = "answered", !.shown = world.present \cap people]
<1>1. /\ req \in Request /\ world \in World /\ req.todo = {} /\ req.relations \subseteq DOMAIN Grants
  BY DEF AccessInv, TypeOK, Request, InStep
<1>2. next \in Request
  BY <1>1 DEF Request, World, Steps
<1>3. /\ next.pc = "answered" /\ next.shown = world.present \cap people /\ next.kind = req.kind
      /\ next.target = req.target /\ next.actor = req.actor /\ next.admin = req.admin
      /\ next.todo = req.todo /\ next.owner = req.owner /\ next.relations = req.relations
      /\ next.wards = req.wards
      /\ next.teacher = req.teacher /\ next.roster = req.roster
  BY <1>1 DEF Request
<1>4. TypeOK' /\ HeldSinceAsked' /\ Steady' = Steady /\ req' = next /\ held' = held
  BY <1>2, <1>3, GoesStep
<1> HIDE DEF next
<1>5. InStep' /\ WrittenByItsTeacher' /\ ~Asking'
  BY <1>1, <1>3, <1>4 DEF AccessInv, InStep, Asking, WrittenByItsTeacher
<1>6. MinorsInReach'
  BY <1>3, <1>4, <1>5 DEF MinorsInReach
<1>7. ASSUME Steady PROVE ClearedInReach' /\ ShownWasReadable'
  <2>1. CASE req.kind = "wards"
    <3>1. world.present \cap people \subseteq held
      BY <1>7, <2>1 DEF AccessInv, MinorsInReach
    <3> QED
      BY <1>3, <1>4, <2>1, <3>1 DEF ClearedInReach, ShownWasReadable
  <2>2. CASE req.kind # "wards"
    <3>1. Sought \subseteq held
      BY <1>1, <1>7, <2>2 DEF AccessInv, ClearedInReach
    <3>2. Sought' = Sought
      BY <1>3, <1>4 DEF Sought
    <3>3. world.present \cap people \subseteq held
      BY <2>2, <3>1 DEF Sought
    <3>4. req.kind = "sheet" => req.teacher \in held
      BY <3>1 DEF Sought
    <3> QED
      BY <1>3, <1>4, <1>5, <3>1, <3>2, <3>3, <3>4 DEF ClearedInReach, ShownWasReadable
  <2> QED BY <2>1, <2>2
<1> QED
  BY <1>1, <1>3, <1>4, <1>5, <1>6, <1>7 DEF AccessInv

\* The use case asks again for the section, and for both people.
LEMMA RecordStep == AccessInv /\ Record => AccessInv'
<1> SUFFICES ASSUME AccessInv, Record PROVE AccessInv'
  OBVIOUS
<1> DEFINE section == world.section[req.target]
           to == IF /\ {req.actor, req.owner} \subseteq world.present
                    /\ section.teacher = req.actor
                    /\ req.owner \in section.roster
                 THEN "answered" ELSE "refused"
           next == [req EXCEPT !.teacher = section.teacher, !.roster = section.roster, !.pc = to]
<1>1. /\ req \in Request /\ world \in World /\ req.pc = "cleared" /\ req.kind = "write"
      /\ req.todo = {} /\ req.shown = {} /\ req.relations \subseteq DOMAIN Grants
  BY DEF AccessInv, TypeOK, Request, InStep, Record
<1>2. section.teacher \in People /\ section.roster \in SUBSET People
  <2>1. section \in [teacher : People, roster : SUBSET People]
    BY <1>1 DEF World, Request
  <2> QED BY <2>1
<1>3. Goes(next) /\ next \in Request /\ to \in {"answered", "refused"}
  BY <1>1, <1>2 DEF Request, Steps, Record
<1>4. /\ next.pc = to /\ next.shown = req.shown /\ next.kind = req.kind
      /\ next.target = req.target /\ next.actor = req.actor /\ next.admin = req.admin
      /\ next.todo = req.todo /\ next.owner = req.owner /\ next.relations = req.relations
      /\ next.teacher = section.teacher /\ next.roster = section.roster
  BY <1>1 DEF Request
<1> HIDE DEF next
<1>5. TypeOK' /\ HeldSinceAsked' /\ Steady' = Steady /\ req' = next /\ held' = held
  BY <1>1, <1>3, <1>4, GoesStep
<1>6. InStep' /\ ShownWasReadable' /\ ~Asking' /\ MinorsInReach'
  BY <1>1, <1>3, <1>4, <1>5 DEF AccessInv, InStep, Asking, ShownWasReadable, MinorsInReach
<1>7. req.owner \in held
  BY <1>1 DEF AccessInv, Steady, ClearedInReach, Sought
<1>8. ClearedInReach' /\ WrittenByItsTeacher'
  BY <1>1, <1>4, <1>5, <1>6, <1>7 DEF ClearedInReach, WrittenByItsTeacher, Sought
<1> QED
  BY <1>1, <1>3, <1>4, <1>5, <1>6, <1>8 DEF AccessInv

--------------------------------------------------------------------------------
(* The world. *)

\* However the world changes, what is in reach afterwards is added to held, nobody comes
\* back, and, unless the age of majority rises, nobody is a minor who was not one.
LEMMA BecomesStep ==
    ASSUME AccessInv, NEW next \in World, Becomes(next),
           next.present \subseteq world.present,
           MajorityMayRise \/ \A o \in People : Minor(next, o) => Minor(world, o)
    PROVE  AccessInv'
<1>1. /\ TypeOK /\ UNCHANGED req /\ world' = next /\ changes' = changes + 1 /\ changes \in Nat
      /\ held' = IF req.pc = "idle" THEN held
                 ELSE held \cup Reachable(Seen(next, req), req.kind, req.actor)
      /\ held \subseteq held' /\ held \in SUBSET People /\ req \in Request
  BY DEF AccessInv, TypeOK, Becomes, Request
<1>2. held' \in SUBSET People
  BY <1>1 DEF Reachable
<1>3. TypeOK'
  BY <1>1, <1>2 DEF TypeOK
<1>4. InStep' /\ WrittenByItsTeacher' /\ (ShownWasReadable => ShownWasReadable')
  BY <1>1 DEF AccessInv, InStep, Asking, WrittenByItsTeacher, ShownWasReadable
<1>5. HeldSinceAsked'
  <2>1. Reachable(Seen(world, req), req.kind, req.actor)' = Reachable(Seen(next, req), req.kind, req.actor)
    <3>1. Seen(world, req)' = Seen(next, req)
      BY <1>1 DEF Seen, HoldsSection
    <3> QED
      BY <1>1, <3>1 DEF Reachable, Relations, InCare, Teaches, Minor
  <2> QED
    BY <1>1, <1>2, <2>1 DEF AccessInv, HeldSinceAsked
<1>6. ASSUME Steady, MinorsInReach PROVE MinorsInReach'
  <2>1. CASE req.kind = "write"
    BY <1>1, <2>1 DEF MinorsInReach, Asking
  <2>2. CASE req.kind # "write"
    <3>1. \A o \in People : Minor(next, o) => Minor(world, o)
      BY <1>6, <2>2 DEF Steady
    <3>2. \A o \in People : (Minor(world, o))' = Minor(next, o)
      BY <1>1 DEF Minor
    <3>3. req.owner \in People /\ req.wards \subseteq People
      BY <1>1 DEF Request
    <3> QED
      BY <1>1, <1>6, <3>1, <3>2, <3>3 DEF MinorsInReach, Asking
  <2> QED BY <2>1, <2>2
<1>7. ClearedInReach => ClearedInReach'
  BY <1>1 DEF ClearedInReach, Sought, Asking
<1>8. (Steady' = Steady) /\ (Asking' = Asking)
  BY <1>1 DEF Steady, Asking
<1> QED
  BY <1>1, <1>3, <1>4, <1>5, <1>6, <1>7, <1>8 DEF AccessInv

LEMMA ChangeStep == AccessInv /\ Change => AccessInv'
<1> SUFFICES ASSUME AccessInv, Change PROVE AccessInv'
  OBVIOUS
<1>1. world \in World /\ MaxAge \in Nat
  BY AccessAssumption DEF AccessInv, TypeOK
<1>2. ASSUME NEW s \in Sections, NEW p \in People, Reassign(s, p) \/ Enroll(s, p) \/ Withdraw(s, p)
      PROVE  AccessInv'
  <2>1. ASSUME NEW next, Becomes(next), NEW new \in [teacher : People, roster : SUBSET People],
               next = [world EXCEPT !.section[s] = new]
        PROVE  AccessInv'
    <3>1. next \in World /\ next.present = world.present /\ next.age = world.age
          /\ next.majority = world.majority
      BY <1>1, <2>1 DEF World
    <3> QED
      BY <2>1, <3>1, BecomesStep DEF Minor
  <2>2. world.section[s] \in [teacher : People, roster : SUBSET People]
    BY <1>1 DEF World
  <2>3. CASE Reassign(s, p)
    <3> DEFINE new == [world.section[s] EXCEPT !.teacher = p]
    <3>1. new \in [teacher : People, roster : SUBSET People]
      BY <2>2
    <3> QED
      BY <1>1, <2>1, <2>3, <3>1 DEF Reassign
  <2>4. CASE Enroll(s, p)
    <3> DEFINE new == [world.section[s] EXCEPT !.roster = @ \cup {p}]
    <3>1. new \in [teacher : People, roster : SUBSET People]
      BY <2>2
    <3> QED
      BY <1>1, <2>1, <2>4, <3>1 DEF Enroll
  <2>5. CASE Withdraw(s, p)
    <3> DEFINE new == [world.section[s] EXCEPT !.roster = @ \ {p}]
    <3>1. new \in [teacher : People, roster : SUBSET People]
      BY <2>2
    <3> QED
      BY <1>1, <2>1, <2>5, <3>1 DEF Withdraw
  <2> QED BY <1>2, <2>3, <2>4, <2>5
<1>3. ASSUME NEW p \in People, NEW o \in People, Link(p, o) \/ Unlink(p, o)
      PROVE  AccessInv'
  <2>1. ASSUME NEW L \in SUBSET (People \X People), Becomes([world EXCEPT !.links = L])
        PROVE  AccessInv'
    <3> DEFINE next == [world EXCEPT !.links = L]
    <3>1. next \in World /\ next.present = world.present /\ next.age = world.age
          /\ next.majority = world.majority
      BY <1>1 DEF World
    <3> HIDE DEF next
    <3> QED
      BY <2>1, <3>1, BecomesStep DEF Minor, next
  <2>2. /\ world.links \cup {<<p, o>>} \in SUBSET (People \X People)
        /\ world.links \ {<<p, o>>} \in SUBSET (People \X People)
    BY <1>1 DEF World
  <2> QED
    BY <1>3, <2>1, <2>2 DEF Link, Unlink
<1>4. ASSUME NEW p \in People, Birthday(p) PROVE AccessInv'
  <2> DEFINE next == [world EXCEPT !.age[p] = @ + 1]
  <2>1. Becomes(next) /\ world.age[p] < MaxAge
    BY <1>4 DEF Birthday
  <2>2. world.age[p] + 1 \in 0..MaxAge /\ world.age \in [People -> 0..MaxAge] /\ world.majority \in 1..MaxAge
    BY <1>1, <2>1 DEF World
  <2>3. next \in World /\ next.present = world.present /\ next.majority = world.majority
        /\ next.age = [world.age EXCEPT ![p] = @ + 1]
    BY <1>1, <2>2 DEF World
  <2>4. \A o \in People : Minor(next, o) => Minor(world, o)
    BY <1>1, <2>2, <2>3 DEF Minor
  <2> HIDE DEF next
  <2> QED
    BY <2>1, <2>3, <2>4, BecomesStep
<1>5. ASSUME NEW p \in People, Remove(p) PROVE AccessInv'
  <2> DEFINE next == [world EXCEPT !.present = @ \ {p}]
  <2>1. next \in World /\ next.present = world.present \ {p} /\ next.age = world.age
        /\ next.majority = world.majority
    BY <1>1 DEF World
  <2> HIDE DEF next
  <2> QED
    BY <1>5, <2>1, BecomesStep DEF Minor, Remove, next
<1>6. ASSUME NEW admins \in SUBSET People, SetRoles(admins) PROVE AccessInv'
  <2> DEFINE next == [world EXCEPT !.admins = admins]
  <2>1. next \in World /\ next.present = world.present /\ next.age = world.age
        /\ next.majority = world.majority
    BY <1>1 DEF World
  <2> HIDE DEF next
  <2> QED
    BY <1>6, <2>1, BecomesStep DEF Minor, SetRoles, next
<1>7. ASSUME NEW n \in 1..MaxAge, SetAgeOfMajority(n) PROVE AccessInv'
  <2> DEFINE next == [world EXCEPT !.majority = n]
  <2>1. next \in World /\ next.present = world.present /\ next.age = world.age /\ next.majority = n
    BY <1>1, <1>7 DEF World
  <2>2. MajorityMayRise \/ \A o \in People : Minor(next, o) => Minor(world, o)
    <3>1. MajorityMayRise \/ n < world.majority
      BY <1>7 DEF SetAgeOfMajority
    <3>2. world.age \in [People -> 0..MaxAge] /\ world.majority \in 1..MaxAge
      BY <1>1 DEF World
    <3> QED
      BY <1>1, <2>1, <3>1, <3>2 DEF Minor
  <2> HIDE DEF next
  <2> QED
    BY <1>7, <2>1, <2>2, BecomesStep DEF SetAgeOfMajority, next
<1> QED
  BY <1>2, <1>3, <1>4, <1>5, <1>6, <1>7 DEF Change

LEMMA AccessStep == AccessInv /\ [Next]_vars => AccessInv'
<1>1. AccessInv /\ UNCHANGED vars => AccessInv'
  <2> SUFFICES ASSUME AccessInv, UNCHANGED vars PROVE AccessInv'
    OBVIOUS
  <2>1. UNCHANGED <<world, req, held, changes>>
    BY DEF vars
  <2>2. Reachable(Seen(world, req), req.kind, req.actor)' = Reachable(Seen(world, req), req.kind, req.actor)
    <3>1. Seen(world, req)' = Seen(world, req)
      BY <2>1 DEF Seen, HoldsSection
    <3> QED
      BY <2>1, <3>1 DEF Reachable, Relations, InCare, Teaches, Minor
  <2>3. HeldSinceAsked'
    BY <2>1, <2>2 DEF AccessInv, HeldSinceAsked
  <2>4. /\ MinorsInReach => MinorsInReach'
        /\ ClearedInReach => ClearedInReach'
        /\ ShownWasReadable => ShownWasReadable'
        /\ InStep' /\ WrittenByItsTeacher' /\ TypeOK'
    BY <2>1 DEF AccessInv, MinorsInReach, Minor, ClearedInReach, Sought, Asking, ShownWasReadable,
                InStep, WrittenByItsTeacher, TypeOK
  <2> QED
    BY <2>1, <2>3, <2>4 DEF AccessInv, Asking, Steady
<1> QED
  BY <1>1, AskStep, LoadStep, TeachingStep, GuardStep, WardsStep, ShowStep, RecordStep, ChangeStep
     DEF Next, Proceed

--------------------------------------------------------------------------------
\* The inductive invariant holds of every run, for any people, sections and worlds.
THEOREM AccessInvariant == Spec => []AccessInv
  BY AccessStart, AccessStep, PTL DEF Spec

\* Nobody is shown what they could not reach at one instant since they asked, as long as
\* nobody becomes a minor again.
THEOREM ShownIsReadable ==
    ASSUME ~MajorityMayRise
    PROVE  Spec => []ShownWasReadable
<1>1. AccessInv => ShownWasReadable
  BY DEF AccessInv, Steady
<1> QED
  BY <1>1, AccessInvariant, PTL

\* Whoever writes a grade taught its student since they asked, and found themselves the
\* teacher of its section; whatever becomes of the age of majority.
THEOREM TeachersWrite == Spec => []WrittenByItsTeacher
<1>1. AccessInv => WrittenByItsTeacher
  BY DEF AccessInv
<1> QED
  BY <1>1, AccessInvariant, PTL
================================================================================
