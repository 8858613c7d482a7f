-------------------------------- MODULE Registry -------------------------------
(* The people table under the commands that write it: the two seeds, and whoever *)
(* saves a person.  Uniqueness is looked up first and enforced by the database  *)
(* last, with other processes in between.  The database is external: a read     *)
(* sees what is committed and what its own transaction wrote, and a write waits *)
(* for an uncommitted one that it collides with.                                *)
EXTENDS Naturals, Sequences, SequencesExt

CONSTANTS
    Runs,       \* processes, each of which runs one command once
    Demo,       \* the rows of the demo data, in the order they are added
    Bootstrap,  \* the identity every first administrator gets
    Emails,
    NoEmail     \* what the section among the demo rows has

Row == [id : {r.id : r \in ToSet(Demo)} \cup {Bootstrap}, email : Emails \cup {NoEmail}]

ASSUME RegistryAssumption ==
    /\ NoEmail \notin Emails
    /\ Demo \in Seq(Row) /\ Demo # <<>>
    /\ \A r \in ToSet(Demo) : r.id # Bootstrap

VARIABLES
    db,   \* the committed rows
    run   \* every command: what it is, how far it is, its uncommitted rows, how it ended

vars == <<db, run>>

DemoIds == {r.id : r \in ToSet(Demo)}
Ids(rows) == {r.id : r \in rows}
Ended == {"seeded", "present", "refused", "crashed", "killed"}

Command == [kind : {"demo", "bootstrap", "save"},
            pc : {"idle", "look", "email", "id", "write", "commit"} \cup Ended,
            todo : Seq(Row), mine : SUBSET Row, again : BOOLEAN]

\* The variables' types.
TypeOK == db \subseteq Row /\ run \in [Runs -> Command]

Init ==
    /\ db = {}
    /\ run = [p \in Runs |-> [kind |-> "save", pc |-> "idle", todo |-> <<>>,
                              mine |-> {}, again |-> FALSE]]

--------------------------------------------------------------------------------
(* The commands. *)

Set(p, r) == run' = [run EXCEPT ![p] = r] /\ UNCHANGED db
Ends(p, how) == Set(p, [run[p] EXCEPT !.pc = how, !.mine = {}, !.todo = <<>>])
At(p, pc) == Set(p, [run[p] EXCEPT !.pc = pc])

\* what a transaction reads: its own rows over the committed ones
View(p) == run[p].mine \cup {r \in db : r.id \notin Ids(run[p].mine)}
Item(p) == Head(run[p].todo)

\* fault: the demo people are a set, which every process goes through in an order of its own
AnyOrder(p) == IF p = CHOOSE q \in Runs : TRUE THEN Reverse(Demo) ELSE Demo

\* DEMO_PEOPLE is a tuple, and the section comes last
InOrder(p) == Demo

Begin(p, kind, rows) ==
    /\ run[p].pc = "idle"
    /\ Set(p, [run[p] EXCEPT !.kind = kind, !.pc = "look", !.todo = rows,
                             !.again = DemoIds \subseteq Ids(db)])

SeedDemo(p) == Begin(p, "demo", InOrder(p))
SeedBootstrap(p, email) == Begin(p, "bootstrap", <<[id |-> Bootstrap, email |-> email]>>)

\* somebody's new address, saved by whatever use case changes one
SavePerson(p, row) ==
    /\ row.email # NoEmail
    /\ \A r \in ToSet(Demo) : r.id = row.id => r.email # NoEmail
    /\ Begin(p, "save", <<row>>)

\* a seed looks for the address it is about; a save for the person.  A change to a person the
\* session already has is written first of all, since the session flushes it before it looks
\* for the address, and then finds the person's own row only.
Look(p) ==
    /\ run[p].pc = "look"
    /\ CASE run[p].kind = "demo" ->
              IF \E r \in View(p) : r.email = Demo[1].email THEN Ends(p, "present") ELSE At(p, "email")
         [] run[p].kind = "bootstrap" ->
              IF \E r \in View(p) : r.email = Item(p).email THEN Ends(p, "present") ELSE At(p, "email")
         [] run[p].kind = "save" ->
              IF Item(p).id \in Ids(View(p)) THEN At(p, "email") \/ At(p, "write")
                                             ELSE Ends(p, "refused")

\* _require_email_unused, which a section has no part in
CheckEmail(p) ==
    /\ run[p].pc = "email"
    /\ IF Item(p).email # NoEmail
          /\ \E r \in View(p) : r.email = Item(p).email /\ r.id # Item(p).id
       THEN Ends(p, "refused")
       ELSE At(p, "id")

\* fault: an identity that is taken is left to the database
CheckNoId(p) == run[p].pc = "id" /\ At(p, "write")

\* add: not there yet; save: there
CheckId(p) ==
    /\ run[p].pc = "id"
    /\ IF (Item(p).id \in Ids(View(p))) <=> (run[p].kind = "save")
       THEN At(p, "write")
       ELSE Ends(p, "refused")

\* fault: only the identity is unique in the database
SameIdOnly(a, b) == a.id = b.id

\* the table's two unique constraints
Same(a, b) == a.id = b.id \/ (a.email = b.email /\ a.email # NoEmail)

\* the committed rows a write of p may not go in beside
Collides(p) == {r \in db : /\ Same(r, Item(p))
                           /\ ~(run[p].kind = "save" /\ r.id = Item(p).id)}

\* a collision with what another transaction wrote, or wrote over, has to wait for it
WaitsFor(p, q) ==
    /\ p # q
    /\ run[p].pc = "write"
    /\ \/ \E r \in run[q].mine : Same(r, Item(p))
       \/ \E r \in Collides(p) : r.id \in Ids(run[q].mine)

\* fault: adding what is there already replaces it
WriteOver(p) ==
    /\ run[p].pc = "write"
    /\ ~\E q \in Runs : WaitsFor(p, q)
    /\ Set(p, [run[p] EXCEPT !.mine = @ \cup {Item(p)}, !.todo = Tail(@),
                             !.pc = IF Len(run[p].todo) = 1 THEN "commit" ELSE "email"])

\* fault: each row is committed as it is added
WriteAndCommit(p) ==
    /\ run[p].pc = "write"
    /\ ~\E q \in Runs : WaitsFor(p, q)
    /\ IF Collides(p) # {} THEN Ends(p, "crashed")
       ELSE /\ db' = View(p) \cup {Item(p)}
            /\ run' = [run EXCEPT ![p].todo = Tail(@),
                                  ![p].pc = IF Len(run[p].todo) = 1 THEN "commit" ELSE "email"]

\* the flush; an IntegrityError is no ConflictError, and escapes the command
Write(p) ==
    /\ run[p].pc = "write"
    /\ ~\E q \in Runs : WaitsFor(p, q)
    /\ IF Collides(p) # {} THEN Ends(p, "crashed")
       ELSE Set(p, [run[p] EXCEPT !.mine = @ \cup {Item(p)}, !.todo = Tail(@),
                                  !.pc = IF Len(run[p].todo) = 1 THEN "commit" ELSE "email"])

Commit(p) ==
    /\ run[p].pc = "commit"
    /\ db' = View(p)
    /\ run' = [run EXCEPT ![p].pc = "seeded", ![p].mine = {}]

\* a process that is stopped takes its transaction with it
Kill(p) == run[p].pc \notin Ended \cup {"idle"} /\ Ends(p, "killed")

Next ==
    \E p \in Runs :
        \/ SeedDemo(p)
        \/ \E e \in Emails : SeedBootstrap(p, e)
        \/ \E row \in Row : SavePerson(p, row)
        \/ Look(p) \/ CheckEmail(p) \/ CheckId(p) \/ Write(p) \/ Commit(p) \/ Kill(p)

Spec == Init /\ [][Next]_vars

--------------------------------------------------------------------------------
(* Properties. *)

\* seeding.py: the demo people and their section are there together or not at all, whoever
\* else seeds, and wherever a run stops or is refused.
DemoIsWhole == DemoIds \subseteq Ids(db) \/ DemoIds \cap Ids(db) = {}

\* seed_demo: run again, it "changes nothing", and says so or is refused, even when the
\* address it looks for was changed since.
DemoAgainIsQuiet ==
    \A p \in Runs : run[p].kind = "demo" /\ run[p].again => run[p].pc \notin {"seeded", "crashed"}

\* repositories.py, tables.py: an address belongs to one person, and a person has one, when two
\* transactions both found it free.
OneAddressOnePerson ==
    \A a, b \in db : a.id = b.id \/ (a.email = b.email /\ a.email # NoEmail) => a = b

\* seed_bootstrap: one of the runs at most makes the first administrator.
OneFirstAdministrator ==
    \A p, q \in Runs : /\ run[p].kind = "bootstrap" /\ run[p].pc = "seeded"
                       /\ run[q].kind = "bootstrap" /\ run[q].pc = "seeded"
                       => p = q

\* seeding.py, DEMO_PEOPLE: no commands wait for one another's rows for ever.
NobodyWaitsInCircles ==
    ~\E S \in (SUBSET Runs) \ {{}} : \A p \in S : \E q \in S : WaitsFor(p, q)

--------------------------------------------------------------------------------
(* Every state reached. *)

Asking == {"look", "email", "id", "write"}

\* what a command has written and what it has yet to write: the demo data from its first row
\* on, the others one row each
Progress(r) ==
    /\ r.pc \in Asking <=> r.todo # <<>>
    /\ r.pc \notin Asking \cup {"commit"} => r.mine = {}
    /\ r.pc \in Asking \cup {"commit"} =>
         /\ r.kind = "demo" =>
              /\ r.mine \cup ToSet(r.todo) = ToSet(Demo)
              /\ IF r.mine = {} THEN r.todo = Demo ELSE Demo[1] \in r.mine
         /\ r.kind # "demo" => IF r.pc = "commit" THEN r.mine # {}
                               ELSE r.mine = {} /\ Len(r.todo) = 1
         /\ r.kind = "bootstrap" => \A b \in r.mine \cup ToSet(r.todo) : b.id = Bootstrap

\* what a command has found out of the rows, and still holds of them
Found(r, rows) ==
    /\ r.again => DemoIds \subseteq Ids(rows)
    /\ r.kind = "demo" /\ r.again => r.pc \notin {"write", "commit", "seeded", "crashed"}
    /\ r.kind = "bootstrap" /\ r.pc = "seeded" => Bootstrap \in Ids(rows)
    /\ r.kind = "save" /\ r.pc \in {"email", "id", "write", "commit"} =>
         \A b \in r.mine \cup ToSet(r.todo) : b.id \in Ids(rows)
    /\ r.pc \in {"id", "write"} =>
         \A b \in r.mine : b.id # Head(r.todo).id => ~Same(b, Head(r.todo))
    /\ r.pc = "write" /\ r.kind # "save" => Head(r.todo).id \notin Ids(r.mine)

\* the rows of a transaction are apart from one another, and from the rows they are not
\* written over
Apart(r, rows) ==
    /\ \A a, b \in r.mine : Same(a, b) => a = b
    /\ \A a \in r.mine, b \in rows : Same(a, b) => r.kind = "save" /\ b.id \in Ids(r.mine)

\* Every state reached: what each command knows, and that no two of them, and no two
\* committed rows, have one identity or one address.
RegistryInv ==
    /\ TypeOK
    /\ \A p \in Runs : Progress(run[p]) /\ Found(run[p], db) /\ Apart(run[p], db)
    /\ \A p, q \in Runs : p # q => \A a \in run[p].mine, b \in run[q].mine : ~Same(a, b)
    /\ OneAddressOnePerson
    /\ DemoIsWhole
    /\ OneFirstAdministrator
================================================================================
