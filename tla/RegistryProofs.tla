----------------------------- MODULE RegistryProofs ----------------------------
(* Theorems about what is stored of people and of everything else.  Registry:     *)
(* RegistryInv is inductive, for any commands, rows and addresses.  Columns and    *)
(* Repositories: what is read is what was written, a listing does not depend on   *)
(* the backend's own order of rows, and the two backends answer alike, but for     *)
(* one tie.                                                                        *)
EXTENDS Registry, Repositories, TLAPS

--------------------------------------------------------------------------------
(* The rows. *)

\* A command's next row, and those after it.
LEMMA NextRow ==
    ASSUME NEW s \in Seq(Row), s # <<>>
    PROVE  /\ Head(s) \in Row /\ Tail(s) \in Seq(Row)
           /\ ToSet(s) = {Head(s)} \cup ToSet(Tail(s))
           /\ Tail(s) = <<>> <=> Len(s) = 1
<1>1. Len(s) \in Nat /\ Len(s) > 0 /\ DOMAIN s = 1..Len(s)
  OBVIOUS
<1>2. Head(s) = s[1] /\ Head(s) \in Row /\ Tail(s) \in Seq(Row) /\ Len(Tail(s)) = Len(s) - 1
  BY <1>1
<1>3. DOMAIN Tail(s) = 1..Len(s) - 1 /\ \A i \in 1..Len(s) - 1 : Tail(s)[i] = s[i + 1]
  BY <1>1, <1>2
<1>4. ASSUME NEW x \in ToSet(s)
      PROVE  x \in {Head(s)} \cup ToSet(Tail(s))
  <2>1. PICK i \in 1..Len(s) : x = s[i]
    BY <1>1 DEF ToSet
  <2>2. CASE i = 1
    BY <1>2, <2>1, <2>2
  <2>3. CASE i # 1
    <3>1. i - 1 \in 1..Len(s) - 1 /\ Tail(s)[i - 1] = x
      BY <1>1, <1>3, <2>1, <2>3
    <3> QED BY <1>3, <3>1 DEF ToSet
  <2> QED BY <2>2, <2>3
<1>5. ASSUME NEW x \in {Head(s)} \cup ToSet(Tail(s))
      PROVE  x \in ToSet(s)
  <2>1. CASE x = Head(s)
    BY <1>1, <1>2, <2>1 DEF ToSet
  <2>2. CASE x \in ToSet(Tail(s))
    <3>1. PICK i \in 1..Len(s) - 1 : x = s[i + 1]
      BY <1>3, <2>2 DEF ToSet
    <3> QED BY <1>1, <3>1 DEF ToSet
  <2> QED BY <2>1, <2>2
<1>6. Tail(s) = <<>> <=> Len(s) = 1
  <2> DEFINE t == Tail(s)
  <2>1. t \in Seq(Row) /\ Len(t) = Len(s) - 1
    BY <1>2
  <2> HIDE DEF t
  <2>2. t = <<>> <=> Len(t) = 0
    <3>1. Len(<<>>) = 0
      OBVIOUS
    <3>2. t = <<>> => Len(t) = 0
      BY <3>1, Zenon
    <3>3. Len(t) = 0 => t = <<>>
      BY <2>1
    <3> QED BY <3>2, <3>3
  <2>3. t = <<>> <=> Len(s) = 1
    BY <1>1, <2>1, <2>2
  <2> QED BY <2>3 DEF t
<1> QED
  BY <1>2, <1>4, <1>5, <1>6

LEMMA NoRow == ToSet(<<>>) = {} /\ <<>> \in Seq(Row)
  BY DEF ToSet

LEMMA DemoRows ==
    /\ ToSet(Demo) \subseteq Row /\ Head(Demo) = Demo[1] /\ Demo[1] \in ToSet(Demo)
    /\ DemoIds = Ids(ToSet(Demo)) /\ Bootstrap \notin DemoIds
<1>1. Demo \in Seq(Row) /\ Demo # <<>>
  BY RegistryAssumption
<1>2. 1 \in DOMAIN Demo /\ Head(Demo) = Demo[1]
  BY <1>1
<1>3. ToSet(Demo) \subseteq Row /\ Demo[1] \in ToSet(Demo)
  BY <1>1, <1>2 DEF ToSet
<1>4. DemoIds = Ids(ToSet(Demo))
  BY DEF DemoIds, Ids
<1>5. Bootstrap \notin DemoIds
  BY RegistryAssumption DEF DemoIds
<1> QED
  BY <1>2, <1>3, <1>4, <1>5

\* What a transaction sees has the committed identities, and its own.
LEMMA ViewIds ==
    ASSUME NEW p \in Runs
    PROVE  Ids(View(p)) = Ids(db) \cup Ids(run[p].mine)
  BY DEF View, Ids

--------------------------------------------------------------------------------
(* A step of one command that commits nothing. *)

LEMMA OneMoves ==
    ASSUME RegistryInv, NEW p \in Runs, NEW r \in Command, Set(p, r),
           Progress(r), Found(r, db), Apart(r, db), r.pc # "seeded",
           \A q \in Runs \ {p} : \A a \in r.mine, b \in run[q].mine : ~Same(a, b)
    PROVE  RegistryInv'
<1>1. /\ db' = db /\ run'[p] = r /\ \A q \in Runs \ {p} : run'[q] = run[q]
      /\ run' \in [Runs -> Command]
  BY DEF Set, RegistryInv, TypeOK
<1>2. TypeOK'
  BY <1>1 DEF RegistryInv, TypeOK
<1>3. \A q \in Runs : Progress(run'[q]) /\ Found(run'[q], db') /\ Apart(run'[q], db')
  BY <1>1 DEF RegistryInv
<1>4. \A a, b : Same(a, b) <=> Same(b, a)
  BY DEF Same
<1>5. \A q, s \in Runs : q # s => \A a \in run'[q].mine, b \in run'[s].mine : ~Same(a, b)
  BY <1>1, <1>4 DEF RegistryInv
<1>6. OneAddressOnePerson' /\ DemoIsWhole'
  BY <1>1 DEF RegistryInv, OneAddressOnePerson, DemoIsWhole, DemoIds, Ids
<1>7. OneFirstAdministrator'
  BY <1>1 DEF RegistryInv, OneFirstAdministrator
<1> QED
  BY <1>2, <1>3, <1>5, <1>6, <1>7 DEF RegistryInv

\* A command that ends without committing leaves nothing.
LEMMA EndKeeps ==
    ASSUME RegistryInv, NEW p \in Runs, NEW how \in {"present", "refused", "crashed", "killed"},
           Ends(p, how), run[p].kind = "demo" /\ run[p].again => how # "crashed"
    PROVE  RegistryInv'
<1> DEFINE r == [run[p] EXCEPT !.pc = how, !.mine = {}, !.todo = <<>>]
<1>1. run[p] \in Command /\ Found(run[p], db)
  BY DEF RegistryInv, TypeOK
<1>2. /\ r \in Command /\ r.pc = how /\ r.mine = {} /\ r.todo = <<>>
      /\ r.kind = run[p].kind /\ r.again = run[p].again
  BY <1>1, NoRow DEF Command, Ended
<1>3. Set(p, r)
  BY DEF Ends
<1> HIDE DEF r
<1>4. Progress(r)
  BY <1>2 DEF Progress, Asking
<1>5. Found(r, db)
  BY <1>1, <1>2 DEF Found
<1>6. Apart(r, db)
  BY <1>2 DEF Apart
<1> QED
  BY <1>2, <1>3, <1>4, <1>5, <1>6, OneMoves

\* A command that has looked something up goes on with what it found.
LEMMA GoOnKeeps ==
    ASSUME RegistryInv, NEW p \in Runs, NEW pc \in {"email", "id", "write"}, At(p, pc),
           run[p].pc \in {"look", "email", "id"},
           run[p].kind = "demo" /\ run[p].again => pc # "write",
           run[p].kind = "save" => Item(p).id \in Ids(db),
           pc \in {"id", "write"} =>
             \A b \in run[p].mine : b.id # Item(p).id => ~Same(b, Item(p)),
           pc = "write" /\ run[p].kind # "save" => Item(p).id \notin Ids(run[p].mine)
    PROVE  RegistryInv'
<1> DEFINE r == [run[p] EXCEPT !.pc = pc]
<1>1. /\ run[p] \in Command /\ Found(run[p], db) /\ Progress(run[p]) /\ Apart(run[p], db)
      /\ \A q \in Runs \ {p} : \A a \in run[p].mine, b \in run[q].mine : ~Same(a, b)
  BY DEF RegistryInv, TypeOK
<1>2. /\ r \in Command /\ r.pc = pc /\ r.mine = run[p].mine /\ r.todo = run[p].todo
      /\ r.kind = run[p].kind /\ r.again = run[p].again
  BY <1>1 DEF Command
<1>3. Set(p, r)
  BY DEF At
<1>4. run[p].todo \in Seq(Row)
  BY <1>1 DEF Command
<1> HIDE DEF r
<1>5. Progress(r)
  BY <1>1, <1>2 DEF Progress, Asking
<1>6. Found(r, db)
  <2>1. ASSUME r.kind = "save" PROVE \A b \in r.mine \cup ToSet(r.todo) : b.id \in Ids(db)
    <3>1. r.mine = {} /\ r.todo # <<>> /\ Len(r.todo) = 1
      BY <1>2, <1>1, <2>1 DEF Progress, Asking
    <3>2. ToSet(r.todo) = {Head(r.todo)}
      BY <1>2, <1>4, <3>1, NextRow, NoRow
    <3> QED BY <1>2, <2>1, <3>1, <3>2 DEF Item
  <2> QED BY <1>1, <1>2, <2>1 DEF Found, Item
<1>7. Apart(r, db)
  BY <1>1, <1>2 DEF Apart
<1> QED
  BY <1>1, <1>2, <1>3, <1>5, <1>6, <1>7, OneMoves

--------------------------------------------------------------------------------
(* The inductive invariant. *)

LEMMA RegistryStart == Init => RegistryInv
<1> SUFFICES ASSUME Init PROVE RegistryInv
  OBVIOUS
<1>1. TypeOK
  BY NoRow DEF Init, TypeOK, Command
<1>2. \A p \in Runs : Progress(run[p]) /\ Found(run[p], db) /\ Apart(run[p], db)
  BY DEF Init, Progress, Found, Apart, Asking
<1>3. OneAddressOnePerson /\ DemoIsWhole /\ OneFirstAdministrator
  BY DEF Init, OneAddressOnePerson, DemoIsWhole, OneFirstAdministrator, Ids
<1> QED
  BY <1>1, <1>2, <1>3 DEF RegistryInv, Init

\* A command begins with its rows, and remembers whether the demo data was there.
LEMMA BeginKeeps ==
    ASSUME RegistryInv, NEW p \in Runs, NEW kind \in {"demo", "bootstrap", "save"},
           NEW rows \in Seq(Row), Begin(p, kind, rows), rows # <<>>,
           kind = "demo" => rows = Demo,
           kind # "demo" => Len(rows) = 1,
           kind = "bootstrap" => Head(rows).id = Bootstrap
    PROVE  RegistryInv'
<1> DEFINE r == [run[p] EXCEPT !.kind = kind, !.pc = "look", !.todo = rows,
                               !.again = DemoIds \subseteq Ids(db)]
<1>1. /\ run[p] \in Command /\ run[p].pc = "idle" /\ run[p].mine = {}
  BY DEF RegistryInv, TypeOK, Begin, Progress, Asking
<1>2. (DemoIds \subseteq Ids(db)) \in BOOLEAN
  OBVIOUS
<1>3. /\ r.pc = "look" /\ r.mine = {} /\ r.todo = rows /\ r.kind = kind
      /\ r.again <=> DemoIds \subseteq Ids(db)
  BY <1>1 DEF Command
<1>4. r \in Command
  <2>1. ASSUME NEW b \in BOOLEAN
        PROVE  [run[p] EXCEPT !.kind = kind, !.pc = "look", !.todo = rows, !.again = b] \in Command
    BY <1>1 DEF Command
  <2> QED BY <1>2, <2>1, Zenon
<1>5. Set(p, r)
  BY DEF Begin
<1> HIDE DEF r
<1>6. ToSet(rows) = {Head(rows)} \/ kind = "demo"
  BY NextRow, NoRow
<1>7. Progress(r)
  BY <1>3, <1>6, Zenon DEF Progress, Asking
<1>8. Found(r, db)
  BY <1>3 DEF Found
<1>9. Apart(r, db)
  BY <1>3 DEF Apart
<1> QED
  BY <1>3, <1>4, <1>5, <1>7, <1>8, <1>9, OneMoves

LEMMA BeginSteps ==
    ASSUME RegistryInv, NEW p \in Runs,
           \/ SeedDemo(p)
           \/ \E e \in Emails : SeedBootstrap(p, e)
           \/ \E row \in Row : SavePerson(p, row)
    PROVE  RegistryInv'
<1>1. CASE SeedDemo(p)
  <2>1. Demo \in Seq(Row) /\ Demo # <<>> /\ Begin(p, "demo", Demo)
    BY <1>1, RegistryAssumption DEF SeedDemo, InOrder
  <2> QED BY <2>1, BeginKeeps
<1>2. CASE \E e \in Emails : SeedBootstrap(p, e)
  <2>1. PICK e \in Emails : SeedBootstrap(p, e)
    BY <1>2
  <2>2. [id |-> Bootstrap, email |-> e] \in Row
    BY DEF Row
  <2>3. /\ <<[id |-> Bootstrap, email |-> e]>> \in Seq(Row)
        /\ <<[id |-> Bootstrap, email |-> e]>> # <<>>
        /\ Len(<<[id |-> Bootstrap, email |-> e]>>) = 1
        /\ Head(<<[id |-> Bootstrap, email |-> e]>>).id = Bootstrap
    BY <2>2
  <2> QED BY <2>1, <2>3, BeginKeeps DEF SeedBootstrap
<1>3. CASE \E row \in Row : SavePerson(p, row)
  <2>1. PICK row \in Row : SavePerson(p, row)
    BY <1>3
  <2>2. <<row>> \in Seq(Row) /\ <<row>> # <<>> /\ Len(<<row>>) = 1
    OBVIOUS
  <2>3. Begin(p, "save", <<row>>)
    BY <2>1 DEF SavePerson
  <2> QED BY <2>2, <2>3, BeginKeeps
<1> QED
  BY <1>1, <1>2, <1>3

\* The look before the work: a save finds its person, or is refused.
LEMMA LookKeeps ==
    ASSUME RegistryInv, NEW p \in Runs, Look(p)
    PROVE  RegistryInv'
<1>1. /\ run[p] \in Command /\ run[p].pc = "look" /\ Progress(run[p])
  BY DEF RegistryInv, TypeOK, Look
<1>2. \/ Ends(p, "present") \/ Ends(p, "refused") \/ At(p, "email")
      \/ run[p].kind = "save" /\ At(p, "write")
  BY <1>1 DEF Look, Command
<1>3. ASSUME run[p].kind = "save", At(p, "email") \/ At(p, "write") PROVE Item(p).id \in Ids(db)
  <2>1. run[p].mine = {}
    BY <1>1, <1>3 DEF Progress, Asking
  <2>2. Item(p).id \in Ids(View(p)) \/ Ends(p, "refused")
    BY <1>1, <1>3 DEF Look
  <2>3. ~Ends(p, "refused")
    <3>1. run'[p].pc \in {"email", "write"}
      BY <1>1, <1>3 DEF At, Set, RegistryInv, TypeOK, Command
    <3>2. ASSUME Ends(p, "refused") PROVE run'[p].pc = "refused"
      BY <1>1, <3>2 DEF Ends, Set, RegistryInv, TypeOK, Command
    <3> QED BY <3>1, <3>2
  <2> QED BY <2>1, <2>2, <2>3, ViewIds DEF Ids
<1>4. CASE At(p, "email")
  BY <1>1, <1>3, <1>4, GoOnKeeps
<1>5. CASE run[p].kind = "save" /\ At(p, "write")
  <2>1. run[p].mine = {} /\ Item(p).id \in Ids(db)
    BY <1>1, <1>3, <1>5 DEF Progress, Asking
  <2> QED
    BY <1>1, <1>5, <2>1, GoOnKeeps
<1> QED
  BY <1>2, <1>4, <1>5, EndKeeps

\* The address is looked up among what the transaction sees, its own rows included.
LEMMA CheckEmailKeeps ==
    ASSUME RegistryInv, NEW p \in Runs, CheckEmail(p)
    PROVE  RegistryInv'
<1>1. /\ run[p] \in Command /\ run[p].pc = "email"
      /\ Progress(run[p]) /\ Found(run[p], db)
  BY DEF RegistryInv, TypeOK, CheckEmail
<1>2. CASE Ends(p, "refused")
  BY <1>2, EndKeeps
<1>3. CASE /\ At(p, "id")
           /\ ~(Item(p).email # NoEmail /\ \E b \in View(p) : b.email = Item(p).email
                                                              /\ b.id # Item(p).id)
  <2>1. \A b \in run[p].mine : b.id # Item(p).id => ~Same(b, Item(p))
    BY <1>3 DEF Same, View
  <2>2. run[p].kind = "save" => Item(p).id \in Ids(db)
    <3>1. run[p].todo \in Seq(Row) /\ run[p].todo # <<>>
      BY <1>1 DEF Command, Progress, Asking
    <3>2. Item(p) \in ToSet(run[p].todo)
      BY <3>1, NextRow DEF Item
    <3> QED BY <1>1, <3>2 DEF Found
  <2> QED BY <1>1, <1>3, <2>1, <2>2, GoOnKeeps
<1> QED
  BY <1>2, <1>3 DEF CheckEmail

\* The identity is looked up next: an addition finds it free, the demo data once more does not.
LEMMA CheckIdKeeps ==
    ASSUME RegistryInv, NEW p \in Runs, CheckId(p)
    PROVE  RegistryInv'
<1>1. /\ run[p] \in Command /\ run[p].pc = "id"
      /\ Progress(run[p]) /\ Found(run[p], db)
  BY DEF RegistryInv, TypeOK, CheckId
<1>2. CASE Ends(p, "refused")
  BY <1>2, EndKeeps
<1>3. CASE At(p, "write") /\ (Item(p).id \in Ids(View(p)) <=> run[p].kind = "save")
  <2>1. run[p].todo \in Seq(Row) /\ run[p].todo # <<>>
    BY <1>1 DEF Command, Progress, Asking
  <2>2. Item(p) \in ToSet(run[p].todo)
    BY <2>1, NextRow DEF Item
  <2>3. run[p].kind = "save" => Item(p).id \in Ids(db)
    BY <1>1, <2>2 DEF Found
  <2>4. run[p].kind # "save" => Item(p).id \notin Ids(db) /\ Item(p).id \notin Ids(run[p].mine)
    BY <1>3, ViewIds
  <2>5. ~(run[p].kind = "demo" /\ run[p].again)
    <3> SUFFICES ASSUME run[p].kind = "demo", run[p].again PROVE FALSE
      OBVIOUS
    <3>1. Item(p) \in ToSet(Demo)
      BY <1>1, <2>2 DEF Progress, Asking
    <3>2. Item(p).id \in DemoIds
      BY <3>1, DemoRows DEF Ids
    <3> QED BY <1>1, <2>4, <3>2 DEF Found
  <2>6. \A b \in run[p].mine : b.id # Item(p).id => ~Same(b, Item(p))
    BY <1>1 DEF Found, Item
  <2> QED BY <1>1, <1>3, <2>3, <2>4, <2>5, <2>6, GoOnKeeps
<1> QED
  BY <1>2, <1>3 DEF CheckId

\* A row goes in beside no other, committed or not: what it would collide with is waited for.
LEMMA WriteKeeps ==
    ASSUME RegistryInv, NEW p \in Runs, Write(p)
    PROVE  RegistryInv'
<1>1. /\ run[p] \in Command /\ run[p].pc = "write"
      /\ Progress(run[p]) /\ Found(run[p], db) /\ Apart(run[p], db)
      /\ \A q \in Runs \ {p} : \A a \in run[p].mine, b \in run[q].mine : ~Same(a, b)
  BY DEF RegistryInv, TypeOK, Write
<1>2. ~(run[p].kind = "demo" /\ run[p].again)
  BY <1>1 DEF Found
<1>3. CASE Collides(p) # {}
  BY <1>2, <1>3, EndKeeps DEF Write
<1>4. CASE Collides(p) = {}
  <2> DEFINE r == [run[p] EXCEPT !.mine = @ \cup {Item(p)}, !.todo = Tail(@),
                                 !.pc = IF Len(run[p].todo) = 1 THEN "commit" ELSE "email"]
  <2>1. run[p].todo \in Seq(Row) /\ run[p].todo # <<>>
    BY <1>1 DEF Command, Progress, Asking
  <2>2. /\ Item(p) \in Row /\ Tail(run[p].todo) \in Seq(Row)
        /\ ToSet(run[p].todo) = {Item(p)} \cup ToSet(Tail(run[p].todo))
        /\ Tail(run[p].todo) = <<>> <=> Len(run[p].todo) = 1
    BY <2>1, NextRow DEF Item
  <2>3. /\ r \in Command /\ r.mine = run[p].mine \cup {Item(p)} /\ r.todo = Tail(run[p].todo)
        /\ r.pc = IF Len(run[p].todo) = 1 THEN "commit" ELSE "email"
        /\ r.kind = run[p].kind /\ r.again = run[p].again
    BY <1>1, <2>2 DEF Command
  <2>4. Set(p, r)
    BY <1>4 DEF Write
  <2> HIDE DEF r
  <2>5. r.mine \cup ToSet(r.todo) = run[p].mine \cup ToSet(run[p].todo)
    BY <2>2, <2>3
  <2>6. Progress(r)
    <3>1. r.pc \in Asking <=> r.todo # <<>>
      BY <2>2, <2>3 DEF Asking
    <3>2. r.kind = "demo" => /\ r.mine \cup ToSet(r.todo) = ToSet(Demo)
                             /\ r.mine # {} /\ Demo[1] \in r.mine
      BY <1>1, <2>3, <2>5, DemoRows DEF Progress, Asking, Item
    <3>3. r.kind # "demo" => r.pc = "commit" /\ r.mine # {}
      BY <1>1, <2>3 DEF Progress, Asking
    <3>4. r.kind = "bootstrap" => \A b \in r.mine \cup ToSet(r.todo) : b.id = Bootstrap
      BY <1>1, <2>3, <2>5 DEF Progress, Asking
    <3>5. r.pc \in {"email", "commit"}
      BY <2>3
    <3> QED BY <3>1, <3>2, <3>3, <3>4, <3>5, Zenon DEF Progress, Asking
  <2>7. Found(r, db)
    <3>1. r.kind = "save" => \A b \in r.mine \cup ToSet(r.todo) : b.id \in Ids(db)
      BY <1>1, <2>3, <2>5 DEF Found
    <3> QED BY <1>1, <1>2, <2>3, <3>1 DEF Found
  <2>8. \A a, b : Same(a, b) <=> Same(b, a)
    BY DEF Same
  <2>9. Apart(r, db)
    <3>1. \A b \in run[p].mine : ~Same(b, Item(p)) \/ b = Item(p)
      <4>1. CASE run[p].kind = "save"
        BY <1>1, <4>1 DEF Progress, Asking
      <4>2. CASE run[p].kind # "save"
        <5>1. \A b \in run[p].mine : b.id # Item(p).id
          BY <1>1, <4>2 DEF Found, Item, Ids
        <5> QED BY <1>1, <5>1 DEF Found, Item
      <4> QED BY <4>1, <4>2
    <3>2. \A b \in db : Same(b, Item(p)) => run[p].kind = "save" /\ b.id = Item(p).id
      BY <1>4 DEF Collides
    <3>3. \A a, b \in r.mine : Same(a, b) => a = b
      BY <1>1, <2>3, <2>8, <3>1 DEF Apart
    <3>4. \A a \in r.mine, b \in db : Same(a, b) => r.kind = "save" /\ b.id \in Ids(r.mine)
      BY <1>1, <2>3, <2>8, <3>2 DEF Apart, Ids
    <3> QED BY <3>3, <3>4 DEF Apart
  <2>10. \A q \in Runs \ {p} : \A a \in r.mine, b \in run[q].mine : ~Same(a, b)
    <3>1. \A q \in Runs \ {p} : \A b \in run[q].mine : ~Same(b, Item(p))
      BY <1>1 DEF Write, WaitsFor
    <3> QED BY <1>1, <2>3, <2>8, <3>1
  <2> QED BY <2>3, <2>4, <2>6, <2>7, <2>9, <2>10, OneMoves
<1> QED
  BY <1>3, <1>4

\* A commit puts the transaction's rows over the committed ones, and takes no identity away.
LEMMA CommitKeeps ==
    ASSUME RegistryInv, NEW p \in Runs, Commit(p)
    PROVE  RegistryInv'
<1> DEFINE m == run[p].mine
<1>1. /\ run[p] \in Command /\ run[p].pc = "commit" /\ m \subseteq Row
      /\ Progress(run[p]) /\ Found(run[p], db) /\ Apart(run[p], db)
      /\ \A q \in Runs \ {p} : \A a \in m, b \in run[q].mine : ~Same(a, b)
  BY DEF RegistryInv, TypeOK, Commit, Command
<1>2. run[p].todo = <<>> /\ ToSet(run[p].todo) = {}
  BY <1>1, NoRow DEF Progress, Asking
<1>3. /\ run' \in [Runs -> Command]
      /\ run'[p].pc = "seeded" /\ run'[p].mine = {} /\ run'[p].todo = <<>>
      /\ run'[p].kind = run[p].kind /\ run'[p].again = run[p].again
      /\ \A q \in Runs \ {p} : run'[q] = run[q]
  BY <1>1, <1>2 DEF Commit, RegistryInv, TypeOK, Command, Ended
<1>4. /\ db' = m \cup {b \in db : b.id \notin Ids(m)} /\ Ids(db') = Ids(db) \cup Ids(m)
  BY ViewIds DEF Commit, View, Ids
<1> HIDE DEF m
<1>5. TypeOK'
  BY <1>1, <1>3, <1>4 DEF RegistryInv, TypeOK
<1>6. \A a, b : Same(a, b) <=> Same(b, a)
  BY DEF Same
<1>7. ASSUME NEW q \in Runs
      PROVE  Progress(run'[q]) /\ Found(run'[q], db') /\ Apart(run'[q], db')
  <2>1. CASE q # p
    <3>1. /\ run'[q] = run[q] /\ Progress(run[q]) /\ Found(run[q], db) /\ Apart(run[q], db)
      BY <1>3, <2>1 DEF RegistryInv
    <3>2. Found(run[q], db')
      BY <3>1, <1>4 DEF Found
    <3>3. Apart(run[q], db')
      BY <3>1, <2>1, <1>1, <1>4, <1>6 DEF Apart
    <3> QED BY <3>1, <3>2, <3>3
  <2>2. CASE q = p
    <3>1. Progress(run'[p])
      BY <1>3 DEF Progress, Asking
    <3>2. ASSUME run[p].kind = "bootstrap" PROVE Bootstrap \in Ids(db')
      <4>1. m # {} /\ \A b \in m : b.id = Bootstrap
        BY <1>1, <3>2 DEF Progress, m
      <4> QED BY <1>4, <4>1 DEF Ids
    <3>3. Found(run'[p], db')
      BY <1>1, <1>3, <1>4, <3>2 DEF Found
    <3>4. Apart(run'[p], db')
      BY <1>3 DEF Apart
    <3> QED BY <2>2, <3>1, <3>3, <3>4
  <2> QED BY <2>1, <2>2
<1>8. \A q, s \in Runs : q # s => \A a \in run'[q].mine, b \in run'[s].mine : ~Same(a, b)
  BY <1>3 DEF RegistryInv
<1>9. OneAddressOnePerson'
  <2>1. \A a, b \in db : Same(a, b) => a = b
    BY DEF RegistryInv, OneAddressOnePerson, Same
  <2>2. ASSUME NEW a \in db', NEW b \in db', Same(a, b) PROVE a = b
    <3>1. CASE a \in m /\ b \in m
      BY <1>1, <2>2, <3>1 DEF Apart, m
    <3>2. CASE a \in m /\ b \notin m
      BY <1>1, <1>4, <2>2, <3>2 DEF Apart, m
    <3>3. CASE a \notin m /\ b \in m
      BY <1>1, <1>4, <1>6, <2>2, <3>3 DEF Apart, m
    <3>4. CASE a \notin m /\ b \notin m
      BY <1>4, <2>1, <2>2, <3>4
    <3> QED BY <3>1, <3>2, <3>3, <3>4
  <2> QED BY <2>2 DEF OneAddressOnePerson, Same
<1>10. DemoIsWhole'
  <2>1. DemoIds' = DemoIds /\ Ids(db)' = Ids(db')
    BY DEF DemoIds, Ids
  <2>2. CASE run[p].kind = "demo"
    <3>1. m = ToSet(Demo)
      BY <1>1, <1>2, <2>2 DEF Progress, m
    <3> QED BY <1>4, <2>1, <3>1, DemoRows DEF DemoIsWhole
  <2>3. CASE run[p].kind = "bootstrap"
    <3>1. \A b \in m : b.id = Bootstrap
      BY <1>1, <2>3 DEF Progress, m
    <3>2. Ids(m) \cap DemoIds = {}
      BY <3>1, DemoRows DEF Ids
    <3> QED BY <1>4, <2>1, <3>2 DEF DemoIsWhole, RegistryInv
  <2>4. CASE run[p].kind = "save"
    <3>1. Ids(m) \subseteq Ids(db)
      BY <1>1, <2>4 DEF Found, m, Ids
    <3> QED BY <1>4, <2>1, <3>1 DEF DemoIsWhole, RegistryInv
  <2> QED BY <1>1, <2>2, <2>3, <2>4 DEF Command
<1>11. OneFirstAdministrator'
  <2>1. ASSUME run[p].kind = "bootstrap", NEW q \in Runs \ {p},
               run[q].kind = "bootstrap", run[q].pc = "seeded"
        PROVE  FALSE
    <3>1. PICK b \in m : b.id = Bootstrap
      BY <1>1, <2>1 DEF Progress, m
    <3>2. Bootstrap \in Ids(db)
      BY <2>1 DEF RegistryInv, Found
    <3>3. PICK e \in db : e.id = Bootstrap
      BY <3>2 DEF Ids
    <3> QED BY <1>1, <2>1, <3>1, <3>3 DEF Apart, Same, m
  <2> QED BY <1>3, <2>1 DEF RegistryInv, OneFirstAdministrator
<1> QED
  BY <1>5, <1>7, <1>8, <1>9, <1>10, <1>11 DEF RegistryInv

LEMMA RegistryStep == RegistryInv /\ [Next]_vars => RegistryInv'
<1> SUFFICES ASSUME RegistryInv, [Next]_vars PROVE RegistryInv'
  OBVIOUS
<1>1. CASE UNCHANGED vars
  BY <1>1 DEF vars, RegistryInv, TypeOK, Progress, Found, Apart, OneAddressOnePerson, DemoIsWhole,
              OneFirstAdministrator, DemoIds, Ids
<1>2. ASSUME NEW p \in Runs, Kill(p) PROVE RegistryInv'
  BY <1>2, EndKeeps DEF Kill
<1>3. CASE Next
  BY <1>2, <1>3, BeginSteps, LookKeeps, CheckEmailKeeps, CheckIdKeeps, WriteKeeps, CommitKeeps
     DEF Next
<1> QED
  BY <1>1, <1>3

--------------------------------------------------------------------------------
(* What holds of every behaviour. *)

\* RegistryInv holds in every state, for any commands, demo data and addresses.
THEOREM RegistryInvariant == Spec => []RegistryInv
  BY RegistryStart, RegistryStep, PTL DEF Spec

\* No two rows of the people table have one identity, or one address.
THEOREM AddressesAreUnique == Spec => []OneAddressOnePerson
<1>1. RegistryInv => OneAddressOnePerson
  BY DEF RegistryInv
<1> QED
  BY <1>1, RegistryInvariant, PTL

\* The demo data is committed whole or not at all.
THEOREM DemoIsSeededWhole == Spec => []DemoIsWhole
<1>1. RegistryInv => DemoIsWhole
  BY DEF RegistryInv
<1> QED
  BY <1>1, RegistryInvariant, PTL

\* Seeding the demo data where it is ends quietly.
THEOREM SeedingAgainIsQuiet == Spec => []DemoAgainIsQuiet
<1>1. RegistryInv => DemoAgainIsQuiet
  BY DEF RegistryInv, Found, DemoAgainIsQuiet
<1> QED
  BY <1>1, RegistryInvariant, PTL

\* One run at most makes the first administrator, however many look for one at once.
THEOREM FirstAdministratorIsOne == Spec => []OneFirstAdministrator
<1>1. RegistryInv => OneFirstAdministrator
  BY DEF RegistryInv
<1> QED
  BY <1>1, RegistryInvariant, PTL

\* Whoever is waited for and waits has written the first row of the demo data, and no two have.
LEMMA WaitersAreApart == RegistryInv => NobodyWaitsInCircles
<1> SUFFICES ASSUME RegistryInv, ~NobodyWaitsInCircles PROVE FALSE
  OBVIOUS
<1> PICK S \in (SUBSET Runs) \ {{}} : \A p \in S : \E q \in S : WaitsFor(p, q)
  BY Zenon DEF NobodyWaitsInCircles
<1>1. ASSUME NEW q \in S, run[q].mine # {} PROVE Demo[1] \in run[q].mine
  <2>1. run[q].pc = "write" /\ Progress(run[q])
    BY DEF WaitsFor, RegistryInv
  <2> QED BY <1>1, <2>1 DEF Progress, Asking
<1>2. ASSUME NEW p, NEW q, WaitsFor(p, q) PROVE run[q].mine # {} /\ p # q
  <2>1. CASE \E b \in run[q].mine : Same(b, Item(p))
    BY <1>2, <2>1 DEF WaitsFor
  <2>2. CASE \E b \in Collides(p) : b.id \in Ids(run[q].mine)
    BY <1>2, <2>2 DEF WaitsFor, Ids
  <2> QED BY <1>2, <2>1, <2>2 DEF WaitsFor
<1>3. PICK p \in S : TRUE
  OBVIOUS
<1>4. PICK q \in S : WaitsFor(p, q)
  OBVIOUS
<1>5. PICK s \in S : WaitsFor(q, s)
  OBVIOUS
<1>6. Demo[1] \in run[q].mine /\ Demo[1] \in run[s].mine /\ q # s
  BY <1>1, <1>2, <1>4, <1>5
<1> QED
  BY <1>6 DEF RegistryInv, Same

\* Whatever is seeded and saved at once, somebody is always able to go on.
THEOREM NoCircleOfWaiters == Spec => []NobodyWaitsInCircles
  BY WaitersAreApart, RegistryInvariant, PTL

--------------------------------------------------------------------------------
(* Columns. *)

LEMMA IdComesBack == ASSUME NEW i \in Uuids PROVE ReadId(Canonical[i]) = {i}
BY ColumnsAssumption DEF ReadId

LEMMA TermComesBack == ASSUME NEW t \in Terms PROVE ReadTerm(Label[t]) = {t}
<1>1. Label[t] \in DOMAIN Halves /\ Halves[Label[t]] = <<t.year, t.number>>
  BY ColumnsAssumption
<1>2. \A u \in Terms : <<t.year, t.number>> = <<u.year, u.number>> => u = t
  BY DEF Terms
<1> QED BY <1>1, <1>2 DEF ReadTerm

LEMMA EmailComesBack == ASSUME NEW a \in WellFormed PROVE ReadEmail(a) = {a}
BY ColumnsAssumption DEF ReadEmail

LEMMA CredentialsComeBack ==
    ASSUME NEW ids \in SUBSET Uuids PROVE ReadCredentials(WriteCredentials(ids)) = {ids}
<1>1. \A i \in ids : Canonical[i] \in DOMAIN Uuid /\ Uuid[Canonical[i]] = i
  BY ColumnsAssumption
<1>2. {Uuid[t] : t \in WriteCredentials(ids)} = ids
  BY <1>1 DEF WriteCredentials
<1>3. WriteCredentials(ids) \subseteq DOMAIN Uuid
  BY <1>1 DEF WriteCredentials
<1> QED BY <1>2, <1>3 DEF ReadCredentials

\* an array of reads that give one value each gives one array
LEMMA EachOfOne ==
    ASSUME NEW X, NEW s \in Seq(X), NEW reads, DOMAIN reads = DOMAIN s,
           \A i \in DOMAIN s : reads[i] = {s[i]}
    PROVE  Each(reads) = {s}
<1>1. s \in [DOMAIN s -> UNION {reads[i] : i \in DOMAIN reads}]
  <2>1. \A i \in DOMAIN s : s[i] \in UNION {reads[k] : k \in DOMAIN reads}
    OBVIOUS
  <2>2. s = [i \in DOMAIN s |-> s[i]]
    OBVIOUS
  <2> QED BY <2>1, <2>2
<1>2. s \in Each(reads)
  BY <1>1 DEF Each
<1>3. ASSUME NEW u \in Each(reads) PROVE u = s
  <2>1. u \in [DOMAIN s -> UNION {reads[i] : i \in DOMAIN reads}] /\ \A i \in DOMAIN s : u[i] = s[i]
    BY DEF Each
  <2>2. u = [i \in DOMAIN s |-> s[i]] /\ s = [i \in DOMAIN s |-> s[i]]
    BY <2>1
  <2> QED BY <2>2
<1> QED BY <1>2, <1>3

LEMMA EntryComesBack == ASSUME NEW e \in Entries PROVE ReadEntry(WriteEntry(e)) = {e}
<1> DEFINE raw == WriteEntry(e)
<1>1. e = [subject |-> e.subject, term |-> e.term, grade |-> e.grade, source |-> e.source]
      /\ e.subject \in Uuids /\ e.term \in Terms /\ e.grade \in Grades /\ e.source \in Uuids \cup {NoSource}
  BY DEF Entries
<1>2. ReadId(raw.subject) = {e.subject} /\ ReadTerm(raw.term) = {e.term} /\ {raw.grade} \cap Grades = {e.grade}
  BY <1>1, IdComesBack, TermComesBack DEF WriteEntry
<1>3. (IF raw.source = NoSource THEN {NoSource} ELSE ReadId(raw.source)) = {e.source}
  <2>1. CASE e.source = NoSource
    BY <2>1 DEF WriteEntry
  <2>2. CASE e.source # NoSource
    <3>1. e.source \in Uuids /\ raw.source = Canonical[e.source]
      BY <1>1, <2>2 DEF WriteEntry
    <3>2. raw.source # NoSource
      BY <3>1, ColumnsAssumption
    <3> QED BY <3>1, <3>2, IdComesBack
  <2> QED BY <2>1, <2>2
<1> HIDE DEF raw
<1>4. ReadEntry(raw) =
        {[subject |-> i, term |-> t, grade |-> g, source |-> o] :
           i \in {e.subject}, t \in {e.term}, g \in {e.grade}, o \in {e.source}}
  BY <1>2, <1>3 DEF ReadEntry
<1>5. ReadEntry(raw) =
        {[subject |-> e.subject, term |-> e.term, grade |-> e.grade, source |-> e.source]}
  BY <1>4
<1> QED BY <1>1, <1>5 DEF raw

LEMMA EnrollmentsComeBack ==
    ASSUME NEW s \in Seq(Uuids) PROVE ReadEnrollments(WriteEnrollments(s)) = {s}
<1> DEFINE raw == WriteEnrollments(s)
           reads == [i \in DOMAIN raw |-> ReadId(raw[i].student_id)]
<1>1. DOMAIN reads = DOMAIN s
  BY DEF WriteEnrollments
<1>2. \A i \in DOMAIN s : reads[i] = {s[i]}
  BY IdComesBack DEF WriteEnrollments
<1> HIDE DEF reads
<1>3. Each(reads) = {s}
  BY <1>1, <1>2, EachOfOne
<1> QED BY <1>3 DEF ReadEnrollments, reads

LEMMA EntriesComeBack ==
    ASSUME NEW s \in Seq(Entries) PROVE ReadEntries(WriteEntries(s)) = {s}
<1> DEFINE raw == WriteEntries(s)
           reads == [i \in DOMAIN raw |-> ReadEntry(raw[i])]
<1>1. DOMAIN reads = DOMAIN s
  BY DEF WriteEntries
<1>2. \A i \in DOMAIN s : reads[i] = {s[i]}
  BY EntryComesBack DEF WriteEntries
<1> HIDE DEF reads
<1>3. Each(reads) = {s}
  BY <1>1, <1>2, EachOfOne
<1> QED BY <1>3 DEF ReadEntries, reads

\* the same instant, or what two clocks without an offset both show: equality of datetimes
SameMoment(m, n) ==
    \/ m.offset = Naive /\ n.offset = Naive /\ m.clock = n.clock
    \/ m.offset # Naive /\ n.offset # Naive /\ m.clock - m.offset = n.clock - n.offset

\* PostgreSQL gives an instant back, at another offset maybe; SQLite what the clock showed, without
\* the offset, which is another moment to Python; and on both a moment that was read stays as it is
\* when it is written again (submitted_at, DateTime(timezone=True)).
LEMMA MomentsComeBack ==
    ASSUME NEW m \in Moments
    PROVE  /\ ReadMoment(WriteMoment(m)) \in Moments
           /\ Zone # Naive /\ m.offset # Naive => SameMoment(ReadMoment(WriteMoment(m)), m)
           /\ Zone = Naive => ReadMoment(WriteMoment(m)) = [clock |-> m.clock, offset |-> Naive]
           /\ Zone = Naive /\ m.offset # Naive => ~SameMoment(ReadMoment(WriteMoment(m)), m)
           /\ LET n == ReadMoment(WriteMoment(m)) IN ReadMoment(WriteMoment(n)) = n
<1> DEFINE n == ReadMoment(WriteMoment(m))
<1>1. m.clock \in Int /\ m.offset \in Int \cup {Naive} /\ Naive \notin Int /\ Zone \in Int \cup {Naive}
  BY ColumnsAssumption DEF Moments
<1>2. CASE Zone = Naive
  <2>1. WriteMoment(m) = m.clock
    BY <1>2 DEF WriteMoment
  <2>2. n = [clock |-> m.clock, offset |-> Naive]
    BY <1>2, <2>1 DEF ReadMoment
  <2> HIDE DEF n
  <2>3. n.clock = m.clock /\ n.offset = Naive /\ n \in Moments
    BY <1>1, <2>2 DEF Moments
  <2>4. WriteMoment(n) = m.clock
    BY <1>2, <2>3 DEF WriteMoment
  <2>5. ReadMoment(WriteMoment(n)) = n
    BY <1>2, <2>2, <2>4 DEF ReadMoment
  <2>6. m.offset # Naive => ~SameMoment(n, m)
    BY <2>3 DEF SameMoment
  <2> QED BY <1>2, <2>2, <2>3, <2>5, <2>6 DEF n
<1>3. CASE Zone # Naive
  <2> DEFINE back == IF m.offset = Naive THEN Zone ELSE m.offset
  <2>1. Zone \in Int /\ back \in Int /\ WriteMoment(m) = m.clock - back
    BY <1>1, <1>3 DEF WriteMoment
  <2>2. n = [clock |-> (m.clock - back) + Zone, offset |-> Zone]
    BY <1>3, <2>1 DEF ReadMoment
  <2> HIDE DEF n
  <2>3. n.clock = (m.clock - back) + Zone /\ n.offset = Zone
    BY <2>2
  <2>4. n \in Moments
    <3>1. (m.clock - back) + Zone \in Int
      BY <1>1, <2>1
    <3> QED BY <2>1, <2>2, <3>1 DEF Moments
  <2>5. WriteMoment(n) = n.clock - Zone
    BY <1>3, <2>3 DEF WriteMoment
  <2>6. (n.clock - Zone) + Zone = n.clock
    BY <1>1, <2>1, <2>3
  <2>7. ReadMoment(WriteMoment(n)) = [clock |-> n.clock, offset |-> Zone]
    BY <1>3, <2>5, <2>6 DEF ReadMoment
  <2>8. ReadMoment(WriteMoment(n)) = n
    BY <2>2, <2>3, <2>7
  <2>9. ASSUME m.offset # Naive PROVE SameMoment(n, m)
    <3>1. back = m.offset
      BY <2>9
    <3>2. n.clock - n.offset = m.clock - m.offset
      BY <1>1, <2>1, <2>3, <3>1
    <3> QED BY <1>3, <2>3, <2>9, <3>2 DEF SameMoment
  <2> QED BY <1>3, <2>4, <2>8, <2>9 DEF n
<1> QED BY <1>2, <1>3

\* a row of a job is read as the job with its moment as that column gives it back
LEMMA JobAsRead ==
    ASSUME NEW j \in Jobs
    PROVE  ReadJob(JobRow(j)) =
             {[id |-> j.id, kind |-> j.kind, by |-> j.by, at |-> ReadMoment(WriteMoment(j.at)),
               status |-> j.status]}
<1> DEFINE row == JobRow(j)
<1>1. j.id \in Uuids /\ j.kind \in Kinds /\ j.status \in Statuses
  BY DEF Jobs
<1>2. /\ ReadId(row.id) = {j.id} /\ ReadMember(row.kind, Kinds) = {j.kind}
      /\ ReadMember(row.status, Statuses) = {j.status}
      /\ row.by = j.by /\ row.at = WriteMoment(j.at)
  BY <1>1, IdComesBack DEF JobRow, ReadMember
<1> HIDE DEF row
<1> QED BY <1>2 DEF ReadJob, row

\* What a repository reads of a person, a section, a transcript, a guardianship or the age of
\* majority is the one that was written (process_bind_param and process_result_value of every column).
\* A job comes back the same but for its moment, which on PostgreSQL is the same instant and on
\* SQLite has lost its offset; saved as it was read, it comes back as it is (_to_row, _to_job).
THEOREM RowsComeBack ==
    /\ \A p \in People : ReadPerson(PersonRow(p)) = {p}
    /\ \A s \in Sections : ReadSection(SectionRow(s)) = {s}
    /\ \A h \in Histories : ReadHistory(HistoryRow(h)) = {h}
    /\ \A g \in Guardianships : ReadGuardianship(GuardianshipRow(g)) = {g}
    /\ \A j \in Jobs : \E k \in Jobs :
         /\ ReadJob(JobRow(j)) = {k} /\ ReadJob(JobRow(k)) = {k}
         /\ k.id = j.id /\ k.kind = j.kind /\ k.by = j.by /\ k.status = j.status
         /\ Zone # Naive /\ j.at.offset # Naive => SameMoment(k.at, j.at)
         /\ Zone = Naive => k.at = [clock |-> j.at.clock, offset |-> Naive]
    /\ \A n \in AgesOfMajority : ReadAge(WriteAge(n)) = {n}
<1>1. ASSUME NEW p \in People PROVE ReadPerson(PersonRow(p)) = {p}
  <2> DEFINE row == PersonRow(p)
  <2>1. p = [id |-> p.id, email |-> p.email, roles |-> p.roles, credentials |-> p.credentials]
        /\ p.id \in Uuids /\ p.email \in WellFormed /\ p.roles \in SUBSET Roles
        /\ p.credentials \in SUBSET Uuids
    BY DEF People
  <2>2. /\ ReadId(row.id) = {p.id} /\ ReadEmail(row.email) = {p.email}
        /\ ReadRoles(row.roles) = {p.roles} /\ ReadCredentials(row.credentials) = {p.credentials}
    BY <2>1, IdComesBack, EmailComesBack, CredentialsComeBack DEF PersonRow, WriteRoles, ReadRoles
  <2> HIDE DEF row
  <2>3. ReadPerson(row) =
          {[id |-> p.id, email |-> p.email, roles |-> p.roles, credentials |-> p.credentials]}
    BY <2>2 DEF ReadPerson
  <2> QED BY <2>1, <2>3 DEF row
<1>2. ASSUME NEW s \in Sections PROVE ReadSection(SectionRow(s)) = {s}
  <2> DEFINE row == SectionRow(s)
  <2>1. s = [id |-> s.id, subject |-> s.subject, term |-> s.term, teacher |-> s.teacher,
             enrollments |-> s.enrollments]
        /\ s.id \in Uuids /\ s.subject \in Uuids /\ s.term \in Terms /\ s.teacher \in Uuids
        /\ s.enrollments \in Seq(Uuids)
    BY DEF Sections
  <2>2. /\ ReadId(row.id) = {s.id} /\ ReadId(row.subject) = {s.subject}
        /\ ReadTerm(row.term) = {s.term} /\ ReadId(row.teacher) = {s.teacher}
        /\ ReadEnrollments(row.enrollments) = {s.enrollments}
    BY <2>1, IdComesBack, TermComesBack, EnrollmentsComeBack DEF SectionRow
  <2> HIDE DEF row
  <2>3. ReadSection(row) =
          {[id |-> s.id, subject |-> s.subject, term |-> s.term, teacher |-> s.teacher,
            enrollments |-> s.enrollments]}
    BY <2>2 DEF ReadSection
  <2> QED BY <2>1, <2>3 DEF row
<1>3. ASSUME NEW h \in Histories PROVE ReadHistory(HistoryRow(h)) = {h}
  <2> DEFINE row == HistoryRow(h)
  <2>1. h = [id |-> h.id, entries |-> h.entries] /\ h.id \in Uuids /\ h.entries \in Seq(Entries)
    BY DEF Histories
  <2>2. ReadId(row.id) = {h.id} /\ ReadEntries(row.entries) = {h.entries}
    BY <2>1, IdComesBack, EntriesComeBack DEF HistoryRow
  <2> HIDE DEF row
  <2>3. ReadHistory(row) = {[id |-> h.id, entries |-> h.entries]}
    BY <2>2 DEF ReadHistory
  <2> QED BY <2>1, <2>3 DEF row
<1>4. ASSUME NEW j \in Jobs
      PROVE  \E k \in Jobs :
               /\ ReadJob(JobRow(j)) = {k} /\ ReadJob(JobRow(k)) = {k}
               /\ k.id = j.id /\ k.kind = j.kind /\ k.by = j.by /\ k.status = j.status
               /\ Zone # Naive /\ j.at.offset # Naive => SameMoment(k.at, j.at)
               /\ Zone = Naive => k.at = [clock |-> j.at.clock, offset |-> Naive]
  <2> DEFINE at == ReadMoment(WriteMoment(j.at))
             k == [id |-> j.id, kind |-> j.kind, by |-> j.by, at |-> at, status |-> j.status]
  <2>1. /\ j.id \in Uuids /\ j.kind \in Kinds /\ j.by \in Texts /\ j.at \in Moments
        /\ j.status \in Statuses
    BY DEF Jobs
  <2>2. ReadJob(JobRow(j)) = {k}
    BY <2>1, JobAsRead
  <2>3. at \in Moments /\ ReadMoment(WriteMoment(at)) = at
    BY <2>1, MomentsComeBack
  <2>4. /\ Zone # Naive /\ j.at.offset # Naive => SameMoment(at, j.at)
        /\ Zone = Naive => at = [clock |-> j.at.clock, offset |-> Naive]
    BY <2>1, MomentsComeBack
  <2> HIDE DEF at
  <2>5. k \in Jobs
    BY <2>1, <2>3 DEF Jobs
  <2>6. /\ k.id = j.id /\ k.kind = j.kind /\ k.by = j.by /\ k.status = j.status /\ k.at = at
        /\ k = [id |-> k.id, kind |-> k.kind, by |-> k.by, at |-> at, status |-> k.status]
    OBVIOUS
  <2> HIDE DEF k
  <2>7. ReadJob(JobRow(k)) =
          {[id |-> k.id, kind |-> k.kind, by |-> k.by, at |-> ReadMoment(WriteMoment(k.at)),
            status |-> k.status]}
    BY <2>5, JobAsRead
  <2>8. ReadJob(JobRow(k)) = {k}
    BY <2>3, <2>6, <2>7
  <2>9. WITNESS k \in Jobs
  <2> QED BY <2>2, <2>4, <2>6, <2>8
<1>5. ASSUME NEW g \in Guardianships PROVE ReadGuardianship(GuardianshipRow(g)) = {g}
  <2> DEFINE row == GuardianshipRow(g)
  <2>1. g = [id |-> g.id, guardian |-> g.guardian, ward |-> g.ward]
        /\ g.id \in Uuids /\ g.guardian \in Uuids /\ g.ward \in Uuids
    BY DEF Guardianships
  <2>2. /\ ReadId(row.id) = {g.id} /\ ReadId(row.guardian) = {g.guardian}
        /\ ReadId(row.ward) = {g.ward}
    BY <2>1, IdComesBack DEF GuardianshipRow
  <2> HIDE DEF row
  <2>3. ReadGuardianship(row) = {[id |-> g.id, guardian |-> g.guardian, ward |-> g.ward]}
    BY <2>2 DEF ReadGuardianship
  <2> QED BY <2>1, <2>3 DEF row
<1>6. ASSUME NEW n \in AgesOfMajority PROVE ReadAge(WriteAge(n)) = {n}
  <2>1. /\ n \in Nat /\ n # 0
        /\ Decimal[n] \in DOMAIN Numbers /\ Numbers[Decimal[n]] = n
    BY ColumnsAssumption DEF AgesOfMajority
  <2> QED BY <2>1 DEF ReadAge, WriteAge
<1> QED BY <1>1, <1>2, <1>3, <1>4, <1>5, <1>6

LEMMA EachIsSequence ==
    ASSUME NEW X, NEW n \in Nat, NEW reads, DOMAIN reads = 1..n, \A i \in 1..n : reads[i] \subseteq X
    PROVE  Each(reads) \subseteq Seq(X)
<1>1. SUFFICES ASSUME NEW s \in Each(reads) PROVE s \in Seq(X)
  OBVIOUS
<1>2. s \in [1..n -> UNION {reads[i] : i \in 1..n}] /\ \A i \in 1..n : s[i] \in reads[i]
  BY DEF Each
<1>3. s = [i \in 1..n |-> s[i]] /\ \A i \in 1..n : s[i] \in X
  BY <1>2
<1>4. s \in [1..n -> X]
  BY <1>3
<1> QED BY <1>4

LEMMA IdsAreRead == \A t : ReadId(t) \subseteq Uuids
BY ColumnsAssumption DEF ReadId

\* Whatever a row holds, with whatever it was written, a value that is read from it is one the
\* domain can build: identifiers, addresses, terms, grades, kinds and statuses are built again,
\* and refused as ever.  (An array of enrollments is an array: that no student has two
\* is seen to by enroll alone.)
THEOREM ReadsAreValues ==
    ASSUME NEW row, NEW X
    PROVE  /\ ReadPerson(row) \subseteq People
           /\ row.enrollments \in Seq(X) => ReadSection(row) \subseteq Sections
           /\ row.entries \in Seq(X) => ReadHistory(row) \subseteq Histories
           /\ ReadGuardianship(row) \subseteq Guardianships
<1>1. ReadPerson(row) \subseteq People
  <2>1. ReadRoles(row.roles) \subseteq SUBSET Roles /\ ReadEmail(row.email) \subseteq WellFormed
    BY DEF ReadRoles, ReadEmail
  <2>2. ReadCredentials(row.credentials) \subseteq SUBSET Uuids
    BY ColumnsAssumption DEF ReadCredentials
  <2> QED BY <2>1, <2>2, IdsAreRead DEF ReadPerson, People
<1>2. ASSUME row.enrollments \in Seq(X) PROVE ReadSection(row) \subseteq Sections
  <2> DEFINE raw == row.enrollments
             reads == [i \in DOMAIN raw |-> ReadId(raw[i].student_id)]
  <2>1. Len(raw) \in Nat /\ DOMAIN raw = 1..Len(raw)
    BY <1>2
  <2>2. DOMAIN reads = 1..Len(raw) /\ \A i \in 1..Len(raw) : reads[i] \subseteq Uuids
    BY <2>1, IdsAreRead
  <2>3. ReadEnrollments(raw) = Each(reads)
    BY DEF ReadEnrollments
  <2> HIDE DEF reads
  <2>4. ReadEnrollments(raw) \subseteq Seq(Uuids)
    BY <2>1, <2>2, <2>3, EachIsSequence
  <2>5. ReadTerm(row.term) \subseteq Terms
    BY DEF ReadTerm
  <2> QED BY <2>4, <2>5, IdsAreRead DEF ReadSection, Sections
<1>3. ASSUME row.entries \in Seq(X) PROVE ReadHistory(row) \subseteq Histories
  <2> DEFINE raw == row.entries
             reads == [i \in DOMAIN raw |-> ReadEntry(raw[i])]
  <2>1. Len(raw) \in Nat /\ DOMAIN raw = 1..Len(raw)
    BY <1>3
  <2>2. ASSUME NEW e PROVE ReadEntry(e) \subseteq Entries
    <3>1. ReadTerm(e.term) \subseteq Terms
      BY DEF ReadTerm
    <3>2. (IF e.source = NoSource THEN {NoSource} ELSE ReadId(e.source)) \subseteq Uuids \cup {NoSource}
      BY IdsAreRead
    <3> QED BY <3>1, <3>2, IdsAreRead DEF ReadEntry, Entries
  <2>3. DOMAIN reads = 1..Len(raw) /\ \A i \in 1..Len(raw) : reads[i] \subseteq Entries
    BY <2>1, <2>2
  <2>4. ReadEntries(raw) = Each(reads)
    BY DEF ReadEntries
  <2> HIDE DEF reads
  <2>5. ReadEntries(raw) \subseteq Seq(Entries)
    BY <2>1, <2>3, <2>4, EachIsSequence
  <2> QED BY <2>5, IdsAreRead DEF ReadHistory, Histories
<1>4. ReadGuardianship(row) \subseteq Guardianships
  BY IdsAreRead DEF ReadGuardianship, Guardianships
<1> QED BY <1>1, <1>2, <1>3, <1>4

--------------------------------------------------------------------------------
(* Orders. *)

\* a pass of a stable sort over an order makes an order
LEMMA PassOrders ==
    ASSUME NEW S, NEW K, NEW before, NEW order, NEW key,
           Orders(before, S), Orders(order, K), \A r \in S : key[r] \in K
    PROVE  Orders(Pass(before, S, key, order), S)
<1> DEFINE P == Pass(before, S, key, order)
<1>1. \A a, b \in S : <<a, b>> \in P <=> \/ <<key[a], key[b]>> \in order
                                         \/ key[a] = key[b] /\ <<a, b>> \in before
  BY DEF Pass
<1> HIDE DEF P
<1>2. \A k, m \in K : <<k, m>> \in order => <<m, k>> \notin order
  BY DEF Orders
<1>3. \A a, b \in S : <<a, b>> \in before => <<b, a>> \notin before
  BY DEF Orders
<1>4. \A a, b \in S : <<a, b>> \in P => <<b, a>> \notin P
  BY <1>1, <1>2, <1>3
<1>5. \A a, b \in S : a # b => <<a, b>> \in P \/ <<b, a>> \in P
  BY <1>1 DEF Orders
<1>6. ASSUME NEW a \in S, NEW b \in S, NEW c \in S, <<a, b>> \in P, <<b, c>> \in P
      PROVE  <<a, c>> \in P
  BY <1>1, <1>6 DEF Orders
<1> QED BY <1>4, <1>5, <1>6 DEF Orders, P

LEMMA DownIsBack ==
    ASSUME NEW order, NEW K, NEW L, order \subseteq K \X L, NEW a, NEW b
    PROVE  <<a, b>> \in Down(order) <=> <<b, a>> \in order
<1>1. ASSUME <<a, b>> \in Down(order) PROVE <<b, a>> \in order
  <2>1. PICK p \in order : <<a, b>> = <<p[2], p[1]>>
    BY <1>1 DEF Down
  <2>2. p = <<p[1], p[2]>>
    OBVIOUS
  <2> QED BY <2>1, <2>2
<1>2. ASSUME <<b, a>> \in order PROVE <<a, b>> \in Down(order)
  BY <1>2 DEF Down
<1> QED BY <1>1, <1>2

LEMMA DownOrders ==
    ASSUME NEW order, NEW K, Orders(order, K), order \subseteq K \X K
    PROVE  Orders(Down(order), K)
<1>1. \A a, b : <<a, b>> \in Down(order) <=> <<b, a>> \in order
  BY DownIsBack
<1> QED BY <1>1 DEF Orders

LEMMA TermsOrdered == Orders(TermsUp, Terms) /\ Orders(Down(TermsUp), Terms)
<1>1. \A t \in Terms : t.year \in Int /\ t.number \in Int
  <2>1. Years \subseteq Int
    BY ColumnsAssumption
  <2>2. ASSUME NEW t \in Terms PROVE t.year \in Int
    <3>1. t.year \in Years
      BY DEF Terms
    <3> QED BY <2>1, <3>1
  <2>3. ASSUME NEW t \in Terms PROVE t.number \in Int
    <3>1. t.number \in {1, 2}
      BY DEF Terms
    <3> QED BY <3>1
  <2> QED BY <2>2, <2>3
<1>2. \A t, u \in Terms : <<t, u>> \in TermsUp <=> \/ t.year < u.year
                                                   \/ t.year = u.year /\ t.number < u.number
  <2> TAKE t, u \in Terms
  <2> DEFINE up(p) == \/ p[1].year < p[2].year
                      \/ p[1].year = p[2].year /\ p[1].number < p[2].number
  <2>1. TermsUp = {p \in Terms \X Terms : up(p)}
    BY DEF TermsUp
  <2>2. up(<<t, u>>) <=> \/ t.year < u.year
                         \/ t.year = u.year /\ t.number < u.number
    OBVIOUS
  <2> HIDE DEF up
  <2>3. <<t, u>> \in Terms \X Terms
    OBVIOUS
  <2>4. <<t, u>> \in TermsUp <=> up(<<t, u>>)
    BY <2>1, <2>3
  <2> QED BY <2>2, <2>4
<1>3. \A t, u \in Terms : t # u => t.year # u.year \/ t.number # u.number
  BY DEF Terms
<1>4. \A t, u, v \in Terms : <<t, u>> \in TermsUp /\ <<u, v>> \in TermsUp => <<t, v>> \in TermsUp
  <2> TAKE t, u, v \in Terms
  <2>1. /\ t.year \in Int /\ u.year \in Int /\ v.year \in Int
        /\ t.number \in Int /\ u.number \in Int /\ v.number \in Int
    BY <1>1
  <2> QED BY <1>2, <2>1
<1>5. \A t, u \in Terms : <<t, u>> \in TermsUp => <<u, t>> \notin TermsUp
  BY <1>1, <1>2
<1>6. \A t, u \in Terms : t # u => <<t, u>> \in TermsUp \/ <<u, t>> \in TermsUp
  <2> TAKE t, u \in Terms
  <2>1. t.year \in Int /\ u.year \in Int /\ t.number \in Int /\ u.number \in Int
    BY <1>1
  <2>2. t.year # u.year => t.year < u.year \/ u.year < t.year
    BY <2>1
  <2>3. t.number # u.number => t.number < u.number \/ u.number < t.number
    BY <2>1
  <2>4. t # u => \/ <<t, u>> \in TermsUp
                 \/ <<u, t>> \in TermsUp
    <3>1. CASE t.year # u.year
      BY <1>2, <2>2, <3>1
    <3>2. CASE t.year = u.year /\ t.number # u.number
      BY <1>2, <2>3, <3>2
    <3> QED BY <1>3, <3>1, <3>2
  <2> QED BY <2>4
<1>7. Orders(TermsUp, Terms)
  BY <1>4, <1>5, <1>6 DEF Orders
<1>8. TermsUp \subseteq Terms \X Terms
  BY DEF TermsUp
<1> QED BY <1>7, <1>8, DownOrders

\* the texts of instants are in the order of the instants
LEMMA InstantsAsTexts ==
    \A m, n \in DOMAIN Iso : /\ <<Iso[m], Iso[n]>> \in Less <=> m < n
                             /\ Iso[m] = Iso[n] <=> m = n
<1> TAKE m, n \in DOMAIN Iso
<1>1. m \in Int /\ n \in Int /\ Iso[m] \in Texts /\ Iso[n] \in Texts
  BY RepositoriesAssumption
<1>2. (m < n => <<Iso[m], Iso[n]>> \in Less) /\ (n < m => <<Iso[n], Iso[m]>> \in Less)
  BY RepositoriesAssumption
<1>3. <<Iso[m], Iso[n]>> \in Less => <<Iso[n], Iso[m]>> \notin Less
  BY <1>1, RepositoriesAssumption DEF Orders
<1>4. m < n \/ m = n \/ n < m
  BY <1>1
<1>5. <<Iso[m], Iso[m]>> \notin Less
  BY <1>1, RepositoriesAssumption DEF Orders
<1>6. m < n => m # n /\ ~(n < m)
  BY <1>1
<1> QED BY <1>2, <1>3, <1>4, <1>5, <1>6

LEMMA EarlierOrders == Orders(Earlier, DOMAIN Iso) /\ Orders(Down(Earlier), DOMAIN Iso)
<1>1. \A m \in DOMAIN Iso : m \in Int
  BY RepositoriesAssumption
<1>2. Earlier \subseteq (DOMAIN Iso) \X (DOMAIN Iso)
  BY DEF Earlier
<1>3. \A m, n \in DOMAIN Iso : <<m, n>> \in Earlier <=> m < n
  BY DEF Earlier
<1>4. Orders(Earlier, DOMAIN Iso)
  BY <1>1, <1>3 DEF Orders
<1> QED BY <1>2, <1>4, DownOrders

\* sorted by what tells every two apart, rows are in one order whatever they were in before
LEMMA IdsDecide ==
    ASSUME NEW S, NEW before, NEW order, Keyed(S), \A r \in S : r.id \in Uuids,
           Orders(before, S), Orders(order, Texts)
    PROVE  /\ Orders(ById(S, before, order), S)
           /\ ById(S, before, order) =
                {p \in S \X S : <<Canonical[p[1].id], Canonical[p[2].id]>> \in order}
<1> DEFINE key == [r \in S |-> Canonical[r.id]]
<1>1. \A r \in S : key[r] \in Texts
  BY ColumnsAssumption
<1>2. \A r, q \in S : key[r] = key[q] => r = q
  BY ColumnsAssumption DEF Keyed
<1>3. \A r \in S : <<r, r>> \notin before
  BY DEF Orders
<1> HIDE DEF key
<1>4. Orders(Pass(before, S, key, order), S)
  BY <1>1, PassOrders
<1>5. Pass(before, S, key, order) = {p \in S \X S : <<key[p[1]], key[p[2]]>> \in order}
  <2>1. \A r, q \in S : ~(key[r] = key[q] /\ <<r, q>> \in before)
    BY <1>2, <1>3
  <2>2. ASSUME NEW p \in S \X S PROVE ~(key[p[1]] = key[p[2]] /\ p \in before)
    <3>1. p = <<p[1], p[2]>> /\ p[1] \in S /\ p[2] \in S
      OBVIOUS
    <3> QED BY <2>1, <3>1
  <2> QED BY <2>2 DEF Pass
<1>6. \A r \in S : key[r] = Canonical[r.id]
  BY DEF key
<1> QED BY <1>4, <1>5, <1>6 DEF ById, key

\* a sort by id and then by another key: an order, and the same one from either start
LEMMA SortedAlike ==
    ASSUME NEW S, NEW before, NEW other, NEW key, NEW K, NEW order, NEW first,
           Keyed(S), \A r \in S : r.id \in Uuids, Orders(before, S), Orders(other, S),
           Orders(first, Texts), \A r \in S : key[r] \in K, Orders(order, K)
    PROVE  /\ Orders(Pass(ById(S, before, first), S, key, order), S)
           /\ Pass(ById(S, before, first), S, key, order) = Pass(ById(S, other, first), S, key, order)
<1> DEFINE decided == {p \in S \X S : <<Canonical[p[1].id], Canonical[p[2].id]>> \in first}
<1>1. Orders(ById(S, before, first), S) /\ ById(S, before, first) = decided
  BY IdsDecide
<1>2. ById(S, other, first) = decided
  BY IdsDecide
<1> QED BY <1>1, <1>2, PassOrders

\* for two sections of a key of two parts, the subject and the term
LEMMA SectionsAlike ==
    ASSUME NEW S \in SUBSET Sections, NEW before, NEW other,
           Keyed(S), Orders(before, S), Orders(other, S)
    PROVE  /\ Orders(SectionsListed(S, before), S)
           /\ SectionsListed(S, before) = SectionsListed(S, other)
           /\ Orders(RecentFirst(S, before), S)
           /\ RecentFirst(S, before) = RecentFirst(S, other)
<1> DEFINE subject == [r \in S |-> Canonical[r.subject]]
           label == [r \in S |-> Label[r.term]]
           term == [r \in S |-> r.term]
<1>1. \A r \in S : r.id \in Uuids /\ r.subject \in Uuids /\ r.term \in Terms
  BY DEF Sections
<1>2. Orders(Less, Texts)
  BY RepositoriesAssumption
<1>3. \A r \in S : subject[r] \in Texts /\ label[r] \in Texts /\ term[r] \in Terms
  BY <1>1, ColumnsAssumption
<1> HIDE DEF subject, label, term
<1>4. /\ Orders(Pass(ById(S, before, Less), S, subject, Less), S)
      /\ Pass(ById(S, before, Less), S, subject, Less) = Pass(ById(S, other, Less), S, subject, Less)
  BY <1>1, <1>2, <1>3, SortedAlike
<1>5. Orders(Pass(Pass(ById(S, before, Less), S, subject, Less), S, label, Less), S)
  BY <1>2, <1>3, <1>4, PassOrders
<1>6. /\ Orders(SectionsListed(S, before), S)
      /\ SectionsListed(S, before) = SectionsListed(S, other)
  BY <1>4, <1>5 DEF SectionsListed, subject, label
<1>7. /\ Orders(Pass(ById(S, before, Less), S, term, Down(TermsUp)), S)
      /\ Pass(ById(S, before, Less), S, term, Down(TermsUp))
           = Pass(ById(S, other, Less), S, term, Down(TermsUp))
  BY <1>1, <1>2, <1>3, TermsOrdered, SortedAlike
<1> QED BY <1>6, <1>7 DEF RecentFirst, term

LEMMA GuardianshipsAlike ==
    ASSUME NEW S \in SUBSET Guardianships, NEW before, NEW other,
           Keyed(S), Orders(before, S), Orders(other, S)
    PROVE  /\ Orders(GuardianshipsListed(S, before), S)
           /\ GuardianshipsListed(S, before) = GuardianshipsListed(S, other)
<1> DEFINE ward == [r \in S |-> Canonical[r.ward]]
           guardian == [r \in S |-> Canonical[r.guardian]]
<1>1. \A r \in S : r.id \in Uuids /\ r.ward \in Uuids /\ r.guardian \in Uuids
  BY DEF Guardianships
<1>2. Orders(Less, Texts)
  BY RepositoriesAssumption
<1>3. \A r \in S : ward[r] \in Texts /\ guardian[r] \in Texts
  BY <1>1, ColumnsAssumption
<1> HIDE DEF ward, guardian
<1>4. /\ Orders(Pass(ById(S, before, Less), S, ward, Less), S)
      /\ Pass(ById(S, before, Less), S, ward, Less) = Pass(ById(S, other, Less), S, ward, Less)
  BY <1>1, <1>2, <1>3, SortedAlike
<1>5. Orders(Pass(Pass(ById(S, before, Less), S, ward, Less), S, guardian, Less), S)
  BY <1>2, <1>3, <1>4, PassOrders
<1> QED BY <1>4, <1>5 DEF GuardianshipsListed, ward, guardian

\* a moment from the clock is held as what it shows, on either database
LEMMA HeldFromClock ==
    ASSUME NEW S \in SUBSET Jobs, FromClock(S)
    PROVE  \A r \in S : /\ r.at.clock \in Int /\ WriteMoment(r.at) = r.at.clock
                        /\ \A q \in S : q.at = r.at <=> q.at.clock = r.at.clock
<1>1. \A r \in S : /\ r.at.clock \in Int /\ r.at.offset = 0
                   /\ r.at = [clock |-> r.at.clock, offset |-> r.at.offset]
  BY DEF FromClock, Jobs, Moments
<1>2. Naive # 0
  BY ColumnsAssumption
<1>3. ASSUME NEW r \in S PROVE WriteMoment(r.at) = r.at.clock
  <2>1. r.at.clock \in Int /\ r.at.offset = 0
    BY <1>1
  <2>2. WriteMoment(r.at) = r.at.clock \/ WriteMoment(r.at) = r.at.clock - 0
    BY <1>2, <2>1 DEF WriteMoment
  <2> QED BY <2>1, <2>2
<1>4. ASSUME NEW r \in S, NEW q \in S PROVE q.at = r.at <=> q.at.clock = r.at.clock
  <2>1. /\ q.at = [clock |-> q.at.clock, offset |-> 0]
        /\ r.at = [clock |-> r.at.clock, offset |-> 0]
    BY <1>1
  <2> QED BY <2>1
<1> QED BY <1>1, <1>3, <1>4

\* what the two backends' job listings compare
LEMMA JobOrders ==
    ASSUME NEW S \in SUBSET Jobs, FromClock(S), Keyed(S),
           NEW before, NEW other, Orders(before, S), Orders(other, S)
    PROVE  /\ MemoryJobs(S, before) = SqlJobs(S, other)
           /\ Orders(SqlJobs(S, other), S)
           /\ \A a, b \in S :
                <<a, b>> \in MemoryNewest(S, before) <=>
                    \/ b.at.clock < a.at.clock
                    \/ a.at.clock = b.at.clock /\ <<Canonical[b.id], Canonical[a.id]>> \in Less
           /\ \A a, b \in S :
                <<a, b>> \in SqlNewest(S, other) <=>
                    \/ b.at.clock < a.at.clock
                    \/ a.at.clock = b.at.clock /\ <<Canonical[a.id], Canonical[b.id]>> \in Less
<1> DEFINE text == [r \in S |-> Iso[r.at.clock]]
           at == [r \in S |-> WriteMoment(r.at)]
           up(a, b) == <<Canonical[a.id], Canonical[b.id]>> \in Less
<1>1. \A r \in S : r.id \in Uuids
  BY DEF Jobs
<1>2. Orders(Less, Texts) /\ Orders(Down(Less), Texts)
  BY RepositoriesAssumption, DownOrders
<1>3. \A m, n : <<m, n>> \in Down(Less) <=> <<n, m>> \in Less
  BY RepositoriesAssumption, DownIsBack
<1>4. \A m, n \in DOMAIN Iso : <<m, n>> \in Earlier <=> m < n
  BY DEF Earlier
<1>5. \A m, n \in DOMAIN Iso : <<m, n>> \in Down(Earlier) <=> n < m
  <2>1. Earlier \subseteq (DOMAIN Iso) \X (DOMAIN Iso)
    BY DEF Earlier
  <2>2. \A m, n : <<m, n>> \in Down(Earlier) <=> <<n, m>> \in Earlier
    BY <2>1, DownIsBack
  <2> QED BY <2>2, <1>4
<1>6. /\ ById(S, before, Less) = {p \in S \X S : up(p[1], p[2])}
      /\ ById(S, other, Less) = {p \in S \X S : up(p[1], p[2])}
  BY <1>1, <1>2, IdsDecide
<1>7. ById(S, before, Down(Less)) = {p \in S \X S : up(p[2], p[1])}
  <2>1. ById(S, before, Down(Less)) =
          {p \in S \X S : <<Canonical[p[1].id], Canonical[p[2].id]>> \in Down(Less)}
    BY <1>1, <1>2, IdsDecide
  <2>2. \A p \in S \X S : <<Canonical[p[1].id], Canonical[p[2].id]>> \in Down(Less) <=> up(p[2], p[1])
    BY <1>3
  <2> HIDE DEF up
  <2> QED BY <2>1, <2>2
<1>8. \A r \in S : at[r] = r.at.clock /\ at[r] \in DOMAIN Iso /\ text[r] = Iso[at[r]]
  BY HeldFromClock DEF FromClock
<1> HIDE DEF text, at, up
<1>9. \A a, b \in S : /\ <<text[a], text[b]>> \in Less <=> <<at[a], at[b]>> \in Earlier
                      /\ text[a] = text[b] <=> at[a] = at[b]
  BY <1>4, <1>8, InstantsAsTexts
<1>10. MemoryJobs(S, before) = SqlJobs(S, other)
  <2>1. ById(S, before, Less) = ById(S, other, Less)
    BY <1>6
  <2>2. \A p \in S \X S :
          (<<text[p[1]], text[p[2]]>> \in Less \/ (text[p[1]] = text[p[2]] /\ p \in ById(S, before, Less)))
          <=> (<<at[p[1]], at[p[2]]>> \in Earlier \/ (at[p[1]] = at[p[2]] /\ p \in ById(S, before, Less)))
    BY <1>9
  <2>3. Pass(ById(S, before, Less), S, text, Less) = Pass(ById(S, before, Less), S, at, Earlier)
    BY <2>2 DEF Pass
  <2> QED BY <2>1, <2>3 DEF MemoryJobs, SqlJobs, text, at
<1>11. Orders(SqlJobs(S, other), S)
  BY <1>1, <1>2, <1>8, EarlierOrders, SortedAlike DEF SqlJobs, at
<1>12. ASSUME NEW a \in S, NEW b \in S
       PROVE  <<a, b>> \in MemoryNewest(S, before)
                <=> b.at.clock < a.at.clock \/ (a.at.clock = b.at.clock /\ up(b, a))
  <2>1. <<a, b>> \in ById(S, before, Down(Less)) <=> up(b, a)
    BY <1>7
  <2>2. <<a, b>> \in MemoryNewest(S, before) <=>
          <<text[b], text[a]>> \in Less \/ (text[a] = text[b] /\ up(b, a))
    BY <2>1, <1>3 DEF MemoryNewest, Pass, text
  <2>3. /\ <<text[b], text[a]>> \in Less <=> b.at.clock < a.at.clock
        /\ text[a] = text[b] <=> a.at.clock = b.at.clock
    BY <1>4, <1>8, <1>9
  <2> QED BY <2>2, <2>3
<1>13. ASSUME NEW a \in S, NEW b \in S
       PROVE  <<a, b>> \in SqlNewest(S, other)
                <=> b.at.clock < a.at.clock \/ (a.at.clock = b.at.clock /\ up(a, b))
  <2>1. <<a, b>> \in ById(S, other, Less) <=> up(a, b)
    BY <1>6
  <2>2. <<a, b>> \in SqlNewest(S, other) <=>
          <<at[a], at[b]>> \in Down(Earlier) \/ (at[a] = at[b] /\ up(a, b))
    BY <2>1 DEF SqlNewest, Pass, at
  <2> QED BY <2>2, <1>5, <1>8
<1> QED BY <1>10, <1>11, <1>12, <1>13 DEF up

\* Whatever order the dictionary or the database has its rows in, a listing is one order, and
\* on both backends the same one: _sort_key ends in the id, and ORDER BY or the sort in
\* Python does too.
THEOREM ListingsAgree ==
    ASSUME NEW S, Keyed(S), NEW before, NEW other, Orders(before, S), Orders(other, S)
    PROVE  /\ S \subseteq People => /\ PeopleListed(S, before) = PeopleListed(S, other)
                                   /\ Orders(PeopleListed(S, before), S)
           /\ S \subseteq Sections => /\ SectionsListed(S, before) = SectionsListed(S, other)
                                     /\ Orders(SectionsListed(S, before), S)
                                     /\ RecentFirst(S, before) = RecentFirst(S, other)
                                     /\ Orders(RecentFirst(S, before), S)
           /\ S \subseteq Histories => /\ HistoriesListed(S, before) = HistoriesListed(S, other)
                                      /\ Orders(HistoriesListed(S, before), S)
           /\ S \subseteq Guardianships =>
                /\ GuardianshipsListed(S, before) = GuardianshipsListed(S, other)
                /\ Orders(GuardianshipsListed(S, before), S)
           /\ S \subseteq Jobs /\ FromClock(S) =>
                /\ MemoryJobs(S, before) = SqlJobs(S, other)
                /\ Orders(SqlJobs(S, other), S)
<1>1. Orders(Less, Texts)
  BY RepositoriesAssumption
<1>2. ASSUME S \subseteq People
      PROVE  /\ PeopleListed(S, before) = PeopleListed(S, other)
             /\ Orders(PeopleListed(S, before), S)
  <2> DEFINE email == [r \in S |-> r.email]
  <2>1. \A r \in S : r.id \in Uuids /\ r.email \in WellFormed
    BY <1>2 DEF People
  <2>2. \A r \in S : email[r] \in Texts
    BY <2>1, ColumnsAssumption
  <2> HIDE DEF email
  <2>3. /\ Orders(Pass(ById(S, before, Less), S, email, Less), S)
        /\ Pass(ById(S, before, Less), S, email, Less) = Pass(ById(S, other, Less), S, email, Less)
    BY <1>1, <2>1, <2>2, SortedAlike
  <2> QED BY <2>3 DEF PeopleListed, email
<1>3. ASSUME S \subseteq Histories
      PROVE  /\ HistoriesListed(S, before) = HistoriesListed(S, other)
             /\ Orders(HistoriesListed(S, before), S)
  <2>1. \A r \in S : r.id \in Uuids
    BY <1>3 DEF Histories
  <2> DEFINE decided == {p \in S \X S : <<Canonical[p[1].id], Canonical[p[2].id]>> \in Less}
  <2>2. Orders(ById(S, before, Less), S) /\ ById(S, before, Less) = decided
    BY <1>1, <2>1, IdsDecide
  <2>3. ById(S, other, Less) = decided
    BY <1>1, <2>1, IdsDecide
  <2> QED BY <2>2, <2>3 DEF HistoriesListed
<1> QED BY <1>2, <1>3, SectionsAlike, GuardianshipsAlike, JobOrders

\* An administrator's list of the jobs a person submitted is the same on both backends exactly
\* when no two of the jobs were submitted at one instant: the dictionary's is sorted by
\* instant and id and then reversed, and the database's has only the instant reversed.
THEOREM NewestAgree ==
    ASSUME NEW S \in SUBSET Jobs, FromClock(S), Keyed(S),
           NEW before, NEW other, Orders(before, S), Orders(other, S)
    PROVE  MemoryNewest(S, before) = SqlNewest(S, other)
             <=> \A j, k \in S : j.at = k.at => j = k
<1> DEFINE up(a, b) == <<Canonical[a.id], Canonical[b.id]>> \in Less
           later(a, b) == b.at.clock < a.at.clock
           alike(a, b) == a.at = b.at
<1>0. ASSUME NEW a \in S, NEW b \in S
      PROVE  /\ ~later(a, a) /\ alike(a, a)
             /\ alike(a, b) <=> a.at.clock = b.at.clock
             /\ alike(a, b) => ~later(a, b) /\ ~later(b, a)
  <2>1. a.at.clock \in Int /\ b.at.clock \in Int
    BY HeldFromClock
  <2>2. alike(a, b) <=> a.at.clock = b.at.clock
    BY HeldFromClock
  <2> QED BY <2>1, <2>2
<1>1. ASSUME NEW a \in S, NEW b \in S
      PROVE  <<a, b>> \in MemoryNewest(S, before) <=> later(a, b) \/ (alike(a, b) /\ up(b, a))
  <2>1. <<a, b>> \in MemoryNewest(S, before)
          <=> later(a, b) \/ (a.at.clock = b.at.clock /\ up(b, a))
    BY JobOrders
  <2> HIDE DEF later, up
  <2> QED BY <2>1, <1>0
<1>2. ASSUME NEW a \in S, NEW b \in S
      PROVE  <<a, b>> \in SqlNewest(S, other) <=> later(a, b) \/ (alike(a, b) /\ up(a, b))
  <2>1. <<a, b>> \in SqlNewest(S, other)
          <=> later(a, b) \/ (a.at.clock = b.at.clock /\ up(a, b))
    BY JobOrders
  <2> HIDE DEF later, up
  <2> QED BY <2>1, <1>0
<1>3. \A a, b \in S : (up(a, b) => ~up(b, a)) /\ (a # b => up(a, b) \/ up(b, a))
  <2>1. \A a, b \in S : /\ Canonical[a.id] \in Texts /\ Canonical[b.id] \in Texts
                        /\ Canonical[a.id] = Canonical[b.id] => a = b
    BY ColumnsAssumption DEF Jobs, Keyed
  <2>2. Orders(Less, Texts)
    BY RepositoriesAssumption
  <2> QED BY <2>1, <2>2 DEF Orders
<1> HIDE DEF up, later
<1>5. ASSUME MemoryNewest(S, before) = SqlNewest(S, other), NEW j \in S, NEW k \in S, j.at = k.at
      PROVE  j = k
  <2>1. up(k, j) <=> up(j, k)
    BY <1>0, <1>1, <1>2, <1>5
  <2> QED BY <1>3, <2>1
<1>6. ASSUME \A j, k \in S : j.at = k.at => j = k
      PROVE  MemoryNewest(S, before) = SqlNewest(S, other)
  <2>1. \A a, b \in S : <<a, b>> \in MemoryNewest(S, before) <=> <<a, b>> \in SqlNewest(S, other)
    BY <1>1, <1>2, <1>3, <1>6
  <2>2. MemoryNewest(S, before) \subseteq S \X S /\ SqlNewest(S, other) \subseteq S \X S
    BY DEF MemoryNewest, SqlNewest, Pass
  <2> QED BY <2>1, <2>2
<1> QED BY <1>5, <1>6

--------------------------------------------------------------------------------
(* Questions. *)

\* Both backends find the same person for whatever was typed as an address, refuse the same
\* person for an address in use, and find the same sections of a term: the dictionary's
\* values are searched, and the columns are compared, with a normalised text or with none.
THEOREM AnswersAgree ==
    ASSUME NEW S \in SUBSET People, NEW T \in SUBSET Sections
    PROVE  /\ \A t \in Texts : MemoryByEmail(S, t) = SqlByEmail(S, t)
           /\ \A p \in People : MemoryEmailUnused(S, p) <=> SqlEmailUnused(S, p)
           /\ \A u \in Terms : MemoryInTerm(T, u) = SqlInTerm(T, u)
<1>1. \A r \in S : r.email \in WellFormed
  BY DEF People
<1>2. ASSUME NEW t \in Texts PROVE MemoryByEmail(S, t) = SqlByEmail(S, t)
  BY <1>1 DEF MemoryByEmail, SqlByEmail, ReadEmail
<1>3. ASSUME NEW p \in People PROVE MemoryEmailUnused(S, p) <=> SqlEmailUnused(S, p)
  <2>1. ReadEmail(p.email) = {p.email}
    BY EmailComesBack DEF People
  <2> QED BY <2>1 DEF MemoryEmailUnused, SqlEmailUnused, SqlByEmail
<1>4. ASSUME NEW u \in Terms PROVE MemoryInTerm(T, u) = SqlInTerm(T, u)
  <2>1. \A s \in T : s.term \in Terms
    BY DEF Sections
  <2>2. \A s \in T : Label[s.term] = Label[u] => s.term = u
    <3> TAKE s \in T
    <3> HAVE Label[s.term] = Label[u]
    <3>1. ReadTerm(Label[s.term]) = {s.term} /\ ReadTerm(Label[u]) = {u}
      BY <2>1, TermComesBack
    <3> QED BY <3>1
  <2> QED BY <2>2 DEF MemoryInTerm, SqlInTerm
<1> QED BY <1>2, <1>3, <1>4

\* What a question selects has one row for an id, so a listing of it is one order too, and an
\* answer in the order asked has at most one row at a position (by_ids, for_students).
THEOREM SelectionsAreKeyed ==
    ASSUME NEW S, Keyed(S), NEW who, NEW ids
    PROVE  /\ Keyed(HoldersOf(S, who)) /\ Keyed(ForTeacher(S, who)) /\ Keyed(ForStudent(S, who))
           /\ Keyed(WardsOf(S, who)) /\ Keyed(GuardiansOf(S, who)) /\ Keyed(WithStatus(S, who))
           /\ Keyed(SubmittedBy(S, who)) /\ Keyed(MemoryInTerm(S, who)) /\ Keyed(SqlInTerm(S, who))
           /\ \A p, q \in InAskedOrder(S, ids) : p[1] = q[1] => p = q
<1>1. \A T \in SUBSET S : Keyed(T)
  BY DEF Keyed
<1>2. /\ HoldersOf(S, who) \subseteq S /\ ForTeacher(S, who) \subseteq S
      /\ ForStudent(S, who) \subseteq S /\ WardsOf(S, who) \subseteq S
      /\ GuardiansOf(S, who) \subseteq S /\ WithStatus(S, who) \subseteq S
      /\ SubmittedBy(S, who) \subseteq S /\ MemoryInTerm(S, who) \subseteq S
      /\ SqlInTerm(S, who) \subseteq S
  BY DEF HoldersOf, ForTeacher, ForStudent, WardsOf, GuardiansOf, WithStatus, SubmittedBy,
         MemoryInTerm, SqlInTerm
<1>3. ASSUME NEW p \in InAskedOrder(S, ids), NEW q \in InAskedOrder(S, ids), p[1] = q[1]
      PROVE  p = q
  <2>1. /\ p = <<p[1], p[2]>> /\ q = <<q[1], q[2]>> /\ p[2] \in S /\ q[2] \in S
        /\ p[2].id = ids[p[1]] /\ q[2].id = ids[q[1]]
    BY DEF InAskedOrder
  <2> QED BY <1>3, <2>1 DEF Keyed
<1> QED BY <1>1, <1>2, <1>3

\* Whom a teacher teaches is told alike by the sections of the teacher and by the sections of
\* the student: the first is what another's record is opened by, the second what is listed.
THEOREM TaughtBothWays ==
    ASSUME NEW T \in SUBSET Sections, NEW who, NEW student
    PROVE  student \in TeachingStudentsOf(T, who)
             <=> ForTeacher(T, who) \cap ForStudent(T, student) # {}
BY DEF TeachingStudentsOf, ForTeacher, ForStudent, IsEnrolled
================================================================================
