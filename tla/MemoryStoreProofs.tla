--------------------------- MODULE MemoryStoreProofs ---------------------------
(* Theorems about the in-memory store, for any keys, tasks and overlap. *)
EXTENDS MemoryStore, TLAPS

\* What popping the newest entry leaves: the other entries, where they were.
LEMMA FrontOfLog ==
    ASSUME NEW s \in Seq(Entry), s # << >>
    PROVE  /\ Front(s) \in Seq(Entry)
           /\ DOMAIN Front(s) = 1..(Len(s) - 1)
           /\ DOMAIN Front(s) \subseteq DOMAIN s
           /\ \A i \in DOMAIN Front(s) : Front(s)[i] = s[i] /\ i # Len(s)
           /\ Len(s) \in DOMAIN s
           /\ Last(s) = s[Len(s)]
           /\ Last(s) \in Entry
  <1>1. Len(s) \in Nat \ {0} /\ DOMAIN s = 1..Len(s)
    OBVIOUS
  <1>2. Front(s) = SubSeq(s, 1, Len(s) - 1) /\ Last(s) = s[Len(s)]
    BY DEF Front, Last
  <1>3. Front(s) = [i \in 1..(Len(s) - 1) |-> s[i]]
    BY <1>1, <1>2
  <1>4. QED
    BY <1>1, <1>2, <1>3

--------------------------------------------------------------------------------
(* Typing. *)

\* Every undo entry has a key, and two typed rows.
LEMMA EntryTyped ==
    ASSUME TypeOK, NEW t \in Tasks
    PROVE  /\ \A i \in DOMAIN log[t] : log[t][i] \in Entry
           /\ \A e \in EntriesOf(t) : e \in Entry
           /\ log[t] \in Seq(Entry) /\ DOMAIN log[t] = 1..Len(log[t]) /\ Len(log[t]) \in Nat
           /\ \A i \in DOMAIN log[t] :
                /\ i \in Nat /\ log[t][i].key \in Keys
                /\ log[t][i].prior.id \in Nat /\ log[t][i].written.id \in Nat
  <1>1. log[t] \in Seq(Entry)
    BY DEF TypeOK
  <1>2. ASSUME NEW e \in Entry
        PROVE  e.key \in Keys /\ e.prior.id \in Nat /\ e.written.id \in Nat
    <2>1. e.key \in Keys /\ e.prior \in Row /\ e.written \in Row
      BY DEF Entry
    <2>2. QED
      BY <2>1 DEF Row
  <1>3. QED
    BY <1>1, <1>2 DEF EntriesOf

Writes(t, k) == Add(t, k) \/ Save(t, k) \/ Delete(t, k) \/ SetAge(t, k)

\* A row as a write may leave it: newly numbered, and in a table an object of its own.
NewWrite(k, new) ==
    /\ new.id = stamp + 1
    /\ new.obj \in 0..(stamp + 1)
    /\ k \notin Deletable => new.live
    /\ k \notin Settings => new.obj = new.id

\* Adding, saving, deleting and setting are all one change of one row.
LEMMA WriteIsChange ==
    ASSUME stamp \in Nat, NEW t \in Tasks, NEW k \in Keys, Writes(t, k)
    PROVE  \E new \in Row : NewWrite(k, new) /\ Change(t, k, new)
  <1>1. ASSUME NEW live \in BOOLEAN, k \notin Settings, live \/ k \in Deletable,
               Change(t, k, Copied(live))
        PROVE  \E new \in Row : NewWrite(k, new) /\ Change(t, k, new)
    <2>1. Copied(live) \in Row
      BY DEF Copied, Row
    <2>2. NewWrite(k, Copied(live))
      BY <1>1 DEF Copied, NewWrite
    <2>3. QED
      BY <1>1, <2>1, <2>2
  <1>2. ASSUME NEW o \in 0..(stamp + 1), k \in Settings,
               Change(t, k, [id |-> stamp + 1, live |-> TRUE, obj |-> o])
        PROVE  \E new \in Row : NewWrite(k, new) /\ Change(t, k, new)
    <2> DEFINE new == [id |-> stamp + 1, live |-> TRUE, obj |-> o]
    <2>1. new \in Row /\ NewWrite(k, new)
      BY <1>2 DEF Row, NewWrite
    <2>2. QED
      BY <1>2, <2>1
  <1>3. CASE Add(t, k) \/ Save(t, k)
    BY <1>1, <1>3 DEF Add, Save
  <1>4. CASE Delete(t, k)
    BY <1>1, <1>4, StoreAssumption DEF Delete
  <1>5. CASE SetAge(t, k)
    BY <1>2, <1>5 DEF SetAge
  <1>6. QED
    BY <1>3, <1>4, <1>5 DEF Writes

\* The type invariant: every step keeps each variable in its set, and a unit of work
\* only closes once its undo log is empty.
LEMMA TypeStep == TypeOK /\ [Next]_vars => TypeOK'
  <1> SUFFICES ASSUME TypeOK, [Next]_vars PROVE TypeOK'
    OBVIOUS
  <1> USE DEF TypeOK
  <1>1. CASE UNCHANGED vars
    BY <1>1 DEF vars
  <1>2. ASSUME NEW t \in Tasks, Begin(t) \/ Rollback(t) \/ Exit(t) PROVE TypeOK'
    BY <1>2 DEF Begin, Rollback, Exit
  <1>3. ASSUME NEW t \in Tasks, Commit(t) PROVE TypeOK'
    <2>1. durable' \in [Keys -> SUBSET Nat]
      <3>1. \A e \in EntriesOf(t) : e.written.id \in Nat
        BY EntryTyped DEF EntriesOf
      <3>2. QED
        BY <1>3, <3>1 DEF Commit
    <2>2. QED
      BY <1>3, <2>1 DEF Commit
  <1>4. ASSUME NEW t \in Tasks, UndoOne(t) PROVE TypeOK'
    <2>1. Front(log[t]) \in Seq(Entry) /\ Last(log[t]) \in Entry
      BY <1>4, FrontOfLog DEF UndoOne
    <2>2. ASSUME NEW r \in Row PROVE Restored(r, Last(log[t])) \in Row
      BY <2>1 DEF Restored, Entry
    <2>3. row' \in [Keys -> Row]
      BY <1>4, <2>1, <2>2 DEF UndoOne, Entry
    <2>4. QED
      BY <1>4, <2>1, <2>3 DEF UndoOne, Undoing
  <1>5. ASSUME NEW t \in Tasks, UndoDone(t) PROVE TypeOK'
    BY <1>5 DEF UndoDone, Undoing
  <1>6. ASSUME NEW t \in Tasks, NEW k \in Keys, NEW new \in Row, Change(t, k, new)
        PROVE  TypeOK'
    <2>1. new \in Row /\ row[k] \in Row
      OBVIOUS
    <2>2. [key |-> k, prior |-> row[k], written |-> new] \in Entry
      BY <2>1 DEF Entry
    <2>3. row' \in [Keys -> Row] /\ stamp' \in Nat /\ UNCHANGED mode
      BY <1>6, <2>1 DEF Change
    <2>4. CASE mode[t] = "open"
      <3>1. Append(log[t], [key |-> k, prior |-> row[k], written |-> new]) \in Seq(Entry)
        BY <2>2
      <3>2. log' \in [Tasks -> Seq(Entry)] /\ UNCHANGED durable
        BY <1>6, <2>4, <3>1 DEF Change
      <3>3. ASSUME NEW u \in Tasks, mode'[u] = "closed" PROVE log'[u] = << >>
        BY <1>6, <2>3, <2>4, <3>3 DEF Change
      <3>4. QED
        BY <2>3, <3>2, <3>3
    <2>5. CASE mode[t] = "closed"
      BY <1>6, <2>3, <2>5 DEF Change
    <2>6. QED
      BY <1>6, <2>4, <2>5 DEF Change
  <1>7. ASSUME NEW t \in Tasks, NEW k \in Keys, Writes(t, k) PROVE TypeOK'
    BY <1>6, <1>7, WriteIsChange
  <1>8. QED
    BY <1>1, <1>2, <1>3, <1>4, <1>5, <1>7 DEF Next, Writes

\* Every state of the store is well typed.
THEOREM StoreTyped == Spec => []TypeOK
  <1>1. Init => TypeOK
    BY DEF Init, TypeOK, Row
  <1>2. QED
    BY <1>1, TypeStep, PTL DEF Spec

--------------------------------------------------------------------------------
(* No rollback destroys a committed write. *)

\* UndoNests for one row, through the positions of the undo entries.
NestsAt(k) ==
    /\ \A c \in durable[k] : c <= row[k].id
    /\ \A t \in Tasks : \A i \in DOMAIN log[t] :
         log[t][i].key = k =>
           /\ log[t][i].written.id <= row[k].id
           /\ log[t][i].written.id \notin durable[k]
           /\ \A c \in durable[k] : c < log[t][i].written.id => c <= log[t][i].prior.id
           /\ \A u \in Tasks : \A j \in DOMAIN log[u] :
                /\ log[u][j].key = k
                /\ log[u][j].written.id < log[t][i].written.id
                => log[u][j].written.id <= log[t][i].prior.id

OwnObjects(e) == e.prior.obj = e.prior.id /\ e.written.obj = e.written.id

LEMMA NestsByIndex == UndoNests <=> \A k \in Kept : NestsAt(k)
  <1>1. ASSUME NEW k PROVE \A p : p \in Pending(k) <=>
            \E u \in Tasks : \E j \in DOMAIN log[u] :
                log[u][j].key = k /\ log[u][j].written.id = p
    BY DEF Pending, EntriesOf
  <1>2. ASSUME UndoNests, NEW k \in Kept PROVE NestsAt(k)
    BY <1>1, <1>2 DEF UndoNests, NestsAt, EntriesOf
  <1>3. ASSUME \A k \in Kept : NestsAt(k) PROVE UndoNests
    <2> SUFFICES ASSUME NEW k \in Kept
                 PROVE  /\ \A p \in durable[k] \cup Pending(k) : p <= row[k].id
                        /\ \A t \in Tasks : \A e \in EntriesOf(t) :
                             e.key = k => /\ e.written.id \notin durable[k]
                                          /\ \A p \in durable[k] \cup Pending(k) :
                                               p < e.written.id => p <= e.prior.id
      BY DEF UndoNests
    <2>1. NestsAt(k)
      BY <1>3
    <2>2. QED
      BY <1>1, <2>1 DEF NestsAt, EntriesOf
  <1>4. QED
    BY <1>2, <1>3

LEMMA NestsByIndexLater ==
    UndoNests' <=> \A k \in Kept : NestsAt(k)'
  <1>1. (UndoNests <=> \A k \in Kept : NestsAt(k))'
    BY NestsByIndex, PTL
  <1>2. QED
    BY <1>1

\* A write goes on top of its row's stack.
LEMMA ChangeKeepsInv ==
    ASSUME StoreInv, TypeOK', NEW t \in Tasks, NEW k \in Keys, NEW new \in Row,
           NewWrite(k, new), Change(t, k, new)
    PROVE  StoreInv'
  <1> USE DEF Kept
  <1> DEFINE entry == [key |-> k, prior |-> row[k], written |-> new]
  <1>1. TypeOK /\ WritesAreUnique /\ \A l \in Kept : NestsAt(l)
    BY NestsByIndex DEF StoreInv
  <1>2. /\ stamp \in Nat /\ stamp' = stamp + 1 /\ row[k] \in Row /\ new.id = stamp + 1
        /\ \A l \in Keys : row'[l] = IF l = k THEN new ELSE row[l]
        /\ \A l \in Keys : row[l].id \in Nat /\ durable[l] \subseteq Nat
    BY <1>1 DEF Change, TypeOK, Row, NewWrite
  <1>0. /\ k \notin Deletable => new.live
        /\ k \notin Settings => new.obj = new.id
        /\ \A l \in Keys \ Settings : row'[l].obj = row'[l].id
    BY <1>1, <1>2 DEF NewWrite, WritesAreUnique
  <1>3. \A u \in Tasks : \A i \in DOMAIN log[u] :
          /\ i \in Nat /\ log[u][i].key \in Keys
          /\ log[u][i].prior.id \in Nat /\ log[u][i].written.id \in Nat
    BY <1>1, EntryTyped
  <1>4. CASE mode[t] = "open"
    <2>1. durable' = durable /\ log' = [log EXCEPT ![t] = Append(log[t], entry)]
      BY <1>4 DEF Change
    <2>2. \A u \in Tasks : \A i \in DOMAIN log'[u] :
            \/ i \in DOMAIN log[u] /\ log'[u][i] = log[u][i]
            \/ u = t /\ i = Len(log[t]) + 1 /\ log'[u][i] = entry
      BY <1>1, <2>1, EntryTyped DEF TypeOK
    <2>3. WritesAreUnique'
      <3>1. \A l \in Keys : row'[l].id <= stamp' /\ \A c \in durable'[l] : c <= stamp'
        BY <1>1, <1>2, <2>1 DEF WritesAreUnique
      <3>2. ASSUME NEW u \in Tasks, NEW i \in DOMAIN log[u]
            PROVE  /\ log[u][i].prior.id <= stamp /\ log[u][i].written.id <= stamp
                   /\ log[u][i].key \notin Deletable => log[u][i].written.live
                   /\ log[u][i].key \notin Settings => OwnObjects(log[u][i])
                   /\ \A v \in Tasks : \A j \in DOMAIN log[v] :
                        log[u][i].written.id = log[v][j].written.id => u = v /\ i = j
        BY <1>1 DEF WritesAreUnique, OwnObjects
      <3>3. row[k].id <= stamp /\ row[k].id \in Nat
        BY <1>1, <1>2 DEF WritesAreUnique
      <3>4. ASSUME NEW u \in Tasks, NEW i \in DOMAIN log'[u]
            PROVE  /\ log'[u][i].prior.id <= stamp' /\ log'[u][i].written.id <= stamp'
                   /\ log'[u][i].key \notin Deletable => log'[u][i].written.live
                   /\ log'[u][i].key \notin Settings => OwnObjects(log'[u][i])
        <4>1. CASE i \in DOMAIN log[u] /\ log'[u][i] = log[u][i]
          BY <1>2, <1>3, <3>2, <4>1
        <4>2. CASE log'[u][i] = entry
          <5>1. entry.key = k /\ entry.prior = row[k] /\ entry.written = new
            OBVIOUS
          <5>2. k \notin Settings => row[k].obj = row[k].id
            BY <1>1 DEF WritesAreUnique
          <5>3. QED
            BY <1>0, <1>2, <3>3, <4>2, <5>1, <5>2 DEF OwnObjects
        <4>3. QED
          BY <2>2, <4>1, <4>2
      <3>5. ASSUME NEW u \in Tasks, NEW i \in DOMAIN log'[u],
                   NEW v \in Tasks, NEW j \in DOMAIN log'[v],
                   log'[u][i].written.id = log'[v][j].written.id
            PROVE  u = v /\ i = j
        <4>1. ASSUME NEW x \in Tasks, NEW h \in DOMAIN log[x]
              PROVE  log[x][h].written.id # entry.written.id
          <5>1. entry.written.id = stamp + 1
            BY <1>2
          <5>2. QED
            BY <1>2, <1>3, <3>2, <5>1
        <4>2. CASE i \in DOMAIN log[u] /\ log'[u][i] = log[u][i]
          BY <2>2, <3>2, <3>5, <4>1, <4>2
        <4>3. CASE u = t /\ i = Len(log[t]) + 1 /\ log'[u][i] = entry
          BY <2>2, <3>5, <4>1, <4>3
        <4>4. QED
          BY <2>2, <4>2, <4>3
      <3>6. QED
        BY <1>0, <3>1, <3>4, <3>5 DEF WritesAreUnique, OwnObjects
    <2>4. ASSUME NEW l \in Kept PROVE NestsAt(l)'
      <3>1. \A c \in durable'[l] : c <= row[l].id /\ row[l].id <= row'[l].id
        BY <1>1, <1>2, <2>1 DEF NestsAt, WritesAreUnique
      <3>2. ASSUME NEW u \in Tasks, NEW i \in DOMAIN log'[u], log'[u][i].key = l,
                   i \in DOMAIN log[u], log'[u][i] = log[u][i]
            PROVE  /\ log'[u][i].written.id <= row'[l].id
                   /\ log'[u][i].written.id \notin durable'[l]
                   /\ \A c \in durable'[l] : c < log'[u][i].written.id => c <= log'[u][i].prior.id
                   /\ \A v \in Tasks : \A j \in DOMAIN log'[v] :
                        /\ log'[v][j].key = l
                        /\ log'[v][j].written.id < log'[u][i].written.id
                        => log'[v][j].written.id <= log'[u][i].prior.id
        <4>1. log[u][i].written.id <= stamp
          BY <1>1, <3>2 DEF WritesAreUnique
        <4>2. /\ log[u][i].written.id <= row[l].id
              /\ log[u][i].written.id \notin durable[l]
              /\ \A c \in durable[l] : c < log[u][i].written.id => c <= log[u][i].prior.id
          BY <1>1, <3>2 DEF NestsAt
        <4>3. row[l].id <= row'[l].id /\ row'[l].id \in Nat /\ durable'[l] = durable[l]
          BY <1>2, <2>1, <3>1, <1>1 DEF WritesAreUnique
        <4>4. ASSUME NEW v \in Tasks, NEW j \in DOMAIN log'[v], log'[v][j].key = l,
                     log'[v][j].written.id < log'[u][i].written.id
              PROVE  log'[v][j].written.id <= log'[u][i].prior.id
          <5>1. CASE j \in DOMAIN log[v] /\ log'[v][j] = log[v][j]
            BY <1>1, <3>2, <4>4, <5>1 DEF NestsAt
          <5>2. CASE log'[v][j] = entry
            BY <1>2, <1>3, <3>2, <4>1, <4>4, <5>2
          <5>3. QED
            BY <2>2, <5>1, <5>2
        <4>5. QED
          BY <1>2, <1>3, <3>2, <4>2, <4>3, <4>4
      <3>3. ASSUME NEW v \in Tasks, NEW j \in DOMAIN log'[v], log'[v][j].key = l, l = k
            PROVE  \/ log'[v][j].written.id <= row[k].id
                   \/ log'[v][j] = entry
        BY <1>1, <2>2, <3>3 DEF NestsAt
      <3>4. ASSUME NEW u \in Tasks, NEW i \in DOMAIN log'[u], log'[u][i].key = l,
                   log'[u][i] = entry
            PROVE  /\ log'[u][i].written.id <= row'[l].id
                   /\ log'[u][i].written.id \notin durable'[l]
                   /\ \A c \in durable'[l] : c < log'[u][i].written.id => c <= log'[u][i].prior.id
                   /\ \A v \in Tasks : \A j \in DOMAIN log'[v] :
                        /\ log'[v][j].key = l
                        /\ log'[v][j].written.id < log'[u][i].written.id
                        => log'[v][j].written.id <= log'[u][i].prior.id
        <4>1. l = k /\ log'[u][i].written.id = stamp + 1 /\ log'[u][i].prior = row[k]
          BY <1>2, <3>4
        <4>2. row'[l].id = stamp + 1 /\ \A c \in durable'[l] : c \in Nat /\ c <= stamp
          BY <1>1, <1>2, <2>1, <4>1 DEF WritesAreUnique
        <4>3. QED
          BY <1>2, <3>1, <3>3, <4>1, <4>2
      <3>5. \A c \in durable'[l] : c <= row'[l].id
        BY <1>1, <1>2, <2>1 DEF NestsAt, WritesAreUnique
      <3>6. QED
        BY <2>2, <3>2, <3>4, <3>5 DEF NestsAt
    <2>5. QED
      BY <2>3, <2>4, NestsByIndexLater DEF StoreInv
  <1>5. CASE mode[t] = "closed"
    <2>1. log' = log /\ durable' = [durable EXCEPT ![k] = @ \cup {stamp + 1}]
      BY <1>5 DEF Change
    <2>2. \A l \in Keys : durable'[l] = IF l = k THEN durable[l] \cup {stamp + 1} ELSE durable[l]
      BY <1>1, <2>1 DEF TypeOK
    <2>3. WritesAreUnique'
      BY <1>0, <1>1, <1>2, <1>3, <2>1, <2>2 DEF WritesAreUnique
    <2>4. ASSUME NEW l \in Kept PROVE NestsAt(l)'
      BY <1>1, <1>2, <1>3, <2>1, <2>2 DEF NestsAt, WritesAreUnique
    <2>5. QED
      BY <2>3, <2>4, NestsByIndexLater DEF StoreInv
  <1>6. QED
    BY <1>4, <1>5 DEF Change

\* Committing empties one undo log and adds its writes to the committed ones.
LEMMA CommitKeepsInv ==
    ASSUME StoreInv, TypeOK', NEW t \in Tasks, Commit(t)
    PROVE  StoreInv'
  <1> USE DEF Kept
  <1>1. TypeOK /\ WritesAreUnique /\ \A l \in Kept : NestsAt(l)
    BY NestsByIndex DEF StoreInv
  <1>2. /\ row' = row /\ stamp' = stamp /\ log' = [log EXCEPT ![t] = << >>]
        /\ stamp \in Nat /\ \A l \in Keys : row[l].id \in Nat /\ durable[l] \subseteq Nat
    BY <1>1 DEF Commit, TypeOK, Row
  <1>3. \A u \in Tasks : \A i \in DOMAIN log[u] :
          /\ i \in Nat /\ log[u][i].key \in Keys
          /\ log[u][i].prior.id \in Nat /\ log[u][i].written.id \in Nat
    BY <1>1, EntryTyped
  <1>4. \A u \in Tasks : \A i \in DOMAIN log'[u] :
          u # t /\ i \in DOMAIN log[u] /\ log'[u][i] = log[u][i]
    BY <1>1, <1>2 DEF TypeOK
  <1>5. \A l \in Keys : \A c \in durable'[l] :
          \/ c \in durable[l]
          \/ \E i \in DOMAIN log[t] : log[t][i].key = l /\ log[t][i].written.id = c
    BY DEF Commit, EntriesOf
  <1>6. WritesAreUnique'
    <2>1. \A k \in Keys : row'[k].id <= stamp' /\ \A c \in durable'[k] : c <= stamp'
      BY <1>1, <1>2, <1>5 DEF WritesAreUnique
    <2>2. QED
      BY <1>1, <1>2, <1>4, <2>1 DEF WritesAreUnique
  <1>7. ASSUME NEW l \in Kept PROVE NestsAt(l)'
    <2>1. \A c \in durable'[l] : c <= row'[l].id
      BY <1>1, <1>2, <1>5 DEF NestsAt
    <2>2. ASSUME NEW u \in Tasks, NEW i \in DOMAIN log'[u], log'[u][i].key = l
          PROVE  /\ log'[u][i].written.id <= row'[l].id
                 /\ log'[u][i].written.id \notin durable'[l]
                 /\ \A c \in durable'[l] : c < log'[u][i].written.id => c <= log'[u][i].prior.id
                 /\ \A v \in Tasks : \A j \in DOMAIN log'[v] :
                      /\ log'[v][j].key = l
                      /\ log'[v][j].written.id < log'[u][i].written.id
                      => log'[v][j].written.id <= log'[u][i].prior.id
      <3>1. u # t /\ i \in DOMAIN log[u] /\ log'[u][i] = log[u][i] /\ log[u][i].key = l
        BY <1>4, <2>2
      <3>2. log'[u][i].written.id <= row'[l].id
        BY <1>1, <1>2, <3>1 DEF NestsAt
      <3>3. log'[u][i].written.id \notin durable'[l]
        BY <1>1, <1>5, <3>1 DEF NestsAt, WritesAreUnique
      <3>4. \A c \in durable'[l] : c < log'[u][i].written.id => c <= log'[u][i].prior.id
        BY <1>1, <1>5, <3>1 DEF NestsAt
      <3>5. \A v \in Tasks : \A j \in DOMAIN log'[v] :
              /\ log'[v][j].key = l
              /\ log'[v][j].written.id < log'[u][i].written.id
              => log'[v][j].written.id <= log'[u][i].prior.id
        BY <1>1, <1>4, <3>1 DEF NestsAt
      <3>6. QED
        BY <3>2, <3>3, <3>4, <3>5
    <2>3. QED
      BY <2>1, <2>2 DEF NestsAt
  <1>8. QED
    BY <1>6, <1>7, NestsByIndexLater DEF StoreInv

\* Undoing pops the top of a row's stack, or nothing.
LEMMA UndoKeepsInv ==
    ASSUME StoreInv, TypeOK', NEW t \in Tasks, UndoOne(t)
    PROVE  StoreInv'
  <1> USE DEF Kept
  <1> DEFINE e == Last(log[t])
             n == Len(log[t])
  <1>1. TypeOK /\ WritesAreUnique /\ \A l \in Kept : NestsAt(l)
    BY NestsByIndex DEF StoreInv
  <1>2. /\ log[t] \in Seq(Entry) /\ log[t] # << >>
        /\ n \in DOMAIN log[t] /\ e = log[t][n] /\ e \in Entry
        /\ durable' = durable /\ stamp' = stamp /\ log' = [log EXCEPT ![t] = Front(log[t])]
        /\ stamp \in Nat
    BY <1>1, EntryTyped, FrontOfLog DEF UndoOne, TypeOK
  <1>3. /\ \A u \in Tasks : \A i \in DOMAIN log[u] :
             /\ i \in Nat /\ log[u][i].key \in Keys
             /\ log[u][i].prior.id \in Nat /\ log[u][i].written.id \in Nat
        /\ \A l \in Keys : row[l].id \in Nat /\ durable[l] \subseteq Nat
    <2>1. \A l \in Keys : row[l].id \in Nat /\ durable[l] \subseteq Nat
      BY <1>1 DEF TypeOK, Row
    <2>2. \A u \in Tasks : \A i \in DOMAIN log[u] :
            /\ i \in Nat /\ log[u][i].key \in Keys
            /\ log[u][i].prior.id \in Nat /\ log[u][i].written.id \in Nat
      BY <1>1, EntryTyped
    <2>3. QED
      BY <2>1, <2>2
  <1>4. \A u \in Tasks : \A i \in DOMAIN log'[u] :
          i \in DOMAIN log[u] /\ log'[u][i] = log[u][i] /\ ~(u = t /\ i = n)
    BY <1>1, <1>2, FrontOfLog DEF TypeOK
  <1>5. \A l \in Keys : row'[l] = IF l = e.key THEN Restored(row[l], e) ELSE row[l]
    BY <1>1, <1>2 DEF UndoOne, TypeOK, Entry
  <1>6. WritesAreUnique'
    <2>1. \A k \in Keys : row'[k].id <= stamp
      BY <1>1, <1>2, <1>3, <1>5 DEF WritesAreUnique, Restored
    <2>2. \A k \in Keys \ Settings : row'[k].obj = row'[k].id
      BY <1>1, <1>2, <1>5 DEF WritesAreUnique, Restored
    <2>3. QED
      BY <1>1, <1>2, <1>4, <2>1, <2>2 DEF WritesAreUnique
  <1>7. ASSUME NEW l \in Kept PROVE NestsAt(l)'
    <2>1. \/ row'[l] = row[l]
          \/ l = e.key /\ row'[l] = e.prior /\ row[l].id = e.written.id
      <3>1. /\ l \in Keys \ Settings /\ l \notin Deletable /\ row[l].obj = row[l].id
            /\ l = e.key => e.written.live /\ e.written.obj = e.written.id
        BY <1>1, <1>2 DEF WritesAreUnique, Kept
      <3>2. QED
        BY <1>5, <3>1 DEF Restored, Is
    <2>2. \A c \in durable[l] : c <= row'[l].id
      <3>1. l = e.key => e.written.id \notin durable[l]
        BY <1>1, <1>2 DEF NestsAt
      <3>2. l = e.key => \A c \in durable[l] : c < e.written.id => c <= e.prior.id
        BY <1>1, <1>2 DEF NestsAt
      <3>3. QED
        BY <1>1, <1>2, <1>3, <2>1, <3>1, <3>2 DEF NestsAt
    <2>3. ASSUME NEW u \in Tasks, NEW i \in DOMAIN log'[u], log'[u][i].key = l
          PROVE  log'[u][i].written.id <= row'[l].id
      <3>1. /\ i \in DOMAIN log[u] /\ log'[u][i] = log[u][i] /\ ~(u = t /\ i = n)
            /\ log[u][i].key = l
        BY <1>4, <2>3
      <3>2. log[u][i].written.id <= row[l].id /\ log[u][i].written.id # e.written.id
        BY <1>1, <1>2, <3>1 DEF NestsAt, WritesAreUnique
      <3>3. l = e.key /\ log[u][i].written.id < e.written.id => log[u][i].written.id <= e.prior.id
        BY <1>1, <1>2, <3>1 DEF NestsAt
      <3>4. QED
        BY <1>2, <1>3, <2>1, <3>1, <3>2, <3>3
    <2>4. QED
      BY <1>1, <1>2, <1>4, <2>2, <2>3 DEF NestsAt
  <1>8. QED
    BY <1>6, <1>7, NestsByIndexLater DEF StoreInv

LEMMA StoreInvStep == StoreInv /\ [Next]_vars => StoreInv'
  <1> SUFFICES ASSUME StoreInv, [Next]_vars PROVE StoreInv'
    OBVIOUS
  <1>1. TypeOK'
    BY TypeStep DEF StoreInv
  <1>2. ASSUME UNCHANGED <<row, log, stamp, durable>> PROVE StoreInv'
    BY <1>1, <1>2 DEF StoreInv, WritesAreUnique, UndoNests, Pending, EntriesOf
  <1>3. ASSUME NEW t \in Tasks, Begin(t) \/ Rollback(t) \/ Exit(t) \/ UndoDone(t) PROVE StoreInv'
    BY <1>2, <1>3 DEF Begin, Rollback, Exit, UndoDone
  <1>4. ASSUME NEW t \in Tasks, Commit(t) PROVE StoreInv'
    BY <1>1, <1>4, CommitKeepsInv
  <1>5. ASSUME NEW t \in Tasks, UndoOne(t) PROVE StoreInv'
    BY <1>1, <1>5, UndoKeepsInv
  <1>6. ASSUME NEW t \in Tasks, NEW k \in Keys, Writes(t, k)
        PROVE  StoreInv'
    <2>1. PICK new \in Row : NewWrite(k, new) /\ Change(t, k, new)
      BY <1>6, WriteIsChange DEF StoreInv, TypeOK
    <2>2. QED
      BY <1>1, <2>1, ChangeKeepsInv
  <1>7. CASE UNCHANGED vars
    BY <1>2, <1>7 DEF vars
  <1>8. QED
    BY <1>3, <1>4, <1>5, <1>6, <1>7 DEF Next, Writes

\* The inductive invariant: writes are unique, and undo entries nest.
THEOREM StoreInvariant == Spec => []StoreInv
  <1>1. Init => StoreInv
    <2> SUFFICES ASSUME Init PROVE StoreInv
      OBVIOUS
    <2>1. TypeOK
      BY DEF Init, TypeOK, Row
    <2>2. \A t \in Tasks : EntriesOf(t) = {} /\ DOMAIN log[t] = {}
      BY DEF Init, EntriesOf
    <2>3. WritesAreUnique
      BY <2>2 DEF Init, WritesAreUnique
    <2>4. UndoNests
      BY <2>2 DEF Init, UndoNests, Pending, Kept
    <2>5. QED
      BY <2>1, <2>3, <2>4 DEF StoreInv
  <1>2. QED
    BY <1>1, StoreInvStep, PTL DEF Spec

\* However transactions overlap, no rollback takes a row nobody deletes back past a
\* committed write.
THEOREM CommittedWritesSurvive == Spec => []CommittedWritesStand
  <1>1. StoreInv => CommittedWritesStand
    BY DEF StoreInv, UndoNests, CommittedWritesStand
  <1>2. QED
    BY <1>1, StoreInvariant, PTL

--------------------------------------------------------------------------------
(* Units of work that do not overlap. *)

Clean(k) == \A t \in Tasks : \A i \in DOMAIN log[t] : log[t][i].key # k

\* What an undo entry rests on: the entry below it on its row, or what was committed.
EntryChains(t, i, k) ==
    /\ log[t][i].prior.id < log[t][i].written.id
    /\ log[t][i].written.id <= row[k].id
    /\ \A c \in durable[k] : c <= log[t][i].prior.id
    /\ \A j \in DOMAIN log[t] :
          j < i /\ log[t][j].key = k => log[t][j].written.id <= log[t][i].prior.id
    /\ \/ \E j \in DOMAIN log[t] :
             j < i /\ log[t][j].key = k /\ log[t][j].written = log[t][i].prior
       \/ /\ \A j \in DOMAIN log[t] : j < i => log[t][j].key # k
          /\ log[t][i].prior.id \in durable[k]

\* A row that a unit of work has written holds what its newest entry wrote, and its oldest
\* one is where the committed row is.
Ends(t, k) ==
    /\ \E i \in DOMAIN log[t] : log[t][i].key = k /\ log[t][i].written = row[k]
    /\ \E i \in DOMAIN log[t] :
          log[t][i].key = k /\ \A j \in DOMAIN log[t] : j < i => log[t][j].key # k

\* One row: one unit of work at most has entries on it, and they make a chain from the
\* committed row to what the row holds.
ChainAt(k) ==
    /\ \A t, u \in Tasks : \A i \in DOMAIN log[t], j \in DOMAIN log[u] :
          log[t][i].key = k /\ log[u][j].key = k => t = u
    /\ Clean(k) => row[k].id \in durable[k]
    /\ \A c \in durable[k] : c <= row[k].id
    /\ \A t \in Tasks : \A i \in DOMAIN log[t] :
          log[t][i].key = k => Ends(t, k) /\ EntryChains(t, i, k)

\* The inductive invariant of a store whose units of work do not overlap.
ChainInv == \A k \in Keys : ChainAt(k)

\* The numbers the chain compares.
LEMMA IdsAreNumbers ==
    ASSUME TypeOK
    PROVE  /\ stamp \in Nat
           /\ \A k \in Keys : row[k] \in Row /\ row[k].id \in Nat /\ durable[k] \subseteq Nat
           /\ \A t \in Tasks : \A i \in DOMAIN log[t] :
                /\ i \in Nat /\ log[t][i].key \in Keys
                /\ log[t][i].prior.id \in Nat /\ log[t][i].written.id \in Nat
  <1>1. stamp \in Nat /\ \A k \in Keys : row[k] \in Row /\ row[k].id \in Nat /\ durable[k] \subseteq Nat
    BY DEF TypeOK, Row
  <1>2. ASSUME NEW t \in Tasks, NEW i \in DOMAIN log[t]
        PROVE  /\ i \in Nat /\ log[t][i].key \in Keys
               /\ log[t][i].prior.id \in Nat /\ log[t][i].written.id \in Nat
    BY EntryTyped
  <1>3. QED
    BY <1>1, <1>2

\* A step that leaves a row, its committed writes and its entries alone.
LEMMA OtherRowKeeps ==
    ASSUME NEW k \in Keys, ChainAt(k), row'[k] = row[k], durable'[k] = durable[k],
           \A u \in Tasks : \A i \in DOMAIN log[u] :
              log[u][i].key = k => i \in DOMAIN log'[u] /\ log'[u][i] = log[u][i],
           \A u \in Tasks : \A i \in DOMAIN log'[u] :
              log'[u][i].key = k => i \in DOMAIN log[u] /\ log'[u][i] = log[u][i]
    PROVE  ChainAt(k)'
  <1>1. ASSUME NEW t \in Tasks, NEW u \in Tasks, NEW i \in DOMAIN log'[t], NEW j \in DOMAIN log'[u],
               log'[t][i].key = k, log'[u][j].key = k
        PROVE  t = u
    BY <1>1 DEF ChainAt
  <1>2. Clean(k)' => row[k].id \in durable[k]
    BY DEF ChainAt, Clean
  <1>3. ASSUME NEW t \in Tasks, NEW i \in DOMAIN log'[t], log'[t][i].key = k
        PROVE  Ends(t, k)' /\ EntryChains(t, i, k)'
    <2>1. i \in DOMAIN log[t] /\ log'[t][i] = log[t][i] /\ Ends(t, k) /\ EntryChains(t, i, k)
      BY <1>3 DEF ChainAt
    <2>2. Ends(t, k)'
      <3>1. PICK j \in DOMAIN log[t] : log[t][j].key = k /\ log[t][j].written = row[k]
        BY <2>1 DEF Ends
      <3>2. PICK h \in DOMAIN log[t] :
              log[t][h].key = k /\ \A g \in DOMAIN log[t] : g < h => log[t][g].key # k
        BY <2>1 DEF Ends
      <3>3. QED
        BY <3>1, <3>2 DEF Ends
    <2>3. EntryChains(t, i, k)'
      <3>1. /\ log'[t][i].prior.id < log'[t][i].written.id
            /\ log'[t][i].written.id <= row'[k].id
            /\ \A c \in durable'[k] : c <= log'[t][i].prior.id
            /\ \A j \in DOMAIN log'[t] :
                 j < i /\ log'[t][j].key = k => log'[t][j].written.id <= log'[t][i].prior.id
        BY <2>1 DEF EntryChains
      <3>2. \/ \E j \in DOMAIN log'[t] :
                 j < i /\ log'[t][j].key = k /\ log'[t][j].written = log'[t][i].prior
            \/ /\ \A j \in DOMAIN log'[t] : j < i => log'[t][j].key # k
               /\ log'[t][i].prior.id \in durable'[k]
        BY <2>1 DEF EntryChains
      <3>3. QED
        BY <3>1, <3>2 DEF EntryChains
    <2>4. QED
      BY <2>2, <2>3
  <1>4. QED
    BY <1>1, <1>2, <1>3 DEF ChainAt

\* A write goes on top of the chain of its row, which nobody else has entries on.
LEMMA ChangeKeepsChain ==
    ASSUME StoreInv, ChainInv, ~Overlap, NEW t \in Tasks, NEW k \in Keys, NEW new \in Row,
           NewWrite(k, new), Change(t, k, new)
    PROVE  ChainInv'
  <1> DEFINE entry == [key |-> k, prior |-> row[k], written |-> new]
  <1>1. TypeOK /\ ChainAt(k)
    BY DEF StoreInv, ChainInv
  <1>2. /\ stamp \in Nat /\ row[k].id \in Nat /\ durable[k] \subseteq Nat
        /\ row[k].id <= stamp /\ \A c \in durable[k] : c <= stamp
    BY <1>1, IdsAreNumbers DEF StoreInv, WritesAreUnique
  <1>3. /\ row'[k] = new /\ row'[k].id = stamp + 1
        /\ \A l \in Keys \ {k} : row'[l] = row[l]
    BY <1>1 DEF Change, TypeOK, NewWrite
  <1>0. new.id = stamp + 1
    BY DEF NewWrite
  <1>4. \A u \in Tasks \ {t} : \A i \in DOMAIN log[u] : log[u][i].key # k
    BY DEF Change, Dirty, EntriesOf
  <1>5. \A u \in Tasks : \A i \in DOMAIN log[u] : i \in Nat
    BY <1>1, IdsAreNumbers
  <1>6. CASE mode[t] = "open"
    <2>1. durable' = durable /\ log' = [log EXCEPT ![t] = Append(log[t], entry)]
      BY <1>6 DEF Change
    <2>2. log[t] \in Seq(Entry) /\ Len(log[t]) \in Nat /\ DOMAIN log[t] = 1..Len(log[t])
      BY <1>1, EntryTyped
    <2> PICK n \in Nat : n = Len(log[t]) + 1
      BY <2>2
    <2>3. /\ n \in DOMAIN log'[t] /\ log'[t][n] = entry
          /\ \A u \in Tasks \ {t} : log'[u] = log[u]
          /\ \A i \in DOMAIN log[t] : i \in DOMAIN log'[t] /\ log'[t][i] = log[t][i] /\ i < n
          /\ \A i \in DOMAIN log'[t] : i = n \/ i \in DOMAIN log[t]
      BY <1>1, <2>1, <2>2 DEF TypeOK
    <2>4. entry.key = k /\ entry.prior = row[k] /\ entry.written = new /\ new.id = stamp + 1
      BY <1>0
    <2> HIDE DEF entry
    <2>5. ASSUME NEW l \in Keys \ {k} PROVE ChainAt(l)'
      <3>1. \A u \in Tasks : \A i \in DOMAIN log'[u] :
               log'[u][i].key = l => i \in DOMAIN log[u] /\ log'[u][i] = log[u][i]
        BY <2>3, <2>4
      <3>2. \A u \in Tasks : \A i \in DOMAIN log[u] :
               log[u][i].key = l => i \in DOMAIN log'[u] /\ log'[u][i] = log[u][i]
        BY <2>3
      <3>3. ChainAt(l) /\ row'[l] = row[l] /\ durable'[l] = durable[l]
        BY <1>3, <2>1 DEF ChainInv
      <3>4. QED
        BY <3>1, <3>2, <3>3, OtherRowKeeps
    <2>6. ChainAt(k)'
      <3>1. \A u \in Tasks : \A i \in DOMAIN log'[u] : log'[u][i].key = k => u = t
        BY <1>4, <2>3
      <3>2. ~Clean(k)'
        BY <2>3, <2>4 DEF Clean
      <3>3. \A c \in durable'[k] : c <= row'[k].id
        BY <1>2, <1>3, <2>1
      <3>4. Ends(t, k)'
        <4>1. \E i \in DOMAIN log'[t] : log'[t][i].key = k /\ log'[t][i].written = row'[k]
          BY <1>3, <2>3, <2>4
        <4>2. CASE \A j \in DOMAIN log[t] : log[t][j].key # k
          <5>1. \A j \in DOMAIN log'[t] : j < n => log'[t][j].key # k
            BY <2>3, <4>2
          <5>2. QED
            BY <2>3, <2>4, <4>1, <5>1 DEF Ends
        <4>3. CASE \E j \in DOMAIN log[t] : log[t][j].key = k
          <5>1. PICK h \in DOMAIN log[t] :
                  log[t][h].key = k /\ \A g \in DOMAIN log[t] : g < h => log[t][g].key # k
            BY <1>1, <4>3 DEF ChainAt, Ends
          <5>2. \A g \in DOMAIN log'[t] : g < h => log'[t][g].key # k
            BY <1>5, <2>2, <2>3, <5>1
          <5>3. QED
            BY <2>3, <4>1, <5>1, <5>2 DEF Ends
        <4>4. QED
          BY <4>2, <4>3
      <3>5. EntryChains(t, n, k)'
        <4>1. /\ row[k].id < stamp + 1 /\ stamp + 1 <= row'[k].id
              /\ \A c \in durable'[k] : c <= row[k].id
          BY <1>1, <1>2, <1>3, <2>1 DEF ChainAt
        <4>2. ASSUME NEW j \in DOMAIN log'[t], j < n, log'[t][j].key = k
              PROVE  log'[t][j].written.id <= row[k].id
          BY <1>1, <2>3, <4>2 DEF ChainAt, EntryChains
        <4>3. CASE \A j \in DOMAIN log[t] : log[t][j].key # k
          <5>1. Clean(k) /\ \A j \in DOMAIN log'[t] : j < n => log'[t][j].key # k
            BY <1>4, <2>3, <4>3 DEF Clean
          <5>2. row[k].id \in durable'[k]
            BY <1>1, <2>1, <5>1 DEF ChainAt
          <5>3. QED
            BY <2>3, <2>4, <4>1, <4>2, <5>1, <5>2 DEF EntryChains
        <4>4. CASE \E j \in DOMAIN log[t] : log[t][j].key = k
          <5>1. PICK h \in DOMAIN log[t] : log[t][h].key = k /\ log[t][h].written = row[k]
            BY <1>1, <4>4 DEF ChainAt, Ends
          <5>2. h \in DOMAIN log'[t] /\ h < n /\ log'[t][h].key = k /\ log'[t][h].written = row[k]
            BY <2>3, <5>1
          <5>3. QED
            BY <2>3, <2>4, <4>1, <4>2, <5>2 DEF EntryChains
        <4>5. QED
          BY <4>3, <4>4
      <3>6. ASSUME NEW i \in DOMAIN log[t], log[t][i].key = k PROVE EntryChains(t, i, k)'
        <4>1. EntryChains(t, i, k) /\ log'[t][i] = log[t][i] /\ i < n /\ i \in Nat
          BY <1>1, <1>5, <2>3, <3>6 DEF ChainAt
        <4>2. log[t][i].written.id <= row'[k].id
          BY <1>1, <1>2, <1>3, <4>1, IdsAreNumbers DEF EntryChains
        <4>3. \A j \in DOMAIN log'[t] : j < i => j \in DOMAIN log[t] /\ log'[t][j] = log[t][j]
          BY <2>2, <2>3, <4>1
        <4>4. /\ log'[t][i].prior.id < log'[t][i].written.id
              /\ log'[t][i].written.id <= row'[k].id
              /\ \A c \in durable'[k] : c <= log'[t][i].prior.id
              /\ \A j \in DOMAIN log'[t] :
                   j < i /\ log'[t][j].key = k => log'[t][j].written.id <= log'[t][i].prior.id
          BY <2>1, <4>1, <4>2, <4>3 DEF EntryChains
        <4>5. \/ \E j \in DOMAIN log'[t] :
                   j < i /\ log'[t][j].key = k /\ log'[t][j].written = log'[t][i].prior
              \/ /\ \A j \in DOMAIN log'[t] : j < i => log'[t][j].key # k
                 /\ log'[t][i].prior.id \in durable'[k]
          BY <2>1, <2>3, <4>1, <4>3 DEF EntryChains
        <4>6. QED
          BY <4>4, <4>5 DEF EntryChains
      <3>7. QED
        BY <2>3, <3>1, <3>2, <3>3, <3>4, <3>5, <3>6 DEF ChainAt
    <2>7. QED
      BY <2>5, <2>6 DEF ChainInv
  <1>7. CASE mode[t] = "closed"
    <2>1. log' = log /\ log[t] = << >> /\ durable' = [durable EXCEPT ![k] = @ \cup {stamp + 1}]
      BY <1>1, <1>7 DEF Change, TypeOK
    <2>2. /\ durable'[k] = durable[k] \cup {stamp + 1}
          /\ \A l \in Keys \ {k} : durable'[l] = durable[l]
      BY <1>1, <2>1 DEF TypeOK
    <2>3. ASSUME NEW l \in Keys \ {k} PROVE ChainAt(l)'
      BY <1>3, <2>1, <2>2, OtherRowKeeps DEF ChainInv
    <2>4. \A u \in Tasks : \A i \in DOMAIN log'[u] : log'[u][i].key # k
      BY <1>4, <2>1
    <2>5. ChainAt(k)'
      BY <1>2, <1>3, <2>2, <2>4 DEF ChainAt
    <2>6. QED
      BY <2>3, <2>5 DEF ChainInv
  <1>8. QED
    BY <1>6, <1>7 DEF Change

\* A commit ends the chains of its unit of work where they are.
LEMMA CommitKeepsChain ==
    ASSUME StoreInv, ChainInv, NEW t \in Tasks, Commit(t)
    PROVE  ChainInv'
  <1>1. TypeOK
    BY DEF StoreInv
  <1>2. /\ row' = row /\ log'[t] = << >> /\ \A u \in Tasks \ {t} : log'[u] = log[u]
    BY <1>1 DEF Commit, TypeOK
  <1>3. \A k \in Keys : \A c : c \in durable'[k] <=>
          \/ c \in durable[k]
          \/ \E i \in DOMAIN log[t] : log[t][i].key = k /\ log[t][i].written.id = c
    BY DEF Commit, EntriesOf
  <1>4. ASSUME NEW k \in Keys, \A i \in DOMAIN log[t] : log[t][i].key # k
        PROVE  ChainAt(k)'
    <2>1. durable'[k] = durable[k]
      <3>1. \A c : c \in durable'[k] <=> c \in durable[k]
        BY <1>3, <1>4
      <3>2. QED
        BY <1>1, <3>1 DEF Commit, TypeOK
    <2>2. ChainAt(k)
      BY DEF ChainInv
    <2>3. QED
      BY <1>2, <1>4, <2>1, <2>2, OtherRowKeeps
  <1>5. ASSUME NEW k \in Keys, NEW h \in DOMAIN log[t], log[t][h].key = k
        PROVE  ChainAt(k)'
    <2>1. ChainAt(k)
      BY DEF ChainInv
    <2>2. \A u \in Tasks : \A i \in DOMAIN log'[u] : log'[u][i].key # k
      BY <1>2, <1>5, <2>1 DEF ChainAt
    <2>3. PICK i \in DOMAIN log[t] : log[t][i].key = k /\ log[t][i].written = row[k]
      BY <1>5, <2>1 DEF ChainAt, Ends
    <2>4. row'[k].id \in durable'[k]
      BY <1>2, <1>3, <2>3
    <2>5. \A c \in durable'[k] : c <= row'[k].id
      BY <1>2, <1>3, <2>1 DEF ChainAt, EntryChains
    <2>6. QED
      BY <2>2, <2>4, <2>5 DEF ChainAt
  <1>6. QED
    BY <1>4, <1>5 DEF ChainInv

\* Undoing takes the chain of a row back by one: to the entry below, or to what was committed.
LEMMA UndoKeepsChain ==
    ASSUME StoreInv, ChainInv, NEW t \in Tasks, UndoOne(t)
    PROVE  /\ ChainInv'
           /\ row'[Last(log[t]).key] = Last(log[t]).prior
  <1>1. TypeOK
    BY DEF StoreInv
  <1>0. /\ Last(log[t]) \in Entry /\ Len(log[t]) \in Nat
        /\ Last(log[t]).key \in Keys
    <2>1. log[t] \in Seq(Entry) /\ log[t] # << >>
      BY <1>1, EntryTyped DEF UndoOne
    <2>2. Last(log[t]) \in Entry /\ Len(log[t]) \in Nat
      BY <2>1, FrontOfLog
    <2>3. QED
      BY <2>2 DEF Entry
  <1> PICK e \in Entry, n \in Nat, k \in Keys : e = Last(log[t]) /\ n = Len(log[t]) /\ k = e.key
    BY <1>0
  <1>2. /\ log[t] \in Seq(Entry) /\ log[t] # << >> /\ n \in Nat
        /\ n \in DOMAIN log[t] /\ e = log[t][n] /\ e \in Entry /\ k \in Keys
        /\ DOMAIN log[t] = 1..n
        /\ durable' = durable /\ log' = [log EXCEPT ![t] = Front(log[t])]
    BY <1>1, EntryTyped, FrontOfLog DEF UndoOne, TypeOK, Entry
  <1>3. /\ \A u \in Tasks \ {t} : log'[u] = log[u]
        /\ \A i \in DOMAIN log'[t] : i \in DOMAIN log[t] /\ log'[t][i] = log[t][i] /\ i < n
        /\ \A i \in DOMAIN log[t] : i = n \/ (i \in DOMAIN log'[t] /\ log'[t][i] = log[t][i])
    <2>1. log'[t] = Front(log[t]) /\ \A u \in Tasks \ {t} : log'[u] = log[u]
      BY <1>1, <1>2 DEF TypeOK
    <2>2. DOMAIN log'[t] = 1..(n - 1) /\ \A i \in DOMAIN log'[t] : log'[t][i] = log[t][i]
      BY <1>2, <2>1, FrontOfLog
    <2>3. QED
      BY <1>2, <2>1, <2>2
  <1>4. ChainAt(k) /\ EntryChains(t, n, k) /\ Ends(t, k)
    BY <1>2 DEF ChainInv, ChainAt
  <1>5. /\ \A u \in Tasks : \A i \in DOMAIN log[u] :
             i \in Nat /\ log[u][i].prior.id \in Nat /\ log[u][i].written.id \in Nat
        /\ row[k].id \in Nat
    BY <1>1, <1>2, IdsAreNumbers
  <1>6. row[k] = e.written
    <2>1. PICK i \in DOMAIN log[t] : log[t][i].key = k /\ log[t][i].written = row[k]
      BY <1>4 DEF Ends
    <2>2. CASE i = n
      BY <1>2, <2>1, <2>2
    <2>3. CASE i # n
      <3>1. i < n
        BY <1>2, <2>3
      <3>2. /\ log[t][i].written.id <= log[t][n].prior.id
            /\ log[t][n].prior.id < log[t][n].written.id
            /\ log[t][n].written.id <= row[k].id
        BY <1>4, <2>1, <3>1 DEF EntryChains
      <3>3. /\ log[t][i].written.id = row[k].id /\ log[t][i].written.id \in Nat
            /\ log[t][n].prior.id \in Nat /\ log[t][n].written.id \in Nat
        BY <1>2, <1>5, <2>1
      <3>4. QED
        BY <3>2, <3>3
    <2>4. QED
      BY <2>2, <2>3
  <1>7. /\ row'[k] = e.prior /\ \A l \in Keys \ {k} : row'[l] = row[l]
    BY <1>1, <1>2, <1>6 DEF UndoOne, Restored, Is, TypeOK
  <1>8. ASSUME NEW l \in Keys \ {k} PROVE ChainAt(l)'
    <2>1. \A u \in Tasks : \A i \in DOMAIN log'[u] :
             log'[u][i].key = l => i \in DOMAIN log[u] /\ log'[u][i] = log[u][i]
      BY <1>3
    <2>2. \A u \in Tasks : \A i \in DOMAIN log[u] :
             log[u][i].key = l => i \in DOMAIN log'[u] /\ log'[u][i] = log[u][i]
      BY <1>2, <1>3
    <2>3. ChainAt(l) /\ row'[l] = row[l] /\ durable'[l] = durable[l]
      BY <1>2, <1>7 DEF ChainInv
    <2>4. QED
      BY <2>1, <2>2, <2>3, OtherRowKeeps
  <1>9. ChainAt(k)'
    <2>1. \A u \in Tasks : \A i \in DOMAIN log'[u] : log'[u][i].key = k => u = t
      BY <1>2, <1>3, <1>4 DEF ChainAt
    <2>2. \A c \in durable'[k] : c <= row'[k].id
      BY <1>2, <1>4, <1>7 DEF EntryChains
    <2>3. Clean(k)' => row'[k].id \in durable'[k]
      <3>1. Clean(k)' => \A j \in DOMAIN log[t] : j < n => log[t][j].key # k
        BY <1>3, <1>5 DEF Clean
      <3>2. QED
        BY <1>2, <1>4, <1>7, <3>1 DEF EntryChains
    <2>4. ASSUME NEW i \in DOMAIN log'[t], log'[t][i].key = k PROVE Ends(t, k)'
      <3>1. i \in DOMAIN log[t] /\ i < n /\ log[t][i].key = k
        BY <1>3, <2>4
      <3>2. PICK j \in DOMAIN log[t] : j < n /\ log[t][j].key = k /\ log[t][j].written = e.prior
        BY <1>2, <1>4, <3>1 DEF EntryChains
      <3>3. j \in DOMAIN log'[t] /\ log'[t][j] = log[t][j]
        BY <1>3, <1>5, <3>2
      <3>4. PICK h \in DOMAIN log[t] :
              log[t][h].key = k /\ \A g \in DOMAIN log[t] : g < h => log[t][g].key # k
        BY <1>4 DEF Ends
      <3>5. h # n
        BY <3>1, <3>4
      <3>6. h \in DOMAIN log'[t] /\ log'[t][h] = log[t][h]
        BY <1>3, <3>5
      <3>7. \A g \in DOMAIN log'[t] : g < h => log'[t][g].key # k
        BY <1>3, <3>4
      <3>8. QED
        BY <1>7, <3>2, <3>3, <3>4, <3>6, <3>7 DEF Ends
    <2>5. ASSUME NEW i \in DOMAIN log'[t], log'[t][i].key = k PROVE EntryChains(t, i, k)'
      <3>1. i \in DOMAIN log[t] /\ i < n /\ log'[t][i] = log[t][i] /\ log[t][i].key = k
        BY <1>3, <2>5
      <3>2. EntryChains(t, i, k)
        BY <1>4, <3>1 DEF ChainAt
      <3>3. log[t][i].written.id <= row'[k].id
        BY <1>2, <1>4, <1>7, <3>1 DEF EntryChains
      <3>4. \A j \in DOMAIN log[t] : j < i => j \in DOMAIN log'[t] /\ log'[t][j] = log[t][j]
        BY <1>3, <1>5, <3>1, <1>2
      <3>5. /\ log'[t][i].prior.id < log'[t][i].written.id
            /\ log'[t][i].written.id <= row'[k].id
            /\ \A c \in durable'[k] : c <= log'[t][i].prior.id
            /\ \A j \in DOMAIN log'[t] :
                 j < i /\ log'[t][j].key = k => log'[t][j].written.id <= log'[t][i].prior.id
        BY <1>2, <1>3, <3>1, <3>2, <3>3 DEF EntryChains
      <3>6. \/ \E j \in DOMAIN log'[t] :
                 j < i /\ log'[t][j].key = k /\ log'[t][j].written = log'[t][i].prior
            \/ /\ \A j \in DOMAIN log'[t] : j < i => log'[t][j].key # k
               /\ log'[t][i].prior.id \in durable'[k]
        BY <1>2, <1>3, <3>1, <3>2, <3>4 DEF EntryChains
      <3>7. QED
        BY <3>5, <3>6 DEF EntryChains
    <2>6. QED
      BY <2>1, <2>2, <2>3, <2>4, <2>5 DEF ChainAt
  <1>10. ChainInv' /\ row'[k] = e.prior
    BY <1>7, <1>8, <1>9 DEF ChainInv
  <1>11. QED
    BY <1>10

LEMMA ChainStart == Init => ChainInv
  <1> SUFFICES ASSUME Init PROVE ChainInv
    OBVIOUS
  <1>1. \A t \in Tasks : DOMAIN log[t] = {}
    BY DEF Init
  <1>2. \A k \in Keys : row[k].id = 0 /\ durable[k] = {0}
    BY DEF Init
  <1>3. QED
    BY <1>1, <1>2 DEF ChainInv, ChainAt, Clean

LEMMA ChainStep ==
    ASSUME StoreInv, ChainInv, ~Overlap, [Next]_vars
    PROVE  ChainInv'
  <1>1. ASSUME UNCHANGED <<row, log, durable>> PROVE ChainInv'
    BY <1>1, OtherRowKeeps DEF ChainInv
  <1>2. ASSUME NEW t \in Tasks, Begin(t) \/ Rollback(t) \/ Exit(t) \/ UndoDone(t) PROVE ChainInv'
    BY <1>1, <1>2 DEF Begin, Rollback, Exit, UndoDone
  <1>3. ASSUME NEW t \in Tasks, NEW k \in Keys, Writes(t, k)
        PROVE  ChainInv'
    <2>1. PICK new \in Row : NewWrite(k, new) /\ Change(t, k, new)
      BY <1>3, WriteIsChange DEF StoreInv, TypeOK
    <2>2. QED
      BY <2>1, ChangeKeepsChain
  <1>4. CASE UNCHANGED vars
    BY <1>1, <1>4 DEF vars
  <1>5. QED
    BY <1>2, <1>3, <1>4, CommitKeepsChain, UndoKeepsChain DEF Next, Writes

\* When units of work do not overlap, each row's undo entries are a chain from what was
\* committed to what the row holds.
THEOREM ChainsHold ==
    ASSUME ~Overlap
    PROVE  Spec => []ChainInv
  <1>1. StoreInv /\ ChainInv /\ [Next]_vars => ChainInv'
    BY ChainStep
  <1>2. QED
    BY <1>1, ChainStart, StoreInvariant, PTL DEF Spec

\* Then a row that was deleted is no exception: no rollback takes a committed change back.
THEOREM CommittedChangesSurvive ==
    ASSUME ~Overlap
    PROVE  Spec => []CommittedChangesStand
  <1>1. ChainInv => CommittedChangesStand
    BY DEF ChainInv, ChainAt, CommittedChangesStand
  <1>2. QED
    BY <1>1, ChainsHold, PTL

\* And an aborted unit of work leaves nothing behind: what a row holds was committed, or is
\* in the undo log of a unit of work that is open.
THEOREM AbortsLeaveNothing ==
    ASSUME ~Overlap
    PROVE  Spec => []AbortLeavesNothing
  <1>1. ChainInv => AbortLeavesNothing
    <2> SUFFICES ASSUME ChainInv, NEW k \in Keys
                 PROVE  row[k].id \in durable[k] \cup Pending(k)
      BY DEF AbortLeavesNothing
    <2>1. ChainAt(k)
      BY DEF ChainInv
    <2>2. CASE Clean(k)
      BY <2>1, <2>2 DEF ChainAt
    <2>3. CASE ~Clean(k)
      <3>1. PICK t \in Tasks : \E j \in DOMAIN log[t] : log[t][j].key = k
        BY <2>3 DEF Clean
      <3>2. PICK i \in DOMAIN log[t] : log[t][i].key = k /\ log[t][i].written = row[k]
        BY <2>1, <3>1 DEF ChainAt, Ends
      <3>3. log[t][i] \in UNION {EntriesOf(u) : u \in Tasks}
        BY <3>2 DEF EntriesOf
      <3>4. QED
        BY <3>2, <3>3 DEF Pending
    <2>4. QED
      BY <2>2, <2>3
  <1>2. QED
    BY <1>1, ChainsHold, PTL

--------------------------------------------------------------------------------
(* The atomic store. *)

First(t, i, k) ==
    i \in DOMAIN log[t] /\ log[t][i].key = k /\ \A j \in DOMAIN log[t] : j < i => log[t][j].key # k

\* The committed row is what the row holds, or what its oldest undo entry would put back.
LEMMA CommittedRowIs ==
    TypeOK /\ ChainInv =>
      \A k \in Keys :
        /\ Clean(k) => CommittedRow(k) = row[k]
        /\ \A t \in Tasks : \A i \in DOMAIN log[t] :
              First(t, i, k) => CommittedRow(k) = log[t][i].prior
  <1> SUFFICES ASSUME TypeOK, ChainInv, NEW k \in Keys
               PROVE  /\ Clean(k) => CommittedRow(k) = row[k]
                      /\ \A t \in Tasks : \A i \in DOMAIN log[t] :
                            First(t, i, k) => CommittedRow(k) = log[t][i].prior
    OBVIOUS
  <1>1. \A t : k \in Dirty(t) <=> \E i \in DOMAIN log[t] : log[t][i].key = k
    BY DEF Dirty, EntriesOf
  <1>2. Clean(k) => CommittedRow(k) = row[k]
    BY <1>1 DEF Clean, CommittedRow
  <1>3. ASSUME NEW t \in Tasks, NEW i \in DOMAIN log[t], First(t, i, k)
        PROVE  CommittedRow(k) = log[t][i].prior
    <2> DEFINE owner == CHOOSE u \in Tasks : k \in Dirty(u)
               Oldest(j) == /\ log[t][j].key = k
                            /\ \A h \in 1..(j - 1) : log[t][h].key # k
    <2>1. ChainAt(k) /\ DOMAIN log[t] = 1..Len(log[t]) /\ Len(log[t]) \in Nat
      BY EntryTyped DEF ChainInv
    <2>2. k \in Dirty(t) /\ \A u \in Tasks : k \in Dirty(u) => u = t
      BY <1>1, <1>3, <2>1 DEF ChainAt, First
    <2>3. owner = t
      BY <2>2
    <2>4. Oldest(i) /\ \A j \in DOMAIN log[t] : Oldest(j) => j = i
      BY <1>3, <2>1 DEF First
    <2>5. (CHOOSE j \in DOMAIN log[t] : Oldest(j)) = i
      BY <2>4
    <2>6. FirstEntry(k) = log[t][i]
      BY <2>3, <2>5, Zenon DEF FirstEntry
    <2>7. QED
      BY <2>2, <2>6 DEF CommittedRow
  <1>4. QED
    BY <1>2, <1>3

LEMMA CommittedRowWas ==
    ASSUME TypeOK', ChainInv'
    PROVE  (\A k \in Keys :
              /\ Clean(k) => CommittedRow(k) = row[k]
              /\ \A t \in Tasks : \A i \in DOMAIN log[t] :
                    First(t, i, k) => CommittedRow(k) = log[t][i].prior)'
  <1>1. (TypeOK /\ ChainInv =>
           \A k \in Keys :
             /\ Clean(k) => CommittedRow(k) = row[k]
             /\ \A t \in Tasks : \A i \in DOMAIN log[t] :
                   First(t, i, k) => CommittedRow(k) = log[t][i].prior)'
    BY CommittedRowIs, PTL
  <1>2. QED
    BY <1>1

\* A row is in no undo log, or in one, with an oldest entry.
LEMMA CleanOrFirst ==
    ASSUME ChainInv, NEW k \in Keys
    PROVE  Clean(k) \/ \E t \in Tasks : \E i \in DOMAIN log[t] : First(t, i, k)
  <1>1. ChainAt(k)
    BY DEF ChainInv
  <1>2. ASSUME NEW t \in Tasks, NEW j \in DOMAIN log[t], log[t][j].key = k
        PROVE  \E i \in DOMAIN log[t] : First(t, i, k)
    BY <1>1, <1>2 DEF ChainAt, Ends, First
  <1>3. QED
    BY <1>2 DEF Clean

\* the atomic store's variables, as the store implements them
CommittedRows == [k \in Keys |-> CommittedRow(k)]
OpenTasks == {t \in Tasks : mode[t] # "closed"}
Written(t) == [k \in IF Undoing(t) THEN {} ELSE Dirty(t) |-> row[k]]
Buffers == [t \in Tasks |-> Written(t)]

\* A row that a step leaves alone is committed as it was.
LEMMA CommittedSame ==
    ASSUME TypeOK, ChainInv, TypeOK', ChainInv', NEW k \in Keys, row'[k] = row[k],
           \A u \in Tasks : \A i \in DOMAIN log[u] :
              log[u][i].key = k => i \in DOMAIN log'[u] /\ log'[u][i] = log[u][i],
           \A u \in Tasks : \A i \in DOMAIN log'[u] :
              log'[u][i].key = k => i \in DOMAIN log[u] /\ log'[u][i] = log[u][i]
    PROVE  CommittedRow(k)' = CommittedRow(k)
  <1>1. CASE Clean(k)
    <2>1. Clean(k)'
      BY <1>1 DEF Clean
    <2>2. QED
      BY <1>1, <2>1, CommittedRowIs, CommittedRowWas
  <1>2. CASE \E t \in Tasks : \E i \in DOMAIN log[t] : First(t, i, k)
    <2>1. PICK t \in Tasks : \E i \in DOMAIN log[t] : First(t, i, k)
      BY <1>2
    <2>2. PICK i \in DOMAIN log[t] : First(t, i, k)
      BY <2>1
    <2>3. i \in DOMAIN log'[t] /\ First(t, i, k)' /\ log'[t][i] = log[t][i]
      BY <2>2 DEF First
    <2>4. QED
      BY <2>2, <2>3, CommittedRowIs, CommittedRowWas
  <1>3. QED
    BY <1>1, <1>2, CleanOrFirst

\* Steps that touch neither rows nor undo logs show through the modes alone.
LEMMA LogsAlone ==
    ASSUME TypeOK, ChainInv, TypeOK', ChainInv', UNCHANGED <<row, log>>
    PROVE  /\ CommittedRows' = CommittedRows
           /\ \A t \in Tasks : Dirty(t)' = Dirty(t)
  <1>1. \A k \in Keys : CommittedRow(k)' = CommittedRow(k)
    BY CommittedSame
  <1>2. QED
    BY <1>1 DEF CommittedRows, Dirty, EntriesOf

LEMMA ModesShow ==
    ASSUME TypeOK, ChainInv, TypeOK', ChainInv', NEW t \in Tasks,
           Begin(t) \/ Rollback(t) \/ Exit(t) \/ UndoDone(t)
    PROVE  [Atomic!Next]_(Atomic!vars)
  <1>1. UNCHANGED <<row, log>>
    BY DEF Begin, Rollback, Exit, UndoDone
  <1>2. /\ CommittedRows' = CommittedRows
        /\ \A u \in Tasks : Dirty(u)' = Dirty(u)
    BY <1>1, LogsAlone
  <1>3. mode \in [Tasks -> {"closed", "open", "rollback", "exit"}]
    BY DEF TypeOK
  <1>4. ASSUME NEW u \in Tasks, Undoing(u)' <=> Undoing(u) PROVE Written(u)' = Written(u)
    BY <1>1, <1>2, <1>4 DEF Written
  <1>5. CASE Begin(t)
    <2>1. \A u \in Tasks : Undoing(u)' <=> Undoing(u)
      BY <1>3, <1>5 DEF Begin, Undoing
    <2>2. Buffers' = Buffers
      BY <1>4, <2>1 DEF Buffers
    <2>3. t \notin OpenTasks /\ OpenTasks' = OpenTasks \cup {t}
      BY <1>3, <1>5 DEF Begin, OpenTasks
    <2>4. Atomic!Begin(t)
      BY <1>2, <2>2, <2>3 DEF Atomic!Begin, CommittedRows, OpenTasks, Buffers, Written
    <2>5. QED
      BY <2>4 DEF Atomic!Next
  <1>6. CASE Rollback(t) \/ Exit(t)
    <2>1. Undoing(t)' /\ \A u \in Tasks \ {t} : Undoing(u)' <=> Undoing(u)
      BY <1>3, <1>6 DEF Rollback, Exit, Undoing
    <2>2. Written(t)' = Atomic!Empty
      BY <2>1 DEF Written, Atomic!Empty
    <2>3. Buffers' = [Buffers EXCEPT ![t] = Atomic!Empty]
      BY <1>4, <2>1, <2>2 DEF Buffers
    <2>4. t \in OpenTasks /\ OpenTasks' = OpenTasks
      BY <1>3, <1>6 DEF Rollback, Exit, OpenTasks
    <2>5. Atomic!Abort(t)
      BY <1>2, <2>3, <2>4 DEF Atomic!Abort, CommittedRows, OpenTasks, Buffers, Written
    <2>6. QED
      BY <2>5 DEF Atomic!Next
  <1>7. CASE UndoDone(t)
    <2>1. Undoing(t) /\ ~Undoing(t)' /\ \A u \in Tasks \ {t} : Undoing(u)' <=> Undoing(u)
      BY <1>3, <1>7 DEF UndoDone, Undoing
    <2>2. Dirty(t) = {} /\ Dirty(t)' = {}
      BY <1>2, <1>7 DEF UndoDone, Dirty, EntriesOf
    <2>3. Written(t) = Atomic!Empty /\ Written(t)' = Atomic!Empty
      BY <2>1, <2>2 DEF Written, Atomic!Empty
    <2>4. Buffers' = Buffers /\ Buffers[t] = Atomic!Empty
      BY <1>4, <2>1, <2>3 DEF Buffers
    <2>5. CASE mode[t] = "exit"
      <3>1. t \in OpenTasks /\ OpenTasks' = OpenTasks \ {t}
        BY <1>3, <1>7, <2>5 DEF UndoDone, OpenTasks
      <3>2. Atomic!End(t)
        BY <1>2, <2>4, <3>1 DEF Atomic!End, CommittedRows, OpenTasks, Buffers, Written
      <3>3. QED
        BY <3>2 DEF Atomic!Next
    <2>6. CASE mode[t] # "exit"
      <3>1. OpenTasks' = OpenTasks
        BY <1>3, <1>7, <2>6 DEF UndoDone, Undoing, OpenTasks
      <3>2. QED
        BY <1>2, <2>4, <3>1 DEF Atomic!vars, CommittedRows, OpenTasks, Buffers, Written
    <2>7. QED
      BY <2>5, <2>6
  <1>8. QED
    BY <1>5, <1>6, <1>7

\* What is in a unit of work's buffer.
LEMMA WrittenIs ==
    ASSUME NEW t, ~Undoing(t), NEW k
    PROVE  /\ k \in Dirty(t) <=> \E i \in DOMAIN log[t] : log[t][i].key = k
           /\ DOMAIN Written(t) = Dirty(t)
           /\ k \in Dirty(t) => Written(t)[k] = row[k]
  BY DEF Written, Dirty, EntriesOf

LEMMA CommitShows ==
    ASSUME TypeOK, ChainInv, TypeOK', ChainInv', NEW t \in Tasks, Commit(t)
    PROVE  Atomic!Commit(t)
  <1>1. /\ row' = row /\ mode' = mode /\ log'[t] = << >> /\ mode[t] = "open"
        /\ \A u \in Tasks \ {t} : log'[u] = log[u]
    BY DEF Commit, TypeOK
  <1>2. ~Undoing(t) /\ ~Undoing(t)'
    BY <1>1 DEF Undoing
  <1>3. /\ Dirty(t)' = {} /\ \A u \in Tasks \ {t} : Dirty(u)' = Dirty(u)
    BY <1>1 DEF Dirty, EntriesOf
  <1>4. Buffers' = [Buffers EXCEPT ![t] = Atomic!Empty]
    <2>1. Written(t)' = Atomic!Empty
      BY <1>3 DEF Written, Atomic!Empty
    <2>2. \A u \in Tasks \ {t} : Written(u)' = Written(u)
      BY <1>1, <1>3 DEF Written, Undoing
    <2>3. QED
      BY <2>1, <2>2 DEF Buffers
  <1>5. ASSUME NEW k \in Keys
        PROVE  CommittedRow(k)' = IF k \in Dirty(t) THEN row[k] ELSE CommittedRow(k)
    <2>1. CASE k \in Dirty(t)
      <3>1. PICK i \in DOMAIN log[t] : log[t][i].key = k
        BY <1>2, <2>1, WrittenIs
      <3>2. Clean(k)'
        BY <1>1, <3>1 DEF ChainInv, ChainAt, Clean
      <3>3. QED
        BY <1>1, <2>1, <3>2, CommittedRowWas
    <2>2. CASE k \notin Dirty(t)
      <3>1. \A i \in DOMAIN log[t] : log[t][i].key # k
        BY <1>2, <2>2, WrittenIs
      <3>2. QED
        BY <1>1, <2>2, <3>1, CommittedSame
    <2>3. QED
      BY <2>1, <2>2
  <1>6. Dirty(t) \subseteq Keys
    BY EntryTyped DEF Dirty, Entry
  <1>7. CommittedRows' = Atomic!Over(CommittedRows, Buffers[t])
    <2>1. Buffers[t] = Written(t) /\ DOMAIN Written(t) = Dirty(t)
      BY <1>2, WrittenIs DEF Buffers
    <2>2. \A k \in Keys : k \in Dirty(t) => Buffers[t][k] = row[k]
      BY <1>2, <2>1, WrittenIs
    <2>3. DOMAIN CommittedRows \cup DOMAIN Buffers[t] = Keys
      BY <1>6, <2>1 DEF CommittedRows
    <2>4. QED
      BY <1>5, <2>1, <2>2, <2>3 DEF Atomic!Over, CommittedRows
  <1>8. t \in OpenTasks /\ OpenTasks' = OpenTasks
    BY <1>1 DEF OpenTasks
  <1>9. QED
    BY <1>4, <1>7, <1>8 DEF Atomic!Commit, CommittedRows, OpenTasks, Buffers, Written

\* Undoing moves the row to where the atomic store has it already.
LEMMA UndoHides ==
    ASSUME StoreInv, TypeOK, ChainInv, TypeOK', ChainInv', NEW t \in Tasks, UndoOne(t)
    PROVE  UNCHANGED Atomic!vars
  <1>1. /\ Last(log[t]) \in Entry /\ Len(log[t]) \in Nat /\ Last(log[t]).key \in Keys
    <2>1. log[t] \in Seq(Entry) /\ log[t] # << >>
      BY EntryTyped DEF UndoOne
    <2>2. Last(log[t]) \in Entry /\ Len(log[t]) \in Nat
      BY <2>1, FrontOfLog
    <2>3. QED
      BY <2>2 DEF Entry
  <1> PICK e \in Entry, n \in Nat, k \in Keys : e = Last(log[t]) /\ n = Len(log[t]) /\ k = e.key
    BY <1>1
  <1>2. row'[k] = e.prior /\ \A l \in Keys \ {k} : row'[l] = row[l]
    BY UndoKeepsChain DEF UndoOne, TypeOK
  <1>3. /\ n \in DOMAIN log[t] /\ log[t][n] = e /\ Undoing(t) /\ mode' = mode
        /\ \A u \in Tasks \ {t} : log'[u] = log[u]
        /\ \A i \in DOMAIN log'[t] : i \in DOMAIN log[t] /\ log'[t][i] = log[t][i] /\ i < n
        /\ \A i \in DOMAIN log[t] : i = n \/ (i \in DOMAIN log'[t] /\ log'[t][i] = log[t][i])
    <2>1. log[t] \in Seq(Entry) /\ log[t] # << >> /\ DOMAIN log[t] = 1..n
      BY EntryTyped DEF UndoOne
    <2>2. /\ log'[t] = Front(log[t]) /\ \A u \in Tasks \ {t} : log'[u] = log[u]
          /\ Undoing(t) /\ mode' = mode
      BY DEF UndoOne, TypeOK
    <2>3. DOMAIN log'[t] = 1..(n - 1) /\ \A i \in DOMAIN log'[t] : log'[t][i] = log[t][i]
      BY <2>1, <2>2, FrontOfLog
    <2>4. n \in DOMAIN log[t] /\ log[t][n] = e
      BY <2>1, FrontOfLog
    <2>5. QED
      BY <2>1, <2>2, <2>3, <2>4
  <1>4. ASSUME NEW l \in Keys \ {k} PROVE CommittedRow(l)' = CommittedRow(l)
    <2>1. \A u \in Tasks : \A i \in DOMAIN log'[u] :
             log'[u][i].key = l => i \in DOMAIN log[u] /\ log'[u][i] = log[u][i]
      BY <1>3
    <2>2. \A u \in Tasks : \A i \in DOMAIN log[u] :
             log[u][i].key = l => i \in DOMAIN log'[u] /\ log'[u][i] = log[u][i]
      BY <1>3
    <2>3. QED
      BY <1>2, <2>1, <2>2, CommittedSame
  <1>5. CommittedRow(k)' = CommittedRow(k)
    <2>1. PICK i \in DOMAIN log[t] : First(t, i, k)
      <3>1. log[t][n].key = k
        BY <1>3
      <3>2. Ends(t, k)
        BY <1>3, <3>1 DEF ChainInv, ChainAt
      <3>3. QED
        BY <3>2 DEF Ends, First
    <2>2. CommittedRow(k) = log[t][i].prior
      BY <2>1, CommittedRowIs
    <2>3. CASE i = n
      <3>1. \A j \in DOMAIN log'[t] : log'[t][j].key # k
        BY <1>3, <2>1, <2>3 DEF First
      <3>2. Clean(k)'
        BY <1>3, <2>1, <3>1 DEF ChainInv, ChainAt, Clean, First
      <3>3. QED
        BY <1>2, <1>3, <2>2, <2>3, <3>2, CommittedRowWas
    <2>4. CASE i # n
      <3>1. i \in DOMAIN log'[t] /\ log'[t][i] = log[t][i]
        BY <1>3, <2>4
      <3>2. First(t, i, k)'
        BY <1>3, <2>1, <3>1 DEF First
      <3>3. QED
        BY <2>2, <3>1, <3>2, CommittedRowWas
    <2>5. QED
      BY <2>3, <2>4
  <1>6. CommittedRows' = CommittedRows
    BY <1>4, <1>5 DEF CommittedRows
  <1>7. Buffers' = Buffers
    <2>1. Written(t)' = Written(t)
      BY <1>3 DEF Written, Undoing
    <2>2. ASSUME NEW u \in Tasks \ {t} PROVE Written(u)' = Written(u)
      <3>1. Dirty(u)' = Dirty(u) /\ (Undoing(u)' <=> Undoing(u))
        BY <1>3 DEF Dirty, EntriesOf, Undoing
      <3>2. k \notin Dirty(u)
        BY <1>3 DEF Dirty, EntriesOf, ChainInv, ChainAt
      <3>3. Dirty(u) \subseteq Keys
        BY EntryTyped DEF Dirty, Entry
      <3>4. \A l \in Dirty(u) : row'[l] = row[l]
        BY <1>2, <3>2, <3>3
      <3>5. QED
        BY <3>1, <3>4 DEF Written
    <2>3. QED
      BY <2>1, <2>2 DEF Buffers
  <1>8. OpenTasks' = OpenTasks
    BY <1>3 DEF OpenTasks
  <1>9. QED
    BY <1>6, <1>7, <1>8 DEF Atomic!vars, CommittedRows, OpenTasks, Buffers, Written

\* A write goes into its unit of work's buffer, or through to the committed rows.
LEMMA ChangeShows ==
    ASSUME TypeOK, ChainInv, TypeOK', ChainInv', ~Overlap,
           NEW t \in Tasks, NEW k \in Keys, NEW new \in Row,
           NewWrite(k, new), Change(t, k, new)
    PROVE  Atomic!Next
  <1> DEFINE entry == [key |-> k, prior |-> row[k], written |-> new]
             Rows == [id : 0..MaxWrites, live : BOOLEAN, obj : 0..MaxWrites]
  <1>1. /\ row'[k] = new /\ mode' = mode /\ new \in Rows
        /\ \A l \in Keys \ {k} : row'[l] = row[l]
    <2>1. stamp \in Nat /\ MaxWrites \in Nat /\ stamp < MaxWrites
      BY StoreAssumption DEF Change, TypeOK
    <2>2. /\ new.id \in 0..MaxWrites /\ new.obj \in 0..MaxWrites /\ new.live \in BOOLEAN
          /\ new = [id |-> new.id, live |-> new.live, obj |-> new.obj]
      BY <2>1 DEF NewWrite, Row
    <2>3. new \in Rows
      BY <2>2
    <2>4. QED
      BY <2>3 DEF Change, TypeOK
  <1>2. \A u \in Tasks \ {t} : \A i \in DOMAIN log[u] : log[u][i].key # k
    BY DEF Change, Dirty, EntriesOf
  <1>3. OpenTasks' = OpenTasks
    BY <1>1 DEF OpenTasks
  <1>4. ASSUME NEW u \in Tasks \ {t}, log'[u] = log[u] PROVE Written(u)' = Written(u)
    <2>1. Dirty(u)' = Dirty(u) /\ (Undoing(u)' <=> Undoing(u))
      BY <1>1, <1>4 DEF Dirty, EntriesOf, Undoing
    <2>2. k \notin Dirty(u) /\ Dirty(u) \subseteq Keys
      BY <1>2, EntryTyped DEF Dirty, EntriesOf, Entry
    <2>3. \A l \in Dirty(u) : row'[l] = row[l]
      BY <1>1, <2>2
    <2>4. QED
      BY <2>1, <2>3 DEF Written
  <1>5. CASE mode[t] = "closed"
    <2>1. log' = log /\ log[t] = << >>
      BY <1>5 DEF Change, TypeOK
    <2>2. \A u \in Tasks : \A i \in DOMAIN log[u] : log[u][i].key # k
      BY <1>2, <2>1
    <2>3. CommittedRow(k)' = new
      <3>1. Clean(k)'
        BY <2>1, <2>2 DEF Clean
      <3>2. QED
        BY <1>1, <3>1, CommittedRowWas
    <2>4. \A l \in Keys \ {k} : CommittedRow(l)' = CommittedRow(l)
      BY <1>1, <2>1, CommittedSame
    <2>5. CommittedRows' = [CommittedRows EXCEPT ![k] = new]
      BY <2>3, <2>4 DEF CommittedRows
    <2>6. Written(t)' = Written(t)
      <3>1. Dirty(t) = {} /\ Dirty(t)' = {}
        BY <2>1 DEF Dirty, EntriesOf
      <3>2. QED
        BY <3>1 DEF Written
    <2>7. Buffers' = Buffers
      BY <1>4, <2>1, <2>6 DEF Buffers
    <2>8. t \notin OpenTasks
      BY <1>5 DEF OpenTasks
    <2>9. Atomic!WriteThrough(t, k, new)
      BY <1>3, <2>5, <2>7, <2>8
         DEF Atomic!WriteThrough, CommittedRows, OpenTasks, Buffers, Written
    <2>10. QED
      BY <1>1, <2>9 DEF Atomic!Next
  <1>6. CASE mode[t] = "open"
    <2>1. log' = [log EXCEPT ![t] = Append(log[t], entry)]
      BY <1>6 DEF Change
    <2>2. log[t] \in Seq(Entry) /\ Len(log[t]) \in Nat /\ DOMAIN log[t] = 1..Len(log[t])
      BY EntryTyped
    <2> PICK n \in Nat : n = Len(log[t]) + 1
      BY <2>2
    <2>3. /\ n \in DOMAIN log'[t] /\ log'[t][n] = entry
          /\ \A u \in Tasks \ {t} : log'[u] = log[u]
          /\ \A i \in DOMAIN log[t] : i \in DOMAIN log'[t] /\ log'[t][i] = log[t][i] /\ i < n
          /\ \A i \in DOMAIN log'[t] : i = n \/ i \in DOMAIN log[t]
      BY <2>1, <2>2 DEF TypeOK
    <2>4. entry.key = k /\ entry.prior = row[k]
      OBVIOUS
    <2> HIDE DEF entry, Rows
    <2>5. ASSUME NEW l \in Keys \ {k} PROVE CommittedRow(l)' = CommittedRow(l)
      <3>1. \A u \in Tasks : \A i \in DOMAIN log'[u] :
               log'[u][i].key = l => i \in DOMAIN log[u] /\ log'[u][i] = log[u][i]
        BY <2>3, <2>4
      <3>2. \A u \in Tasks : \A i \in DOMAIN log[u] :
               log[u][i].key = l => i \in DOMAIN log'[u] /\ log'[u][i] = log[u][i]
        BY <2>3
      <3>3. QED
        BY <1>1, <3>1, <3>2, CommittedSame
    <2>6. CommittedRow(k)' = CommittedRow(k)
      <3>1. CASE Clean(k)
        <4>1. First(t, n, k)'
          BY <2>3, <2>4, <3>1 DEF Clean, First
        <4>2. CommittedRow(k) = row[k]
          BY <3>1, CommittedRowIs
        <4>3. CommittedRow(k)' = log'[t][n].prior
          BY <2>3, <4>1, CommittedRowWas
        <4>4. QED
          BY <2>3, <2>4, <4>2, <4>3
      <3>2. CASE ~Clean(k)
        <4>1. PICK i \in DOMAIN log[t] : First(t, i, k)
          BY <1>2, <3>2, CleanOrFirst DEF First
        <4>2. i \in Nat /\ i < n /\ i \in DOMAIN log'[t] /\ log'[t][i] = log[t][i]
          BY <2>2, <2>3
        <4>3. \A j \in DOMAIN log'[t] : j < i => j \in DOMAIN log[t]
          BY <2>3, <4>2
        <4>4. First(t, i, k)'
          BY <2>3, <4>1, <4>2, <4>3 DEF First
        <4>5. QED
          BY <4>1, <4>2, <4>4, CommittedRowIs, CommittedRowWas
      <3>3. QED
        BY <3>1, <3>2
    <2>7. CommittedRows' = CommittedRows
      BY <2>5, <2>6 DEF CommittedRows
    <2>8. ~Undoing(t) /\ ~Undoing(t)'
      BY <1>1, <1>6 DEF Undoing
    <2>9. Dirty(t)' = Dirty(t) \cup {k}
      <3>1. ASSUME NEW l PROVE l \in Dirty(t)' <=> l \in Dirty(t) \/ l = k
        BY <2>3, <2>4 DEF Dirty, EntriesOf
      <3>2. QED
        BY <3>1
    <2>10. Written(t)' = Atomic!Over(Written(t), [j \in {k} |-> new])
      <3>1. DOMAIN Written(t)' = Dirty(t) \cup {k} /\ DOMAIN Written(t) = Dirty(t)
        BY <2>8, <2>9 DEF Written
      <3>2. Dirty(t) \subseteq Keys
        BY EntryTyped DEF Dirty, Entry
      <3>3. \A l \in Dirty(t) \cup {k} :
               Written(t)'[l] = IF l = k THEN new ELSE Written(t)[l]
        BY <1>1, <2>8, <2>9, <3>2 DEF Written
      <3>4. Written(t)' = [l \in Dirty(t) \cup {k} |-> Written(t)'[l]]
        BY <2>8, <2>9 DEF Written
      <3>5. QED
        BY <3>1, <3>3, <3>4 DEF Atomic!Over
    <2>11. Buffers' = [Buffers EXCEPT ![t] = Atomic!Over(Buffers[t], [j \in {k} |-> new])]
      BY <1>4, <2>3, <2>10 DEF Buffers
    <2>12. t \in OpenTasks
      BY <1>6 DEF OpenTasks
    <2>13. new \in [id : 0..MaxWrites, live : BOOLEAN, obj : 0..MaxWrites]
      BY <1>1 DEF Rows
    <2>14. PICK r \in [id : 0..MaxWrites, live : BOOLEAN, obj : 0..MaxWrites] : r = new
      BY <2>13
    <2>15. Atomic!Write(t, k, r)
      BY <1>3, <2>7, <2>11, <2>12, <2>14
         DEF Atomic!Write, CommittedRows, OpenTasks, Buffers, Written
    <2>16. QED
      BY <2>15 DEF Atomic!Next
  <1>7. QED
    BY <1>5, <1>6 DEF Change

LEMMA AtomicStart == Init => Atomic!Init
  <1> SUFFICES ASSUME Init PROVE Atomic!Init
    OBVIOUS
  <1>1. \A t \in Tasks : DOMAIN log[t] = {} /\ Dirty(t) = {}
    BY DEF Init, Dirty, EntriesOf
  <1>2. ASSUME NEW k \in Keys PROVE CommittedRow(k) = row[k]
    BY <1>1 DEF CommittedRow
  <1>3. \A k \in Keys : row[k] \in [id : 0..MaxWrites, live : BOOLEAN, obj : 0..MaxWrites]
    BY StoreAssumption DEF Init
  <1>4. CommittedRows \in [Keys -> [id : 0..MaxWrites, live : BOOLEAN, obj : 0..MaxWrites]]
    BY <1>2, <1>3 DEF CommittedRows
  <1>5. OpenTasks = {}
    BY DEF Init, OpenTasks
  <1>6. \A t \in Tasks : Written(t) = Atomic!Empty
    BY <1>1 DEF Written, Atomic!Empty
  <1>7. Buffers = [t \in Tasks |-> Atomic!Empty]
    BY <1>6 DEF Buffers
  <1>8. QED
    BY <1>4, <1>5, <1>7 DEF Atomic!Init, CommittedRows, OpenTasks, Buffers, Written

LEMMA AtomicStep ==
    ASSUME ~Overlap, StoreInv, ChainInv, StoreInv', ChainInv', [Next]_vars
    PROVE  [Atomic!Next]_(Atomic!vars)
  <1>1. TypeOK /\ TypeOK'
    BY DEF StoreInv
  <1>2. CASE UNCHANGED vars
    <2>1. CommittedRows' = CommittedRows /\ OpenTasks' = OpenTasks /\ Buffers' = Buffers
      BY <1>1, <1>2, LogsAlone DEF vars, OpenTasks, Buffers, Written, Undoing
    <2>2. QED
      BY <2>1 DEF Atomic!vars, CommittedRows, OpenTasks, Buffers, Written
  <1>3. ASSUME NEW t \in Tasks, NEW k \in Keys, Writes(t, k)
        PROVE  Atomic!Next
    <2>1. PICK new \in Row : NewWrite(k, new) /\ Change(t, k, new)
      BY <1>1, <1>3, WriteIsChange DEF TypeOK
    <2>2. QED
      BY <1>1, <2>1, ChangeShows
  <1>4. ASSUME NEW t \in Tasks, Commit(t) PROVE Atomic!Next
    BY <1>1, <1>4, CommitShows DEF Atomic!Next
  <1>5. ASSUME NEW t \in Tasks, UndoOne(t) PROVE UNCHANGED Atomic!vars
    BY <1>1, <1>5, UndoHides
  <1>6. ASSUME NEW t \in Tasks, Begin(t) \/ Rollback(t) \/ Exit(t) \/ UndoDone(t)
        PROVE  [Atomic!Next]_(Atomic!vars)
    BY <1>1, <1>6, ModesShow
  <1>7. QED
    BY <1>2, <1>3, <1>4, <1>5, <1>6 DEF Next, Writes

\* The undo logs implement atomic transactions, for any rows and tasks, as long as open
\* units of work write different rows.
THEOREM StoreIsAtomic ==
    ASSUME ~Overlap
    PROVE  Spec => ImplementsAtomicStore
  <1>1. StoreInv /\ ChainInv /\ StoreInv' /\ ChainInv' /\ [Next]_vars
          => [Atomic!Next]_(Atomic!vars)
    BY AtomicStep
  <1>2. QED
    BY <1>1, AtomicStart, StoreInvariant, ChainsHold, PTL
       DEF Spec, ImplementsAtomicStore, Atomic!Spec
================================================================================
