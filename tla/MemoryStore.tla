------------------------------ MODULE MemoryStore ------------------------------
(* The in-memory store and its unit of work: rows shared by every asyncio task, *)
(* and, per open unit of work, an undo log that can take the task's writes back.*)
(*                                                                              *)
(* A row is known twice over: by the write that left it (id), which only the    *)
(* properties see, and by the object it is (obj), which is what undo compares.  *)
(* Rows enter the tables as private copies, so there each write has an object of*)
(* its own.  The age of majority does not: its setter keeps the caller's object *)
(* and its getter hands that object out, so one object may be written again and *)
(* again.  To the code every absent row is None, whoever deleted it (Is).       *)
(*                                                                              *)
(* Undo runs in one piece, without an await.  It is modelled entry by entry, and*)
(* no other task moves while a task is undoing.                                 *)
EXTENDS Naturals, Sequences, SequencesExt

CONSTANTS
    Keys,       \* the rows of every table, and the configuration row
    Tasks,      \* the asyncio tasks
    Settings,   \* the rows that are not in a table: the age of majority
    Deletable,  \* the rows somebody deletes
    Overlap,    \* may a task write a row another open unit of work has written?
    MaxWrites   \* bound: how many writes a behaviour makes

ASSUME StoreAssumption ==
    /\ Settings \subseteq Keys
    /\ Deletable \subseteq Keys \ Settings
    /\ Overlap \in BOOLEAN
    /\ MaxWrites \in Nat

VARIABLES
    row,      \* what each key holds
    mode,     \* per task: no unit of work, an open one, or one being undone
    log,      \* per task: the undo log, oldest entry first
    stamp,    \* the number of writes made so far
    durable   \* history: per key, the writes that were committed

vars == <<row, mode, log, stamp, durable>>

Row == [id : Nat, live : BOOLEAN, obj : Nat]
Entry == [key : Keys, prior : Row, written : Row]
Undoing(t) == mode[t] \in {"rollback", "exit"}
Quiet == \A t \in Tasks : ~Undoing(t)   \* undo holds the event loop until it is done

EntriesOf(t) == {log[t][i] : i \in DOMAIN log[t]}
Dirty(t) == {e.key : e \in EntriesOf(t)}
Pending(k) == {e.written.id : e \in {f \in UNION {EntriesOf(t) : t \in Tasks} : f.key = k}}

\* The variables' types; and a task outside a unit of work has nothing to undo.
TypeOK ==
    /\ row \in [Keys -> Row]
    /\ mode \in [Tasks -> {"closed", "open", "rollback", "exit"}]
    /\ log \in [Tasks -> Seq(Entry)]
    /\ stamp \in Nat
    /\ durable \in [Keys -> SUBSET Nat]
    /\ \A t \in Tasks : mode[t] = "closed" => log[t] = << >>

--------------------------------------------------------------------------------
Init ==
    /\ row = [k \in Keys |-> [id |-> 0, live |-> k \in Settings, obj |-> 0]]
    /\ mode = [t \in Tasks |-> "closed"]
    /\ log = [t \in Tasks |-> << >>]
    /\ stamp = 0
    /\ durable = [k \in Keys |-> {0}]

\* entering a unit of work; a second one in the same task is refused
Begin(t) ==
    /\ Quiet
    /\ mode[t] = "closed"
    /\ mode' = [mode EXCEPT ![t] = "open"]
    /\ UNCHANGED <<row, log, stamp, durable>>

\* One change to one row.  Inside a unit of work it is journalled; outside, it is
\* immediate and final.
Change(t, k, new) ==
    /\ Quiet
    /\ stamp < MaxWrites
    /\ Overlap \/ \A u \in Tasks \ {t} : k \notin Dirty(u)
    /\ row' = [row EXCEPT ![k] = new]
    /\ stamp' = stamp + 1
    /\ \/ /\ mode[t] = "open"
          /\ log' = [log EXCEPT ![t] = Append(@, [key |-> k, prior |-> row[k], written |-> new])]
          /\ UNCHANGED durable
       \/ /\ mode[t] = "closed"
          /\ durable' = [durable EXCEPT ![k] = @ \cup {stamp + 1}]
          /\ UNCHANGED log
    /\ UNCHANGED mode

\* what a write to a table leaves: a private copy of the caller's object, or nothing
Copied(live) == [id |-> stamp + 1, live |-> live, obj |-> stamp + 1]

\* a repository's add: ConflictError, and no write, when the identity is taken
Add(t, k) == k \notin Settings /\ ~row[k].live /\ Change(t, k, Copied(TRUE))

\* a repository's save: NotFoundError when absent
Save(t, k) == k \notin Settings /\ row[k].live /\ Change(t, k, Copied(TRUE))

Delete(t, k) == k \in Deletable /\ row[k].live /\ Change(t, k, Copied(FALSE))

\* The configuration's setter stores the caller's own object: a new one, or one that
\* somebody has read there before.
SetAge(t, k) ==
    /\ k \in Settings
    /\ \E o \in 0..(stamp + 1) : Change(t, k, [id |-> stamp + 1, live |-> TRUE, obj |-> o])

\* fault: a commit leaves the undo log as it was
CommitKeepingLog(t) ==
    /\ Quiet
    /\ mode[t] = "open"
    /\ durable' = [k \in Keys |->
                     durable[k] \cup {e.written.id : e \in {f \in EntriesOf(t) : f.key = k}}]
    /\ UNCHANGED <<row, mode, log, stamp>>

\* committing discards the undo log; the unit of work stays open
Commit(t) ==
    /\ Quiet
    /\ mode[t] = "open"
    /\ durable' = [k \in Keys |->
                     durable[k] \cup {e.written.id : e \in {f \in EntriesOf(t) : f.key = k}}]
    /\ log' = [log EXCEPT ![t] = << >>]
    /\ UNCHANGED <<row, mode, stamp>>

Rollback(t) ==
    /\ Quiet
    /\ mode[t] = "open"
    /\ mode' = [mode EXCEPT ![t] = "rollback"]
    /\ UNCHANGED <<row, log, stamp, durable>>

\* fault: leaving the block closes it and undoes nothing
ExitWithoutUndo(t) ==
    /\ Quiet
    /\ mode[t] = "open"
    /\ mode' = [mode EXCEPT ![t] = "closed"]
    /\ UNCHANGED <<row, log, stamp, durable>>

\* leaving the block undoes whatever was not committed
Exit(t) ==
    /\ Quiet
    /\ mode[t] = "open"
    /\ mode' = [mode EXCEPT ![t] = "exit"]
    /\ UNCHANGED <<row, log, stamp, durable>>

\* Python's `is` on two rows: None is None, whoever deleted them
Is(r, s) == r.live = s.live /\ (r.live => r.obj = s.obj)

\* fault: a row goes back whatever it holds now
RestoredAnyway(r, e) == e.prior
\* fault: what an entry replaced is looked for where what it wrote should be
RestoredUnlessUndone(r, e) == IF Is(r, e.prior) THEN e.prior ELSE r

\* a row goes back only while it still holds what the entry's write left there
Restored(r, e) == IF Is(r, e.written) THEN e.prior ELSE r

\* fault: the log is undone from its oldest entry
UndoOldestFirst(t) ==
    LET e == Head(log[t]) IN
    /\ Undoing(t)
    /\ log[t] # << >>
    /\ row' = [row EXCEPT ![e.key] = Restored(@, e)]
    /\ log' = [log EXCEPT ![t] = Tail(@)]
    /\ UNCHANGED <<mode, stamp, durable>>

UndoOne(t) ==
    LET e == Last(log[t]) IN
    /\ Undoing(t)
    /\ log[t] # << >>
    /\ row' = [row EXCEPT ![e.key] = Restored(@, e)]
    /\ log' = [log EXCEPT ![t] = Front(@)]
    /\ UNCHANGED <<mode, stamp, durable>>

UndoDone(t) ==
    /\ Undoing(t)
    /\ log[t] = << >>
    /\ mode' = [mode EXCEPT ![t] = IF @ = "exit" THEN "closed" ELSE "open"]
    /\ UNCHANGED <<row, log, stamp, durable>>

Next ==
    \E t \in Tasks :
        \/ Begin(t) \/ Commit(t) \/ Rollback(t) \/ Exit(t)
        \/ UndoOne(t) \/ UndoDone(t)
        \/ \E k \in Keys : Add(t, k) \/ Save(t, k) \/ Delete(t, k) \/ SetAge(t, k)

Spec == Init /\ [][Next]_vars

--------------------------------------------------------------------------------
\* The rows an undo entry cannot mistake for another's: in a table, and never deleted.
Kept == Keys \ (Deletable \cup Settings)

\* No row ever goes back past a committed write: whatever overlaps, a rollback
\* never destroys what another transaction committed, on the tables' rows that
\* nobody deletes.  (Of the age of majority this is not so: nothing tells two
\* writes of one object apart.)
CommittedWritesStand ==
    \A k \in Kept : \A c \in durable[k] : c <= row[k].id

\* The same of every row, deleted ones included: "a row another transaction has
\* written since is left exactly as that writer left it".
CommittedChangesStand ==
    \A k \in Keys : \A c \in durable[k] : c <= row[k].id

\* All or nothing: a row holds a committed write or one that may yet be undone,
\* never what an aborted transaction left there.
AbortLeavesNothing ==
    \A k \in Keys : row[k].id \in durable[k] \cup Pending(k)

\* A write is in one undo log and there once, and no later than the last one made.  In
\* a table its object is its own; and on a row nobody deletes it left something.
WritesAreUnique ==
    /\ \A k \in Keys : row[k].id <= stamp /\ \A c \in durable[k] : c <= stamp
    /\ \A k \in Keys \ Settings : row[k].obj = row[k].id
    /\ \A t \in Tasks : \A i \in DOMAIN log[t] :
         /\ log[t][i].prior.id <= stamp
         /\ log[t][i].written.id <= stamp
         /\ log[t][i].key \notin Deletable => log[t][i].written.live
         /\ log[t][i].key \notin Settings =>
              /\ log[t][i].prior.obj = log[t][i].prior.id
              /\ log[t][i].written.obj = log[t][i].written.id
         /\ \A u \in Tasks : \A j \in DOMAIN log[u] :
              log[t][i].written.id = log[u][j].written.id => t = u /\ i = j

\* Why CommittedWritesStand holds: undo entries on a row nest like a stack.  Every
\* pending write is at or below the row, and nothing committed or pending lies
\* between what an entry wrote and what it would put back.
UndoNests ==
    \A k \in Kept :
        /\ \A p \in durable[k] \cup Pending(k) : p <= row[k].id
        /\ \A t \in Tasks : \A e \in EntriesOf(t) :
             e.key = k => /\ e.written.id \notin durable[k]
                          /\ \A p \in durable[k] \cup Pending(k) :
                               p < e.written.id => p <= e.prior.id

\* The inductive invariant behind CommittedWritesStand.
StoreInv == TypeOK /\ WritesAreUnique /\ UndoNests

--------------------------------------------------------------------------------
\* When no two open units of work write one row, the store is an atomic store.
FirstEntry(k) ==
    LET owner == CHOOSE t \in Tasks : k \in Dirty(t)
    IN  log[owner][CHOOSE i \in DOMAIN log[owner] :
            /\ log[owner][i].key = k
            /\ \A j \in 1..(i - 1) : log[owner][j].key # k]

CommittedRow(k) == IF \E t \in Tasks : k \in Dirty(t) THEN FirstEntry(k).prior ELSE row[k]

Atomic == INSTANCE AtomicStore WITH
    Rows   <- [id : 0..MaxWrites, live : BOOLEAN, obj : 0..MaxWrites],
    db     <- [k \in Keys |-> CommittedRow(k)],
    active <- {t \in Tasks : mode[t] # "closed"},
    buf    <- [t \in Tasks |-> [k \in IF Undoing(t) THEN {} ELSE Dirty(t) |-> row[k]]]

\* Every step of the store is a step of the atomic store, or none.
ImplementsAtomicStore == Atomic!Spec
================================================================================
