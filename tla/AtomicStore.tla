------------------------------ MODULE AtomicStore ------------------------------
(* What a store with atomic transactions promises: the rows change only when a  *)
(* transaction commits, and then by everything it wrote since it last committed *)
(* or rolled back.  Nothing is said of reads: the promise is atomicity, not     *)
(* isolation.                                                                   *)
CONSTANTS
    Keys,   \* the rows' keys
    Tasks,  \* the asyncio tasks, each with at most one open unit of work
    Rows    \* what a row may hold, absence included

VARIABLES
    db,      \* the committed rows
    active,  \* the tasks whose unit of work is open
    buf      \* per task, what it wrote and has not committed: a function on some keys

vars == <<db, active, buf>>

Empty == [k \in {} |-> {}]

\* f with every pair of g, g winning: what committing does to the rows
Over(f, g) == [k \in DOMAIN f \cup DOMAIN g |-> IF k \in DOMAIN g THEN g[k] ELSE f[k]]

Init ==
    /\ db \in [Keys -> Rows]
    /\ active = {}
    /\ buf = [t \in Tasks |-> Empty]

Begin(t) ==
    /\ t \notin active
    /\ active' = active \cup {t}
    /\ UNCHANGED <<db, buf>>

Write(t, k, r) ==
    /\ t \in active
    /\ buf' = [buf EXCEPT ![t] = Over(@, [j \in {k} |-> r])]
    /\ UNCHANGED <<db, active>>

\* a write made while no unit of work is open is its own transaction
WriteThrough(t, k, r) ==
    /\ t \notin active
    /\ db' = [db EXCEPT ![k] = r]
    /\ UNCHANGED <<active, buf>>

Commit(t) ==
    /\ t \in active
    /\ db' = Over(db, buf[t])
    /\ buf' = [buf EXCEPT ![t] = Empty]
    /\ UNCHANGED active

Abort(t) ==
    /\ t \in active
    /\ buf' = [buf EXCEPT ![t] = Empty]
    /\ UNCHANGED <<db, active>>

End(t) ==
    /\ t \in active
    /\ buf[t] = Empty
    /\ active' = active \ {t}
    /\ UNCHANGED <<db, buf>>

Next ==
    \E t \in Tasks :
        \/ Begin(t) \/ Commit(t) \/ Abort(t) \/ End(t)
        \/ \E k \in Keys, r \in Rows : Write(t, k, r) \/ WriteThrough(t, k, r)

Spec == Init /\ [][Next]_vars
================================================================================
