---------------------------- MODULE DeploymentProofs ---------------------------
(* Theorems about what a deployment's processes share and tell: Deployment, for  *)
(* any processes, environments and number of starts, and the settings an         *)
(* environment gives; JobTable, for any jobs, workers and aborts; and the tables *)
(* of Surfaces and Formats.                                                      *)
EXTENDS Deployment, JobTable, Surfaces, Formats, TLAPS

--------------------------------------------------------------------------------
(* JobTable: no two workers claim one job, and none begins one that has begun. *)

LEMMA TableStart == ASSUME JobTableInit PROVE TableInv
BY DEF JobTableInit, TableInv, JobTableTypeOK, Status, Closed, Meant, Locks, Holds, Is

\* a step that opens a transaction
LEMMA OpenKeeps ==
    ASSUME TableInv, NEW w \in Workers, NEW j \in Jobs,
           NEW op \in {"add", "claim", "save", "delete"}, NEW to \in Status, Opens(w, op, j, to),
           op = "claim" => to = "running", op = "delete" => to = "deleted",
           op = "save" => to \in Verdicts \cup {"running"},
           op = "add" => /\ to = "pending" /\ row[j] = "absent"
                         /\ \A v \in Workers : tx[v].op = "add" => tx[v].job # j
    PROVE  TableInv'
<1> DEFINE t == [op |-> op, job |-> j, to |-> to, wrote |-> FALSE]
<1>1. t \in Transaction /\ tx' = [tx EXCEPT ![w] = t] /\ row' = row /\ copy' = copy /\ aborts' = aborts
  BY DEF Opens, Transaction
<1>2. JobTableTypeOK'
  BY <1>1 DEF TableInv, JobTableTypeOK
<1>3. ASSUME NEW v \in Workers PROVE tx'[v] = IF v = w THEN t ELSE tx[v]
  BY <1>1 DEF TableInv, JobTableTypeOK
<1>4. ASSUME NEW v \in Workers PROVE Meant(v)'
  BY <1>1, <1>3 DEF TableInv, Meant, Is
<1>5. ASSUME NEW v \in Workers PROVE Locks(v)'
  BY <1>1, <1>3 DEF TableInv, Locks, Is, Stored
<1>6. ASSUME NEW v \in Workers PROVE Holds(v)'
  BY <1>1 DEF TableInv, Holds
<1> QED BY <1>2, <1>4, <1>5, <1>6 DEF TableInv

\* a step that closes one, or none, and claims no job
LEMMA CloseKeeps ==
    ASSUME TableInv, NEW w \in Workers, tx' = [tx EXCEPT ![w] = Closed], row' = row, aborts' \in Nat,
           NEW rest \in [Jobs -> InHand \cup {"none"}], copy' = [copy EXCEPT ![w] = rest],
           \A j \in Jobs : rest[j] = "claimed" => copy[w][j] = "claimed"
    PROVE  TableInv'
<1>1. ASSUME NEW v \in Workers PROVE tx'[v] = IF v = w THEN Closed ELSE tx[v]
  BY DEF TableInv, JobTableTypeOK
<1>2. ASSUME NEW v \in Workers, NEW j \in Jobs, copy'[v][j] = "claimed" PROVE copy[v][j] = "claimed"
  BY <1>2 DEF TableInv, JobTableTypeOK
<1>3. JobTableTypeOK'
  BY DEF TableInv, JobTableTypeOK
<1>4. ASSUME NEW v \in Workers PROVE Meant(v)'
  BY <1>1 DEF TableInv, Meant, Is, Closed
<1>5. ASSUME NEW v \in Workers PROVE Locks(v)'
  BY <1>1 DEF TableInv, Locks, Is, Stored, Closed
<1>6. ASSUME NEW v \in Workers PROVE Holds(v)'
  BY <1>2 DEF TableInv, Holds
<1> QED BY <1>3, <1>4, <1>5, <1>6 DEF TableInv

\* ... of the jobs in hand, one is let go of, or none
LEMMA ReleaseKeeps ==
    ASSUME TableInv, NEW w \in Workers, tx' = [tx EXCEPT ![w] = Closed], row' = row, aborts' \in Nat,
           NEW j \in Jobs, NEW c \in {"none", "marked", "running"},
           copy' = [copy EXCEPT ![w][j] = c]
    PROVE  TableInv'
<1>1. copy[w] \in [Jobs -> InHand \cup {"none"}] /\ copy' = [copy EXCEPT ![w] = [copy[w] EXCEPT ![j] = c]]
  BY DEF TableInv, JobTableTypeOK
<1>2. PICK rest \in [Jobs -> InHand \cup {"none"}] : rest = [copy[w] EXCEPT ![j] = c]
  BY <1>1 DEF InHand
<1>3. \A i \in Jobs : rest[i] = "claimed" => copy[w][i] = "claimed"
  BY <1>1, <1>2
<1>4. copy' = [copy EXCEPT ![w] = rest]
  BY <1>1, <1>2
<1> QED BY <1>3, <1>4, CloseKeeps

LEMMA IdleKeeps ==
    ASSUME TableInv, NEW w \in Workers, tx' = [tx EXCEPT ![w] = Closed], row' = row, aborts' \in Nat,
           copy' = copy
    PROVE  TableInv'
<1>1. PICK rest \in [Jobs -> InHand \cup {"none"}] : rest = copy[w]
  BY DEF TableInv, JobTableTypeOK
<1>2. copy' = [copy EXCEPT ![w] = rest]
  BY <1>1 DEF TableInv, JobTableTypeOK
<1> QED BY <1>1, <1>2, CloseKeeps

\* the write: it waited for whoever had the row, and looked at it again
LEMMA WriteKeeps == ASSUME TableInv, NEW w \in Workers, Writes(w) PROVE TableInv'
<1>1. /\ tx' = [tx EXCEPT ![w].wrote = TRUE] /\ tx[w] \in Transaction
      /\ row' = row /\ copy' = copy /\ aborts' = aborts
  BY DEF Writes, TableInv, JobTableTypeOK
<1>2. ASSUME NEW v \in Workers
      PROVE  /\ tx'[v].op = tx[v].op /\ tx'[v].job = tx[v].job /\ tx'[v].to = tx[v].to
             /\ tx'[v].wrote = IF v = w THEN TRUE ELSE tx[v].wrote
  <2>1. CASE v = w
    <3>1. tx'[w] = [tx[w] EXCEPT !.wrote = TRUE]
      BY <1>1 DEF TableInv, JobTableTypeOK
    <3>2. [tx[w] EXCEPT !.wrote = TRUE].wrote = TRUE
      BY <1>1 DEF Transaction
    <3> QED BY <2>1, <3>1, <3>2, <1>1 DEF Transaction
  <2>2. CASE v # w
    BY <1>1, <2>2 DEF TableInv, JobTableTypeOK
  <2> QED BY <2>1, <2>2
<1>3. JobTableTypeOK'
  <2>1. [tx[w] EXCEPT !.wrote = TRUE] \in Transaction
    BY <1>1 DEF Transaction
  <2> QED BY <1>1, <2>1 DEF TableInv, JobTableTypeOK
<1>4. ASSUME NEW v \in Workers PROVE Meant(v)'
  BY <1>1, <1>2 DEF TableInv, Meant, Is
<1>5. ASSUME NEW v \in Workers PROVE Locks(v)'
  <2>1. CASE v = w
    <3>1. /\ Is(w, "claim") => row[tx[w].job] = "pending"
          /\ tx[w].op \in {"save", "delete"} => Stored(tx[w].job)
      BY DEF Writes, Matches, Is
    <3>2. \A u \in Workers : tx[u].wrote => tx[u].job # tx[w].job
      BY DEF Writes, Unlocked
    <3> QED BY <1>1, <1>2, <2>1, <3>1, <3>2 DEF Locks, Is, Stored
  <2>2. CASE v # w
    <3>1. tx[v].wrote => tx[v].job # tx[w].job
      BY DEF Writes, Unlocked
    <3> QED BY <1>1, <1>2, <2>2, <3>1 DEF TableInv, Locks, Is, Stored
  <2> QED BY <2>1, <2>2
<1>6. ASSUME NEW v \in Workers PROVE Holds(v)'
  BY <1>1 DEF TableInv, Holds
<1> QED BY <1>3, <1>4, <1>5, <1>6 DEF TableInv

\* what a commit finds: the row nobody else could write
LEMMA CommitFinds ==
    ASSUME TableInv, NEW w \in Workers, Commit(w)
    PROVE  /\ tx[w] \in Transaction
           /\ \/ Is(w, "add") /\ row[tx[w].job] = "absent" /\ tx[w].to = "pending"
              \/ Is(w, "claim") /\ row[tx[w].job] = "pending" /\ tx[w].to = "running"
              \/ /\ Is(w, "save") /\ Stored(tx[w].job)
                 /\ tx[w].to \in Verdicts \cup {"running"}
              \/ Is(w, "delete") /\ Stored(tx[w].job) /\ tx[w].to = "deleted"
           /\ \A v \in Workers : v # w => ~(tx[v].wrote /\ tx[v].job = tx[w].job)
<1>1. tx[w] \in Transaction
  BY DEF Commit, TableInv, JobTableTypeOK, Closed
<1>2. Meant(w) /\ Locks(w) /\ Holds(w) /\ tx[w].wrote
  BY DEF TableInv, Commit
<1>3. tx[w].op \in {"add", "claim", "save", "delete"}
  BY <1>1 DEF Transaction
<1> QED BY <1>1, <1>2, <1>3 DEF Meant, Locks, Is, Stored

LEMMA CommitKeeps == ASSUME TableInv, NEW w \in Workers, Commit(w) PROVE TableInv'
<1> DEFINE t == tx[w]
<1>1. ASSUME NEW v \in Workers PROVE tx'[v] = IF v = w THEN Closed ELSE tx[v]
  BY DEF Commit, TableInv, JobTableTypeOK
<1>2. ASSUME NEW j \in Jobs PROVE row'[j] = IF j = t.job THEN t.to ELSE row[j]
  BY DEF Commit, TableInv, JobTableTypeOK
<1>3. t \in Transaction /\ t.job \in Jobs /\ t.to \in Status
  BY CommitFinds DEF Transaction
<1>4. /\ copy' \in [Workers -> [Jobs -> InHand \cup {"none"}]]
      /\ \A v \in Workers, j \in Jobs :
            copy'[v][j] = "claimed" =>
               copy[v][j] = "claimed" \/ (Is(w, "claim") /\ v = w /\ j = t.job)
  <2>1. CASE Is(w, "claim")
    <3>1. copy' = [copy EXCEPT ![w][t.job] = "claimed"]
      BY <2>1 DEF Commit, Is
    <3> QED BY <1>3, <2>1, <3>1 DEF TableInv, JobTableTypeOK, InHand
  <2>2. CASE Is(w, "save")
    <3>1. copy' = [copy EXCEPT ![w][t.job] = AfterSave(w)]
      BY <2>2 DEF Commit, Is
    <3> QED BY <1>3, <3>1 DEF TableInv, JobTableTypeOK, InHand, AfterSave
  <2>3. CASE ~Is(w, "claim") /\ ~Is(w, "save")
    <3>1. copy' = copy
      BY <2>3 DEF Commit, Is
    <3> QED BY <3>1 DEF TableInv, JobTableTypeOK
  <2> QED BY <2>1, <2>2, <2>3
<1>5. JobTableTypeOK'
  <2>1. row' \in [Jobs -> Status]
    BY <1>3 DEF Commit, TableInv, JobTableTypeOK
  <2>2. tx' \in [Workers -> Transaction \cup {Closed}]
    BY DEF Commit, TableInv, JobTableTypeOK
  <2> QED BY <1>4, <2>1, <2>2 DEF Commit, TableInv, JobTableTypeOK
<1>6. ASSUME NEW v \in Workers PROVE Meant(v)'
  <2>1. CASE v = w
    BY <1>1, <2>1 DEF Meant, Is, Closed
  <2>2. CASE v # w
    <3>2. ASSUME Is(v, "add") PROVE row'[tx[v].job] = "absent"
      <4>1. tx[v] \in Transaction /\ tx[v].job \in Jobs
        BY <3>2 DEF TableInv, JobTableTypeOK, Transaction, Closed, Is
      <4>2. row[tx[v].job] = "absent" /\ (Is(w, "add") => tx[v].job # t.job)
        BY <2>2, <3>2 DEF TableInv, Meant, Is
      <4>3. tx[v].job # t.job
        BY <4>2, CommitFinds DEF Stored
      <4> QED BY <1>2, <4>1, <4>2, <4>3
    <3>3. \A u \in Workers : Is(u, "add")' => Is(u, "add") /\ tx'[u] = tx[u]
      BY <1>1 DEF Is, Closed
    <3> QED BY <1>1, <2>2, <3>2, <3>3 DEF TableInv, Meant, Is
  <2> QED BY <2>1, <2>2
<1>7. ASSUME NEW v \in Workers PROVE Locks(v)'
  <2>1. CASE v = w
    BY <1>1, <2>1 DEF Locks, Closed
  <2>2. CASE v # w
    <3>1. ASSUME tx[v].wrote PROVE tx[v].job \in Jobs /\ row'[tx[v].job] = row[tx[v].job]
      <4>1. tx[v].job \in Jobs
        BY <3>1 DEF TableInv, JobTableTypeOK, Transaction, Closed
      <4>2. tx[v].job # t.job
        BY <2>2, <3>1, CommitFinds
      <4> QED BY <1>2, <4>1, <4>2
    <3>2. \A u \in Workers : tx'[u].wrote => tx[u].wrote /\ tx'[u] = tx[u]
      BY <1>1 DEF Closed
    <3> QED BY <1>1, <2>2, <3>1, <3>2 DEF TableInv, Locks, Is, Stored
  <2> QED BY <2>1, <2>2
<1>8. ASSUME NEW v \in Workers PROVE Holds(v)'
  <2>1. \A u \in Workers, j \in Jobs : copy[u][j] = "claimed" =>
           /\ row[j] \notin {"absent", "pending"}
           /\ \A x \in Workers : copy[x][j] = "claimed" => x = u
    BY DEF TableInv, Holds
  <2>2. SUFFICES ASSUME NEW j \in Jobs, copy'[v][j] = "claimed"
                 PROVE  /\ row'[j] \notin {"absent", "pending"}
                        /\ \A u \in Workers : copy'[u][j] = "claimed" => u = v
    BY DEF Holds
  <2>3. CASE j # t.job
    <3>1. row'[j] = row[j] /\ \A u \in Workers : copy'[u][j] = "claimed" => copy[u][j] = "claimed"
      BY <1>2, <1>4, <2>3
    <3> QED BY <2>1, <2>2, <3>1
  <2>4. CASE j = t.job /\ Is(w, "claim")
    <3>1. row[j] = "pending" /\ row'[j] = "running"
      BY <1>2, <2>4, CommitFinds DEF Is
    <3>2. \A u \in Workers : copy'[u][j] = "claimed" => u = w
      BY <1>4, <2>1, <3>1
    <3> QED BY <2>2, <3>1, <3>2
  <2>5. CASE j = t.job /\ ~Is(w, "claim")
    <3>1. \A u \in Workers : copy'[u][j] = "claimed" => copy[u][j] = "claimed"
      BY <1>4, <2>5
    <3>2. row[j] # "absent" /\ row'[j] = t.to
      BY <1>2, <2>1, <2>2, <2>5, <3>1
    <3>3. t.to \in Verdicts \cup {"running", "deleted"}
      BY <2>5, <3>2, CommitFinds
    <3> QED BY <2>1, <2>2, <3>1, <3>2, <3>3 DEF Verdicts
  <2> QED BY <2>3, <2>4, <2>5
<1> QED BY <1>5, <1>6, <1>7, <1>8 DEF TableInv

LEMMA TableStep == ASSUME TableInv, [JobTableNext]_tableVars PROVE TableInv'
<1>1. ASSUME NEW w \in Workers, NEW j \in Jobs, AskAdd(w, j) PROVE TableInv'
  BY <1>1, OpenKeeps DEF AskAdd, Status
<1>2. ASSUME NEW w \in Workers, AskClaim(w) PROVE TableInv'
  BY <1>2, OpenKeeps DEF AskClaim, Pending, Status
<1>3. ASSUME NEW w \in Workers, NEW j \in Jobs, NEW to \in Verdicts \cup {"running"},
             AskSave(w, j, to)
      PROVE  TableInv'
  <2>1. to \in Status
    BY DEF Status, Verdicts
  <2> QED BY <1>3, <2>1, OpenKeeps DEF AskSave
<1>4. ASSUME NEW w \in Workers, NEW j \in Jobs, AskDelete(w, j) PROVE TableInv'
  BY <1>4, OpenKeeps DEF AskDelete, Status
<1>5. ASSUME NEW w \in Workers, NEW j \in Jobs, NEW c \in {"none", "marked"}, tx[w] = Closed,
             copy' = [copy EXCEPT ![w][j] = c], UNCHANGED <<row, tx, aborts>>
      PROVE  TableInv'
  <2>1. tx' = [tx EXCEPT ![w] = Closed] /\ aborts' \in Nat /\ row' = row
    BY <1>5 DEF TableInv, JobTableTypeOK
  <2> QED BY <1>5, <2>1, ReleaseKeeps DEF InHand
<1>6. ASSUME NEW w \in Workers, Misses(w) PROVE TableInv'
  <2>1. aborts' \in Nat /\ row' = row /\ tx' = [tx EXCEPT ![w] = Closed] /\ tx[w] # Closed
    BY <1>6 DEF Misses, TableInv, JobTableTypeOK
  <2>2. CASE tx[w].op = "save"
    <3>1. copy' = [copy EXCEPT ![w][tx[w].job] = AfterSave(w)]
      BY <1>6, <2>2 DEF Misses
    <3>2. AfterSave(w) \in {"none", "running"} /\ tx[w].job \in Jobs
      BY <2>1 DEF AfterSave, TableInv, JobTableTypeOK, Transaction
    <3> QED BY <2>1, <3>1, <3>2, ReleaseKeeps DEF InHand
  <2>3. CASE tx[w].op # "save"
    <3>1. copy' = copy
      BY <1>6, <2>3 DEF Misses
    <3> QED BY <2>1, <3>1, IdleKeeps
  <2> QED BY <2>2, <2>3
<1>7. ASSUME NEW w \in Workers, Rollback(w) PROVE TableInv'
  <2>1. aborts' \in Nat /\ row' = row /\ tx' = [tx EXCEPT ![w] = Closed] /\ tx[w] # Closed
    BY <1>7 DEF Rollback, TableInv, JobTableTypeOK
  <2>2. CASE tx[w].op = "save"
    <3>1. copy' = [copy EXCEPT ![w][tx[w].job] = "none"]
      BY <1>7, <2>2 DEF Rollback
    <3>2. tx[w].job \in Jobs
      BY <2>1 DEF TableInv, JobTableTypeOK, Transaction
    <3> QED BY <2>1, <3>1, <3>2, ReleaseKeeps
  <2>3. CASE tx[w].op # "save"
    <3>1. copy' = copy
      BY <1>7, <2>3 DEF Rollback
    <3> QED BY <2>1, <3>1, IdleKeeps
  <2> QED BY <2>2, <2>3
<1>8. ASSUME NEW w \in Workers, Crash(w) PROVE TableInv'
  <2> DEFINE rest == [j \in Jobs |-> "none"]
  <2>1. /\ aborts' \in Nat /\ row' = row /\ tx' = [tx EXCEPT ![w] = Closed]
        /\ copy' = [copy EXCEPT ![w] = rest]
    BY <1>8 DEF Crash, Die, TableInv, JobTableTypeOK
  <2>2. rest \in [Jobs -> InHand \cup {"none"}] /\ \A j \in Jobs : rest[j] # "claimed"
    OBVIOUS
  <2> HIDE DEF rest
  <2> QED BY <2>1, <2>2, CloseKeeps
<1>9. CASE UNCHANGED tableVars
  BY <1>9 DEF tableVars, TableInv, JobTableTypeOK, Meant, Locks, Holds, Is, Stored
<1>10. ASSUME NEW w \in Workers, NEW j \in Jobs, Reads(w, j) \/ Bereft(w, j) PROVE TableInv'
  BY <1>5, <1>10 DEF Reads, Bereft
<1> QED BY <1>1, <1>2, <1>3, <1>4, <1>6, <1>7, <1>8, <1>9, <1>10, WriteKeeps, CommitKeeps
        DEF JobTableNext, Statement

\* Whatever the workers do, the table and the transactions on it are as TableInv says.
THEOREM TableInvariant == JobTableSpec => []TableInv
<1>1. JobTableInit => TableInv
  BY TableStart
<1>2. TableInv /\ [JobTableNext]_tableVars => TableInv'
  BY TableStep
<1> QED BY <1>1, <1>2, PTL DEF JobTableSpec

\* claim_next_pending's promise, for any number of workers, jobs and aborts: two workers
\* never have the same job.
THEOREM ClaimsAreExclusive == JobTableSpec => []OneHolder
<1>1. ASSUME TableInv PROVE OneHolder
  <2>1. \A w \in Workers : Meant(w) /\ Locks(w) /\ Holds(w)
    BY <1>1 DEF TableInv
  <2>2. ASSUME NEW v \in Workers, NEW w \in Workers, v # w, NEW j \in Claimed(v) \cap Claimed(w) PROVE FALSE
    BY <2>1, <2>2 DEF Claimed, Locks, Holds, Is
  <2> QED BY <2>2 DEF OneHolder
<1> QED BY <1>1, TableInvariant, PTL

\* Nobody begins a job that has begun, for any number of workers, jobs and aborts, though
\* a save is guarded by nothing: the row a claim waited for is looked at again, and nobody
\* can write it between that and the claim's commit.
THEOREM BegunOnlyPending == JobTableSpec => TakenWhilePending
<1>1. ASSUME TableInv, [JobTableNext]_tableVars, NEW w \in Workers, NEW j \in Jobs,
             copy'[w][j] \in {"marked", "claimed"}, copy'[w][j] # copy[w][j]
      PROVE  row[j] = "pending"
  <2>1. copy \in [Workers -> [Jobs -> InHand \cup {"none"}]]
    BY <1>1 DEF TableInv, JobTableTypeOK
  <2>2. ASSUME NEW v \in Workers, NEW i \in Jobs, Reads(v, i) PROVE row[j] = "pending"
    BY <1>1, <2>1, <2>2 DEF Reads
  <2>3. ASSUME NEW v \in Workers, Commit(v) PROVE row[j] = "pending"
    <3>1. tx[v].job \in Jobs /\ (Is(v, "claim") => row[tx[v].job] = "pending")
      BY <1>1, <2>3, CommitFinds DEF Transaction, Is
    <3>2. CASE Is(v, "claim")
      <4>1. copy' = [copy EXCEPT ![v][tx[v].job] = "claimed"]
        BY <2>3, <3>2 DEF Commit, Is
      <4> QED BY <1>1, <2>1, <3>1, <3>2, <4>1
    <3>3. CASE Is(v, "save")
      <4>1. copy' = [copy EXCEPT ![v][tx[v].job] = AfterSave(v)]
        BY <2>3, <3>3 DEF Commit, Is
      <4> QED BY <1>1, <2>1, <3>1, <4>1 DEF AfterSave
    <3>4. CASE ~Is(v, "claim") /\ ~Is(v, "save")
      BY <1>1, <2>3, <3>4 DEF Commit, Is
    <3> QED BY <3>2, <3>3, <3>4
  <2>4. ASSUME NEW v \in Workers, Misses(v) \/ Rollback(v) PROVE FALSE
    <3>1. tx[v].job \in Jobs
      BY <1>1, <2>4 DEF Misses, Rollback, TableInv, JobTableTypeOK, Transaction
    <3> QED BY <1>1, <2>1, <2>4, <3>1 DEF Misses, Rollback, AfterSave
  <2>5. ASSUME NEW v \in Workers, NEW i \in Jobs, Bereft(v, i) PROVE FALSE
    BY <1>1, <2>1, <2>5 DEF Bereft
  <2>6. ASSUME NEW v \in Workers, Crash(v) PROVE FALSE
    BY <1>1, <2>1, <2>6 DEF Crash, Die
  <2>7. ASSUME copy' = copy PROVE FALSE
    BY <1>1, <2>7
  <2>8. ASSUME NEW v \in Workers, Statement(v) PROVE row[j] = "pending"
    BY <2>2, <2>3, <2>4, <2>5, <2>7, <2>8
       DEF Statement, AskAdd, AskClaim, AskSave, AskDelete, Opens, Writes
  <2> QED BY <1>1, <2>6, <2>7, <2>8 DEF JobTableNext, tableVars
<1>2. TableInv /\ [JobTableNext]_tableVars
        => [\A w \in Workers, j \in Jobs :
              copy'[w][j] \in {"marked", "claimed"} /\ copy'[w][j] # copy[w][j]
                => row[j] = "pending"]_tableVars
  BY <1>1
<1> QED BY <1>2, TableInvariant, PTL DEF JobTableSpec, TakenWhilePending

--------------------------------------------------------------------------------
(* Surfaces: what a caller is told. *)

\* the first matching row, without the choice
LEMMA ClassifyIs ==
    ASSUME NEW error
    PROVE  Classify(error) =
             IF Table[1].types \cap error # {} THEN Table[1].failure
             ELSE IF Table[2].types \cap error # {} THEN Table[2].failure
             ELSE IF Table[3].types \cap error # {} THEN Table[3].failure
             ELSE IF Table[4].types \cap error # {} THEN Table[4].failure
             ELSE IF Table[5].types \cap error # {} THEN Table[5].failure
             ELSE IF Table[6].types \cap error # {} THEN Table[6].failure
             ELSE Unclassified
<1> DEFINE rows == {i \in 1..6 : Table[i].types \cap error # {}}
           first == CHOOSE i \in rows : \A k \in rows : i <= k
<1>1. CASE rows = {}
  BY <1>1 DEF Classify
<1>2. CASE rows # {}
  <2>1. \E i \in rows : \A k \in rows : i <= k
    BY <1>2
  <2>2. first \in rows /\ \A k \in rows : first <= k
    BY <2>1
  <2> HIDE DEF first
  <2>3. Classify(error) = Table[first].failure
    BY <1>2 DEF Classify, first
  <2> QED BY <2>2, <2>3
<1> QED BY <1>1, <1>2

LEMMA ClassifyInto == ASSUME NEW error PROVE Classify(error) \in Failure \cup {Unclassified}
BY ClassifyIs DEF Table, Failure

\* Every error the application or the domain can raise is classified, a domain error that
\* nobody has thought of yet too, and that one as a broken rule: no caller is answered 500,
\* or given a traceback, for what the code calls an expected failure.
THEOREM ExpectedIsClassified ==
    /\ \A c \in ApplicationErrors \cup DomainErrors : Classify(OfClass(c)) # Unclassified
    /\ \A error : "DomainError" \in error => Classify(error) # Unclassified
    /\ \A error : "DomainError" \in error /\ error \cap (ApplicationErrors \cup DomainErrors) = {}
                    => Classify(error) = "RULE"
<1>1. ASSUME NEW error, "DomainError" \in error PROVE Classify(error) # Unclassified
  BY <1>1, ClassifyIs DEF Table, Unclassified
<1>2. ASSUME NEW c \in ApplicationErrors PROVE Classify(OfClass(c)) # Unclassified
  BY <1>2, ClassifyIs DEF Table, Unclassified, OfClass, ApplicationErrors
<1>3. ASSUME NEW c \in DomainErrors PROVE "DomainError" \in OfClass(c)
  BY DEF OfClass, DomainErrors, ApplicationErrors, InvalidValues
<1>4. ASSUME NEW error, "DomainError" \in error, error \cap (ApplicationErrors \cup DomainErrors) = {}
      PROVE  Classify(error) = "RULE"
  <2>1. \A i \in 1..5 : Table[i].types \subseteq ApplicationErrors \cup DomainErrors
    BY DEF Table, ApplicationErrors, DomainErrors
  <2>2. \A i \in 1..5 : Table[i].types \cap error = {}
    BY <1>4, <2>1
  <2>3. "DomainError" \in Table[6].types /\ Table[6].failure = "RULE"
    BY DEF Table
  <2> QED BY <1>4, <2>2, <2>3, ClassifyIs
<1> QED BY <1>1, <1>2, <1>3, <1>4

\* Two errors are one to a shell exactly when they are one to an HTTP client, and a bug of
\* ours is told from every expected failure by both.
THEOREM SurfacesAgree ==
    ASSUME NEW e, NEW f
    PROVE  /\ Http(e) = Http(f) <=> ForFailure(Classify(e)) = ForFailure(Classify(f))
           /\ Http(e) = 500 <=> Classify(e) = Unclassified
           /\ ForFailure(Classify(e)) = ExitCode.ERROR <=> Classify(e) = Unclassified
           /\ ForFailure(Classify(e)) \in {1} \cup 3..8
<1>1. Classify(e) \in Failure \cup {Unclassified} /\ Classify(f) \in Failure \cup {Unclassified}
  BY ClassifyInto
<1> QED BY <1>1 DEF Http, HttpStatus, ForFailure, ExitCode, Failure, Unclassified

\* exit_codes.py: "the codes below are the promise".  2 and 9 are nobody's but argparse's and
\* the environment's, 3 to 8 are an expected failure's, and 0 and 10 say that the use case
\* returned: 10 that an import it ran, or looked at, failed or rejected rows.  A use case
\* reads no settings, so it raises no ConfigurationError.
THEOREM ExitsAreTheirOwn ==
    ASSUME NEW call, "ConfigurationError" \notin call.raised, call.parsed \in BOOLEAN,
           call.known \in BOOLEAN
    PROVE  /\ Main(call) = ExitCode.USAGE <=> ~call.parsed
           /\ Main(call) = ExitCode.CONFIGURATION <=>
                /\ call.parsed
                /\ \/ ~Readable(FromEnv(call.environ))
                   \/ call.command # "config show" /\ ~Wires(FromEnv(call.environ))
           /\ Main(call) \in 3..8 => ~call.known \/ Expected(call.raised)
           /\ Main(call) \in {0, 10} => call.command = "config show" \/ (call.known /\ call.raised = {})
           /\ Main(call) = 10 => \/ call.gave = "report" /\ call.report.rejected # 0
                                 \/ call.gave = "job" /\ (\/ call.job.status = "failed"
                                                          \/ call.job.report.rejected # 0)
<1> DEFINE built == /\ Readable(FromEnv(call.environ))
                    /\ call.command = "config show" \/ Wires(FromEnv(call.environ))
           Incomplete == \/ call.gave = "report" /\ call.report.rejected # 0
                         \/ call.gave = "job" /\ (\/ call.job.status = "failed"
                                                  \/ call.job.report.rejected # 0)
<1>1. ExitCode.OK = 0 /\ ExitCode.ERROR = 1 /\ ExitCode.USAGE = 2 /\ ExitCode.CONFIGURATION = 9
      /\ ExitCode.IMPORT_INCOMPLETE = 10
  BY DEF ExitCode
<1>2. ErrorExit({"ConfigurationError"}) = 9
  BY <1>1 DEF ErrorExit
<1>3. ErrorExit(OfClass("NotFoundError")) \in {1} \cup 3..8 /\ ErrorExit(call.raised) \in {1} \cup 3..8
  BY <1>1, SurfacesAgree DEF ErrorExit, OfClass, ApplicationErrors
<1>4. ErrorExit(call.raised) \in 3..8 => Expected(call.raised)
  BY <1>1 DEF ErrorExit
<1>5. /\ OutputExit(call) \in {0, 10}
      /\ OutputExit(call) = 10 => Incomplete
  <2>1. ASSUME NEW r PROVE ReportExit(r) = IF r.rejected = 0 THEN 0 ELSE 10
    BY <1>1 DEF ReportExit
  <2>2. ASSUME NEW j PROVE JobExit(j) = IF j.status = "failed" \/ j.report.rejected # 0 THEN 10 ELSE 0
    BY <1>1, <2>1 DEF JobExit
  <2>3. CASE call.gave = "report"
    BY <2>1, <2>3 DEF OutputExit
  <2>4. CASE call.gave = "job"
    BY <2>2, <2>4 DEF OutputExit
  <2>5. CASE call.gave \notin {"report", "job"}
    BY <1>1, <2>5 DEF OutputExit
  <2> QED BY <2>3, <2>4, <2>5
<1>6. Main(call) = IF ~call.parsed THEN 2 ELSE IF ~built THEN 9
                   ELSE IF call.command = "config show" THEN 0
                   ELSE IF ~call.known THEN ErrorExit(OfClass("NotFoundError"))
                   ELSE IF call.raised # {} THEN ErrorExit(call.raised) ELSE OutputExit(call)
  BY <1>1, <1>2 DEF Main, Execute
<1> HIDE DEF built, Incomplete
<1>7. /\ ErrorExit(OfClass("NotFoundError")) \notin {0, 2, 9, 10} /\ ErrorExit(call.raised) \notin {0, 2, 9, 10}
      /\ OutputExit(call) \notin 3..8 /\ OutputExit(call) # 2 /\ OutputExit(call) # 9
  <2>1. \A n \in {1} \cup 3..8 : n \notin {0, 2, 9, 10}
    OBVIOUS
  <2>2. \A n \in {0, 10} : n \notin 3..8 /\ n # 2 /\ n # 9
    OBVIOUS
  <2> QED BY <1>3, <1>5, <2>1, <2>2
<1>8. Main(call) = 2 <=> ~call.parsed
  <2>1. 2 # 9 /\ 2 # 0
    OBVIOUS
  <2> QED BY <1>6, <1>7, <2>1, Zenon
<1>9. Main(call) = 9 <=> call.parsed /\ ~built
  <2>1. 9 # 2 /\ 9 # 0
    OBVIOUS
  <2> QED BY <1>6, <1>7, <2>1, Zenon
<1>10. Main(call) \in 3..8 => ~call.known \/ Expected(call.raised)
  <2>1. 2 \notin 3..8 /\ 9 \notin 3..8 /\ 0 \notin 3..8
    OBVIOUS
  <2> QED BY <1>4, <1>6, <1>7, <2>1, Zenon
<1>11. Main(call) \in {0, 10} => call.command = "config show" \/ (call.known /\ call.raised = {})
  <2>1. 2 \notin {0, 10} /\ 9 \notin {0, 10}
    OBVIOUS
  <2>2. ErrorExit(OfClass("NotFoundError")) \notin {0, 10} /\ ErrorExit(call.raised) \notin {0, 10}
    BY <1>7
  <2> SUFFICES ASSUME Main(call) \in {0, 10}, call.command # "config show"
               PROVE  call.known /\ call.raised = {}
    OBVIOUS
  <2>3. call.parsed /\ built
    BY <1>6, <2>1, Zenon
  <2>4. Main(call) = IF ~call.known THEN ErrorExit(OfClass("NotFoundError"))
                     ELSE IF call.raised # {} THEN ErrorExit(call.raised) ELSE OutputExit(call)
    BY <1>6, <2>3
  <2>5. call.known
    BY <2>2, <2>4, Zenon
  <2>6. call.raised = {}
    BY <2>2, <2>4, <2>5, Zenon
  <2> QED BY <2>5, <2>6
<1>12. Main(call) = 10 => Incomplete
  <2>1. 2 # 10 /\ 9 # 10 /\ 0 # 10
    OBVIOUS
  <2> QED BY <1>5, <1>6, <1>7, <2>1, Zenon
<1> QED BY <1>1, <1>8, <1>9, <1>10, <1>11, <1>12 DEF built, Incomplete

--------------------------------------------------------------------------------
(* Formats: how an upload picks its adapter. *)

\* formats.py, extension_for: "a queued import reads back through the same adapter the
\* inline path would have used", whichever adapters are bound, under whatever names, and
\* whatever the upload says of itself.
THEOREM QueuedReadsAsInline ==
    ASSUME NEW readers, NEW writers, NEW default, Bound(readers, writers, default),
           NEW type, NEW suffix
    PROVE  WorkerFormat(readers, default, ExtensionFor(readers, default, type, suffix))
             = FormatOf(readers, default, type, suffix)
<1> DEFINE format == FormatOf(readers, default, type, suffix)
           extension == ExtensionFor(readers, default, type, suffix)
<1>1. format \in readers
  BY DEF FormatOf, Bound
<1>2. WorkerFormat(readers, default, extension)
        = IF extension \in DOMAIN SuffixFormat /\ SuffixFormat[extension] \in readers
          THEN SuffixFormat[extension] ELSE default
  BY DEF WorkerFormat, FormatOf, TypeFormat
<1>3. CASE format \in {"csv", "xlsx"}
  <2>1. extension \in DOMAIN SuffixFormat /\ SuffixFormat[extension] = format
    BY <1>3 DEF ExtensionFor, CanonicalSuffix, SuffixFormat
  <2> QED BY <1>1, <1>2, <2>1
<1>4. CASE format \notin {"csv", "xlsx"}
  <2>1. format = default
    BY <1>4 DEF FormatOf, TypeFormat, SuffixFormat
  <2>2. extension = ""
    BY <1>4 DEF ExtensionFor, CanonicalSuffix
  <2> QED BY <1>2, <2>1, <2>2 DEF SuffixFormat
<1> QED BY <1>3, <1>4

\* formats.py, __init__: a template "a registrar can download and not upload back" does not
\* happen: in whatever format it is written, a file of that format's name is read in it.
THEOREM TemplatesReadBack ==
    ASSUME NEW readers, NEW writers, NEW default, Bound(readers, writers, default),
           NEW wanted \in DOMAIN CanonicalSuffix, NEW format \in Template(writers, wanted)
    PROVE  FormatOf(readers, default, "", CanonicalSuffix[wanted]) = format
<1>1. format = wanted /\ wanted \in readers
  BY DEF Template, Bound
<1>2. /\ CanonicalSuffix[wanted] \in DOMAIN SuffixFormat
      /\ SuffixFormat[CanonicalSuffix[wanted]] = wanted
  BY DEF CanonicalSuffix, SuffixFormat
<1>3. "" \notin DOMAIN TypeFormat
  BY DEF TypeFormat
<1> QED BY <1>1, <1>2, <1>3 DEF FormatOf

--------------------------------------------------------------------------------
(* Deployment and Settings. *)

USE DEF Up

\* what the constants are, as far as the steps below need it
LEMMA Given ==
    /\ Unset \in Texts
    /\ MaxStarts \in Nat /\ 0 \in 0..MaxStarts
    /\ \A e \in Environments : IsEnvironment(e)
<1>1. "" \in Texts
  BY SettingsAssumption
<1>2. MaxStarts \in Nat /\ \A e \in Environments : IsEnvironment(e)
  BY DeploymentAssumption
<1>3. 0 \in 0..MaxStarts
  BY <1>2
<1> QED BY <1>1, <1>2, <1>3 DEF Unset

LEMMA ReadIsText == ASSUME NEW e, IsEnvironment(e), NEW v PROVE Read(e, v) \in Texts
<1>1. Trim \in [Texts -> Texts]
  BY SettingsAssumption
<1>2. v \in DOMAIN e => e[v] \in Texts
  BY DEF IsEnvironment
<1> QED BY <1>1, <1>2, Given DEF Read

LEMMA KeyTyped ==
    ASSUME NEW s \in SettingsSet, NEW n \in 0..MaxStarts
    PROVE  SigningKey(s, n) \in Keys /\ NoKey \in Keys
<1>1. PICK e \in Environments : s = FromEnv(e)
  BY DEF SettingsSet
<1>2. s.key \in Texts
  BY <1>1, ReadIsText, Given DEF FromEnv
<1> QED BY <1>2, Given DEF SigningKey, NoKey, Keys

\* a web process that starts has a key whichever start it is
LEMMA StartedHasKey ==
    ASSUME NEW s, Starts(s, "web")
    PROVE  Durable(s) => s.key # Unset
BY DEF Starts, SigningKey, NoKey

LEMMA DeploymentStart == ASSUME Init PROVE DeploymentInv
<1>1. TypeOK
  BY Given DEF Init, TypeOK
<1> QED BY <1>1 DEF Init, DeploymentInv, Issuer, Process, Put, Queued, Down

--------------------------------------------------------------------------------
LEMMA StartKeeps ==
    ASSUME DeploymentInv, NEW p \in Processes, NEW kind \in {"web", "tool"}, Start(p, kind)
    PROVE  DeploymentInv'
<1> DEFINE s == FromEnv(environ)
           new == [kind |-> kind, under |-> s, born |-> starts + 1,
                   key |-> IF kind = "web" THEN SigningKey(s, starts + 1) ELSE NoKey,
                   sent |-> {}, bytes |-> {}]
<1>1. /\ proc' = [proc EXCEPT ![p] = new] /\ starts' = starts + 1 /\ Starts(s, kind)
      /\ environ' = environ /\ people' = people /\ disk' = disk /\ job' = job
      /\ credential' = credential /\ moved' = moved /\ ~Up(p)
  BY DEF Start
<1>2. starts + 1 \in 1..MaxStarts /\ starts \in Nat
  BY DeploymentAssumption DEF Start, DeploymentInv, TypeOK
<1>3. s \in SettingsSet
  BY DEF DeploymentInv, TypeOK, SettingsSet
<1>4. new \in Running
  <2>1. starts + 1 \in 0..MaxStarts
    BY <1>2, Given
  <2> QED BY <1>2, <1>3, <2>1, KeyTyped DEF Running
<1>5. ASSUME NEW q \in Processes PROVE proc'[q] = IF q = p THEN new ELSE proc[q]
  BY <1>1 DEF DeploymentInv, TypeOK
<1>6. TypeOK'
  BY <1>1, <1>2, <1>4 DEF DeploymentInv, TypeOK
<1>7. ASSUME NEW q \in Processes PROVE Process(q)'
  <2>1. CASE q = p
    <3>1. \A o \in Processes : Up(o) => proc[o].born <= starts /\ proc[o].born \in Nat
      BY DEF DeploymentInv, Process, TypeOK, Running, Down
    <3> QED BY <1>1, <1>2, <1>5, <2>1, <3>1 DEF Process
  <2>2. CASE q # p
    <3>1. Process(q) /\ (Up(q) => proc[q].born <= starts /\ proc[q].born # starts + 1)
      BY <1>2 DEF DeploymentInv, Process, TypeOK, Running, Down
    <3>2. ASSUME Up(q)
          PROVE  \A o \in Processes : Up(o)' /\ proc'[o].born = proc[q].born => o = q
      BY <1>5, <3>1, <3>2 DEF Process
    <3>3. Up(q) => proc[q].born <= starts + 1
      BY <1>2, <3>1 DEF DeploymentInv, TypeOK, Running, Down
    <3> QED BY <1>1, <1>5, <2>2, <3>1, <3>2, <3>3 DEF Process
  <2> QED BY <2>1, <2>2
<1>8. ASSUME NEW q \in Processes PROVE Put(q)'
  BY <1>1, <1>5 DEF DeploymentInv, Put, HasBytes
<1>9. ASSUME NEW j \in Imports PROVE Queued(j)'
  <2>1. job[j].store \in Nat
    BY DEF DeploymentInv, TypeOK
  <2> QED BY <1>1, <1>2, <1>5, <2>1 DEF DeploymentInv, Queued, HasBytes
<1>10. Issuer'
  BY <1>1 DEF DeploymentInv, Issuer
<1> QED BY <1>6, <1>7, <1>8, <1>9, <1>10 DEF DeploymentInv

LEMMA KillKeeps == ASSUME DeploymentInv, NEW p \in Processes, Kill(p) PROVE DeploymentInv'
<1>1. ASSUME NEW q \in Processes PROVE proc'[q] = IF q = p THEN Down ELSE proc[q]
  BY DEF Kill, DeploymentInv, TypeOK
<1>2. ASSUME NEW j \in Imports
      PROVE  job'[j].store = job[j].store /\ job'[j].status \in {job[j].status, "gone"}
             /\ job'[j] \in [status : {"none", "pending", "done", "failed", "gone"}, store : 0..MaxStarts]
  BY DEF Kill, DeploymentInv, TypeOK
<1>3. /\ environ' = environ /\ people' = people /\ disk' = disk
      /\ credential' = credential /\ moved' = moved /\ starts' = starts
  BY DEF Kill
<1>4. TypeOK'
  <2>1. proc' \in [Processes -> Running \cup {Down}]
    BY DEF Kill, DeploymentInv, TypeOK
  <2>2. job' \in [Imports -> [status : {"none", "pending", "done", "failed", "gone"}, store : 0..MaxStarts]]
    BY <1>2 DEF Kill
  <2> QED BY <1>3, <2>1, <2>2 DEF DeploymentInv, TypeOK
<1>5. ASSUME NEW q \in Processes PROVE Process(q)' /\ Put(q)'
  BY <1>1, <1>3 DEF DeploymentInv, Process, Put, HasBytes, Down
<1>6. ASSUME NEW j \in Imports PROVE Queued(j)'
  BY <1>1, <1>2, <1>3 DEF DeploymentInv, Queued, HasBytes, Down
<1>7. Issuer'
  BY <1>3 DEF DeploymentInv, Issuer
<1> QED BY <1>4, <1>5, <1>6, <1>7 DEF DeploymentInv

LEMMA RedeployKeeps ==
    ASSUME DeploymentInv, NEW e \in Environments, Redeploy(e)
    PROVE  DeploymentInv'
<1>1. /\ environ' = e /\ proc' = proc /\ people' = people /\ disk' = disk
      /\ job' = job /\ credential' = credential /\ starts' = starts
  BY DEF Redeploy
<1>2. moved' \in BOOLEAN /\ (~moved' => ~moved /\ FromEnv(e).uploads = FromEnv(environ).uploads)
  BY DEF Redeploy, DeploymentInv, TypeOK
<1>3. TypeOK'
  BY <1>1, <1>2 DEF DeploymentInv, TypeOK
<1>4. ASSUME NEW q \in Processes PROVE Process(q)' /\ Put(q)'
  BY <1>1, <1>2 DEF DeploymentInv, Process, Put, HasBytes
<1>5. ASSUME NEW j \in Imports PROVE Queued(j)'
  BY <1>1, <1>2 DEF DeploymentInv, Queued, HasBytes
<1>6. Issuer'
  BY <1>1 DEF DeploymentInv, Issuer
<1> QED BY <1>3, <1>4, <1>5, <1>6 DEF DeploymentInv

--------------------------------------------------------------------------------
LEMMA SeedKeeps ==
    ASSUME DeploymentInv, NEW p \in Processes, NEW who \in People, Seed(p, who)
    PROVE  DeploymentInv'
BY DEF Seed, DeploymentInv, TypeOK, Issuer, Process, Put, Queued, HasBytes

LEMMA IssueKeeps ==
    ASSUME DeploymentInv, NEW p \in Processes, NEW who \in People, Issues(p, who)
    PROVE  DeploymentInv'
<1>1. /\ environ' = environ /\ proc' = proc /\ people' = people /\ disk' = disk /\ job' = job
      /\ starts' = starts /\ moved' = moved /\ proc[p].kind = "web"
      /\ credential' = [who |-> who, key |-> proc[p].key, under |-> proc[p].under, born |-> proc[p].born]
  BY DEF Issues
<1>2. proc[p] \in Running
  BY <1>1 DEF DeploymentInv, TypeOK, Down
<1>3. credential' \in Credentials
  BY <1>1, <1>2 DEF Credentials, Running
<1>4. TypeOK'
  BY <1>1, <1>3 DEF DeploymentInv, TypeOK
<1>5. Issuer'
  BY <1>1 DEF DeploymentInv, Issuer, Process
<1>6. ASSUME NEW q \in Processes PROVE Process(q)' /\ Put(q)'
  BY <1>1 DEF DeploymentInv, Process, Put, HasBytes
<1>7. ASSUME NEW j \in Imports PROVE Queued(j)'
  BY <1>1 DEF DeploymentInv, Queued, HasBytes
<1> QED BY <1>4, <1>5, <1>6, <1>7 DEF DeploymentInv

--------------------------------------------------------------------------------
\* a payload that is put is where it was, wherever it is
LEMMA PutPayloadKeeps ==
    ASSUME DeploymentInv, NEW p \in Processes, NEW j \in Imports, PutPayload(p, j)
    PROVE  DeploymentInv'
<1> DEFINE local == Storage(proc[p].under) = "local"
           new == [proc[p] EXCEPT !.sent = @ \cup {j}, !.bytes = IF local THEN @ ELSE @ \cup {j}]
<1>1. proc[p] \in Running
  BY DEF PutPayload, DeploymentInv, TypeOK, Down
<1>2. new \in Running
  BY <1>1 DEF Running
<1>3. /\ environ' = environ /\ people' = people /\ job' = job /\ credential' = credential
      /\ starts' = starts /\ moved' = moved
      /\ disk' = IF local THEN disk \cup {[at |-> proc[p].under.uploads, job |-> j]} ELSE disk
  BY DEF PutPayload
<1>4. proc' = [proc EXCEPT ![p] = new]
  <2>1. CASE local
    BY <1>1, <2>1 DEF PutPayload, DeploymentInv, TypeOK, Running
  <2>2. CASE ~local
    BY <1>1, <2>2 DEF PutPayload, DeploymentInv, TypeOK, Running
  <2> QED BY <2>1, <2>2
<1>5. ASSUME NEW q \in Processes
      PROVE  /\ proc'[q].kind = proc[q].kind /\ proc'[q].born = proc[q].born
             /\ proc'[q].under = proc[q].under /\ proc'[q].key = proc[q].key
             /\ proc'[q].sent = (IF q = p THEN proc[q].sent \cup {j} ELSE proc[q].sent)
             /\ proc'[q].bytes = (IF q = p /\ ~local THEN proc[q].bytes \cup {j} ELSE proc[q].bytes)
  BY <1>1, <1>4 DEF Running, DeploymentInv, TypeOK
<1>6. ASSUME NEW q \in Processes, NEW i \in Imports, HasBytes(q, i) PROVE HasBytes(q, i)'
  BY <1>3, <1>5, <1>6 DEF HasBytes
<1>7. HasBytes(p, j)'
  BY <1>3, <1>5 DEF HasBytes
<1>8. TypeOK'
  <2>1. proc' \in [Processes -> Running \cup {Down}]
    BY <1>2, <1>4 DEF DeploymentInv, TypeOK
  <2>2. proc[p].under.uploads \in {s.uploads : s \in SettingsSet}
    BY <1>1 DEF Running
  <2> QED BY <1>3, <2>1, <2>2 DEF DeploymentInv, TypeOK
<1>9. ASSUME NEW q \in Processes PROVE Process(q)'
  <2>1. \A o \in Processes : proc'[o].kind = proc[o].kind /\ proc'[o].born = proc[o].born
    BY <1>5
  <2>2. Process(q)
    BY DEF DeploymentInv
  <2> QED BY <1>3, <1>5, <2>1, <2>2 DEF Process
<1>10. ASSUME NEW q \in Processes PROVE Put(q)'
  <2>1. proc[q].sent \subseteq Imports
    BY DEF DeploymentInv, TypeOK, Running, Down
  <2> QED BY <1>3, <1>5, <1>6, <1>7, <2>1 DEF DeploymentInv, Put
<1>11. ASSUME NEW i \in Imports PROVE Queued(i)'
  <2>1. Queued(i) /\ disk \subseteq disk'
    BY <1>3 DEF DeploymentInv
  <2>2. ASSUME NEW q \in Processes,
               Up(q) /\ proc[q].born = job[i].store => ~Durable(proc[q].under) /\ HasBytes(q, i)
        PROVE  Up(q)' /\ proc'[q].born = job[i].store
                 => ~Durable(proc'[q].under) /\ HasBytes(q, i)'
    BY <1>5, <1>6, <2>2
  <2>3. ASSUME \A q \in Processes :
                 Up(q) /\ proc[q].born = job[i].store => ~Durable(proc[q].under) /\ HasBytes(q, i)
        PROVE  \A q \in Processes :
                 Up(q)' /\ proc'[q].born = job[i].store
                   => ~Durable(proc'[q].under) /\ HasBytes(q, i)'
    BY <2>2, <2>3
  <2> QED BY <1>3, <2>1, <2>3 DEF Queued
<1>12. Issuer'
  BY <1>3 DEF DeploymentInv, Issuer
<1> QED BY <1>8, <1>9, <1>10, <1>11, <1>12 DEF DeploymentInv

\* steps that write one job's row only
LEMMA JobKeeps ==
    ASSUME DeploymentInv, NEW j \in Imports, NEW entry, job' = [job EXCEPT ![j] = entry],
           entry \in [status : {"none", "pending", "done", "failed", "gone"}, store : 0..MaxStarts],
           UNCHANGED <<environ, proc, people, disk, credential, starts, moved>>,
           entry.store <= starts,
           ~moved => /\ entry.status # "failed"
                     /\ entry.status = "pending" =>
                           IF entry.store = 0 THEN [at |-> FromEnv(environ).uploads, job |-> j] \in disk
                           ELSE \A p \in Processes : Up(p) /\ proc[p].born = entry.store
                                                       => ~Durable(proc[p].under) /\ HasBytes(p, j)
    PROVE  DeploymentInv'
<1>1. ASSUME NEW i \in Imports PROVE job'[i] = IF i = j THEN entry ELSE job[i]
  BY DEF DeploymentInv, TypeOK
<1>2. TypeOK'
  BY DEF DeploymentInv, TypeOK
<1>3. ASSUME NEW q \in Processes PROVE Process(q)' /\ Put(q)'
  BY DEF DeploymentInv, Process, Put, HasBytes
<1>4. ASSUME NEW i \in Imports PROVE Queued(i)'
  BY <1>1 DEF DeploymentInv, Queued, HasBytes
<1>5. Issuer'
  BY DEF DeploymentInv, Issuer
<1> QED BY <1>2, <1>3, <1>4, <1>5 DEF DeploymentInv

LEMMA AddJobKeeps ==
    ASSUME DeploymentInv, NEW p \in Processes, NEW j \in Imports, AddJob(p, j)
    PROVE  DeploymentInv'
<1> DEFINE entry == [status |-> "pending", store |-> Store(p)]
<1>1. Up(p) /\ proc[p] \in Running
  <2>1. proc[p] # Down
    BY DEF AddJob, Down
  <2> QED BY <2>1 DEF DeploymentInv, TypeOK, Running
<1>2. Store(p) \in 0..MaxStarts /\ Store(p) <= starts
  <2>1. proc[p].born \in 1..MaxStarts /\ proc[p].born <= starts /\ starts \in 0..MaxStarts
    BY <1>1 DEF DeploymentInv, TypeOK, Running, Process
  <2> QED BY <2>1, Given DEF Store
<1>3. Store(p) # 0 => ~Durable(proc[p].under) /\ proc[p].born = Store(p)
  BY DEF Store
<1>4. ASSUME ~moved PROVE HasBytes(p, j) /\ proc[p].under.uploads = FromEnv(environ).uploads
  BY <1>1, <1>4 DEF AddJob, DeploymentInv, Put, Process
<1>5. ASSUME ~moved, Store(p) = 0 PROVE [at |-> FromEnv(environ).uploads, job |-> j] \in disk
  <2>1. Durable(proc[p].under)
    BY <1>1, <1>5 DEF Store, Running
  <2> QED BY <1>4, <1>5, <2>1 DEF HasBytes, Storage
<1>6. ASSUME ~moved, Store(p) # 0, NEW q \in Processes, Up(q), proc[q].born = Store(p)
      PROVE  ~Durable(proc[q].under) /\ HasBytes(q, j)
  <2>1. q = p
    BY <1>1, <1>3, <1>6 DEF DeploymentInv, Process
  <2> QED BY <1>3, <1>4, <1>6, <2>1
<1>7. entry \in [status : {"none", "pending", "done", "failed", "gone"}, store : 0..MaxStarts]
  BY <1>2
<1>8. /\ job' = [job EXCEPT ![j] = entry] /\ entry.store = Store(p) /\ entry.status = "pending"
      /\ UNCHANGED <<environ, proc, people, disk, credential, starts, moved>>
  BY DEF AddJob
<1> HIDE DEF entry
<1> QED BY <1>2, <1>5, <1>6, <1>7, <1>8, JobKeeps

LEMMA RunJobKeeps ==
    ASSUME DeploymentInv, NEW p \in Processes, NEW j \in Imports, RunJob(p, j)
    PROVE  DeploymentInv'
<1> DEFINE entry == [job[j] EXCEPT !.status = IF HasBytes(p, j) THEN "done" ELSE "failed"]
<1>1. Up(p) /\ proc[p] \in Running
  BY DEF RunJob, DeploymentInv, TypeOK, Down
<1>2. job[j].status = "pending" /\ job[j].store = Store(p) /\ Queued(j)
  BY DEF RunJob, DeploymentInv
<1>3. /\ entry \in [status : {"none", "pending", "done", "failed", "gone"}, store : 0..MaxStarts]
      /\ entry.store = job[j].store /\ entry.status = IF HasBytes(p, j) THEN "done" ELSE "failed"
  BY DEF DeploymentInv, TypeOK
<1>4. ASSUME ~moved PROVE HasBytes(p, j)
  <2>1. CASE Durable(proc[p].under)
    <3>1. proc[p].under.uploads = FromEnv(environ).uploads
      BY <1>1, <1>4 DEF DeploymentInv, Process
    <3>2. job[j].store = 0
      BY <1>2, <2>1 DEF Store
    <3> QED BY <1>2, <1>4, <2>1, <3>1, <3>2 DEF Queued, HasBytes, Storage
  <2>2. CASE ~Durable(proc[p].under)
    <3>1. job[j].store = proc[p].born /\ job[j].store # 0
      BY <1>1, <1>2, <2>2 DEF Store, Running
    <3> QED BY <1>1, <1>2, <1>4, <3>1 DEF Queued
  <2> QED BY <2>1, <2>2
<1>5. entry.store <= starts
  BY <1>2, <1>3 DEF Queued
<1>6. job' = [job EXCEPT ![j] = entry]
  BY DEF RunJob, DeploymentInv, TypeOK
<1> QED BY <1>3, <1>4, <1>5, <1>6, JobKeeps DEF RunJob

--------------------------------------------------------------------------------
LEMMA DeploymentStep == ASSUME DeploymentInv, [Next]_vars PROVE DeploymentInv'
<1>1. CASE UNCHANGED vars
  BY <1>1 DEF vars, DeploymentInv, TypeOK, Issuer, Process, Put, Queued, HasBytes
<1>2. ASSUME NEW p \in Processes, NEW who \in People, SignIn(p, who) \/ IssueToken(p, who)
      PROVE  DeploymentInv'
  BY <1>2, IssueKeeps DEF SignIn, IssueToken
<1> QED BY <1>1, <1>2, StartKeeps, KillKeeps, RedeployKeeps, SeedKeeps, PutPayloadKeeps, AddJobKeeps,
          RunJobKeeps DEF Next

\* Whatever is started, killed and redeployed, the deployment is as DeploymentInv says.
THEOREM DeploymentInvariant == Spec => []DeploymentInv
<1>1. Init => DeploymentInv
  BY DeploymentStart
<1>2. DeploymentInv /\ [Next]_vars => DeploymentInv'
  BY DeploymentStep
<1> QED BY <1>1, <1>2, PTL DEF Spec

\* Container.secret_key: "a fresh random secret when the deployment is in memory, and a
\* refusal otherwise".  So a credential is taken by every process of a deployment that
\* keeps anything, and by the one that issued it in one that keeps nothing.
THEOREM CredentialsSurvive == Spec => []SessionsSurvive
<1>1. ASSUME DeploymentInv PROVE SessionsSurvive
  <2> SUFFICES ASSUME credential # Nobody, NEW p \in Processes, proc[p].kind = "web"
               PROVE  /\ proc[p].under = credential.under
                           /\ (Durable(proc[p].under) \/ proc[p].under.key # Unset) => Verifies(p)
                      /\ Verifies(p) =>
                           \/ proc[p].under.key = credential.under.key /\ credential.under.key # Unset
                           \/ proc[p].born = credential.born
    BY DEF SessionsSurvive
  <2> DEFINE s == proc[p].under  c == credential.under
  <2>1. /\ proc[p].key = SigningKey(s, proc[p].born) /\ Starts(s, "web")
        /\ credential.key = SigningKey(c, credential.born) /\ Starts(c, "web")
    BY <1>1 DEF DeploymentInv, Process, Issuer
  <2>2. (Durable(s) => s.key # Unset) /\ (Durable(c) => c.key # Unset)
    BY <2>1, StartedHasKey
  <2>3. /\ proc[p].key = IF s.key # Unset THEN [set |-> s.key, born |-> 0]
                         ELSE [set |-> Unset, born |-> proc[p].born]
        /\ credential.key = IF c.key # Unset THEN [set |-> c.key, born |-> 0]
                            ELSE [set |-> Unset, born |-> credential.born]
    BY <2>1, <2>2 DEF SigningKey
  <2> QED BY <2>2, <2>3 DEF Verifies
<1> QED BY <1>1, DeploymentInvariant, PTL

\* A job's bytes are where its row is: on disk with the database, in the process with the
\* process's own store.
THEOREM PayloadsSurvive == Spec => []JobsKeepTheirBytes
<1>1. DeploymentInv => JobsKeepTheirBytes
  BY DEF DeploymentInv, Queued, JobsKeepTheirBytes
<1> QED BY <1>1, DeploymentInvariant, PTL

--------------------------------------------------------------------------------
LEMMA MadeKeyIsOne ==
    ASSUME NEW s, ~Durable(s), s.key = Unset PROVE SigningKey(s, 1) # NoKey
BY DEF SigningKey, NoKey

LEMMA DefaultSizes ==
    /\ Default.threshold \in Int /\ Default.threshold > 0 /\ Default.threshold # NoSize
    /\ Default.max \in Int /\ Default.max > 0 /\ Default.max # NoSize
BY DEF Default, NoSize

\* Settings: "a blank value is an unset one".  An environment whose variables are all blank
\* is the default one, and a deployment that says nothing starts, whatever it is to run.
THEOREM BlankEnvironmentStarts ==
    ASSUME NEW e, IsEnvironment(e), \A v \in DOMAIN e : Trim[e[v]] = "", NEW kind
    PROVE  /\ \A f : DOMAIN f = {} => FromEnv(e) = FromEnv(f)
           /\ MigrationDatabase(FromEnv(e)) = Default.database
           /\ Starts(FromEnv(e), kind)
<1> DEFINE s == FromEnv(e)
<1>1. \A v : Read(e, v) = Unset
  BY DEF Read, Unset
<1>2. \A f, v : DOMAIN f = {} => Read(f, v) = Unset
  BY DEF Read
<1>3. \A f : DOMAIN f = {} => FromEnv(e) = FromEnv(f)
  BY <1>1, <1>2 DEF FromEnv
<1>4. s.persistence = "memory" /\ s.identity = "repository" /\ s.key = Unset /\ s.migration = Unset
  BY <1>1 DEF FromEnv, Choice, Default
<1>5. s.threshold = Default.threshold /\ s.max = Default.max /\ s.database = Default.database
  BY <1>1 DEF FromEnv, Size, Or
<1>6. SigningKey(s, 1) # NoKey
  <2>1. ~Durable(s)
    BY <1>4 DEF Durable
  <2> QED BY <1>4, <2>1, MadeKeyIsOne
<1>7. Readable(s) /\ Wires(s)
  <2>1. s.threshold # NoSize /\ s.max # NoSize
    BY <1>5, DefaultSizes
  <2>2. s.persistence # Misread /\ s.identity # Misread /\ s.identity # "static"
    BY <1>4 DEF Misread
  <2> QED BY <2>1, <2>2 DEF Readable, Wires
<1> QED BY <1>3, <1>4, <1>5, <1>6, <1>7 DEF Starts, MigrationDatabase, Or

\* No process starts half configured: a static identity has somebody to be, sizes are
\* positive, and what has to be signed beyond a process's life has a key that was set.
THEOREM StartedIsWhole ==
    ASSUME NEW e, IsEnvironment(e), NEW kind, Starts(FromEnv(e), kind)
    PROVE  /\ FromEnv(e).persistence \in {"memory", "sqlalchemy"}
           /\ FromEnv(e).identity = "repository" \/ FromEnv(e).admin \in Ids
           /\ FromEnv(e).threshold > 0 /\ FromEnv(e).max > 0
           /\ kind = "web" /\ FromEnv(e).persistence = "sqlalchemy" => FromEnv(e).key # Unset
<1> DEFINE s == FromEnv(e)
<1>1. s.persistence \in {"memory", "sqlalchemy", Misread} /\ s.identity \in {"repository", "static", Misread}
  BY DEF FromEnv, Choice, Default
<1>2. (s.threshold # NoSize => s.threshold > 0) /\ (s.max # NoSize => s.max > 0)
  <2>1. ASSUME NEW u, NEW d \in Int, d > 0 PROVE Size(u, d) # NoSize => Size(u, d) > 0
    BY <2>1 DEF Size, NoSize
  <2>3. /\ s.threshold = Size(Read(e, "IMPORT_INLINE_THRESHOLD_BYTES"), Default.threshold)
        /\ s.max = Size(Read(e, "IMPORT_MAX_BYTES"), Default.max)
    BY DEF FromEnv
  <2> HIDE DEF s
  <2> QED BY <2>1, <2>3, DefaultSizes
<1> QED BY <1>1, <1>2, StartedHasKey DEF Starts, Readable, Wires, Durable
================================================================================
