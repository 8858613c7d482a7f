--------------------------- MODULE ImportJobsProofs ----------------------------
(* JobsInv is inductive; what it gives for any uploads, workers and bounds.     *)
EXTENDS ImportJobs, TLAPS

WorkerRecord == [pc : WorkerStep, job : Jobs, verdict : {"DONE", "FAILED"}]

LEMMA IdleIs ==
    /\ Idle \in WorkerRecord
    /\ Idle.pc = "idle"
<1>1. (CHOOSE j \in Jobs : TRUE) \in Jobs
  BY ImportAssumption
<1> QED
  BY <1>1 DEF Idle, WorkerStep, WorkerRecord

LEMMA JobsStart == Init => JobsInv
<1> SUFFICES ASSUME Init PROVE JobsInv
  OBVIOUS
<1>1. TypeOK
  BY IdleIs, ImportAssumption DEF WorkerRecord, Init, TypeOK, Upload, RequestStep
<1>2. \A w \in Workers : worker[w].pc = "idle"
  BY IdleIs DEF Init
<1>3. Found /\ HeldBack /\ \A j \in Jobs : Submitted(j)
  BY <1>2 DEF Init, Found, HeldBack, Submitted
<1>4. InTurn
  BY <1>2 DEF Init, InTurn, Turn, Starting, Started
<1> QED
  BY <1>1, <1>3, <1>4 DEF JobsInv

--------------------------------------------------------------------------------
(* The steps of a request change no worker. *)

LEMMA SubmitStep ==
    ASSUME JobsInv, NEW k \in Jobs, Submit(k) \/ Sweep(k)
    PROVE  JobsInv'
<1> USE DEF JobsInv, TypeOK, At
<1>1. CASE RefuseHuge(k) \/ InlineCheck(k) \/ RequestFails(k)
  <2>1. TypeOK'
    BY <1>1 DEF RefuseHuge, InlineCheck, RequestFails, RequestStep
  <2>2. \A j \in Jobs : Submitted(j)'
    BY <1>1 DEF RefuseHuge, InlineCheck, RequestFails, Submitted, RequestStep
  <2>3. Found'
    BY <1>1 DEF RefuseHuge, InlineCheck, RequestFails, Found
  <2>4. HeldBack'
    BY <1>1 DEF RefuseHuge, InlineCheck, RequestFails, HeldBack, MayGrade, Refused, Unwired, Upload
  <2>5. Redelivery = "later" => InTurn'
    BY <1>1 DEF RefuseHuge, InlineCheck, RequestFails, InTurn, Turn
  <2> QED BY <2>1, <2>2, <2>3, <2>4, <2>5
<1>2. CASE InlineApply(k)
  <2>1. TypeOK'
    BY <1>2 DEF InlineApply, RequestStep
  <2>2. \A j \in Jobs : Submitted(j)'
    BY <1>2 DEF InlineApply, Submitted, RequestStep
  <2>3. Found'
    BY <1>2 DEF InlineApply, Found
  <2>4. HeldBack'
    BY <1>2 DEF InlineApply, HeldBack, MayGrade
  <2>5. Redelivery = "later" => InTurn'
    <3>1. status[k] = "none" /\ applied[k] = 0
      BY <1>2 DEF InlineApply, Submitted
    <3>2. \A w \in Workers : worker[w].pc \in Started => worker[w].job # k
      BY <3>1 DEF Found, Started
    <3> QED
      BY <1>2, <3>1, <3>2 DEF InlineApply, InTurn, Turn, Started
  <2> QED BY <2>1, <2>2, <2>3, <2>4, <2>5
<1>3. CASE PutPayload(k) \/ Sweep(k)
  <2>1. TypeOK'
    <3>1. CASE PutPayload(k)
      BY <3>1 DEF PutPayload, RequestStep
    <3>2. CASE Sweep(k)
      BY <3>2 DEF Sweep
    <3> QED BY <1>3, <3>1, <3>2
  <2>2. \A j \in Jobs : Submitted(j)'
    BY <1>3 DEF PutPayload, Sweep, Submitted, RequestStep
  <2>3. Found'
    BY <1>3 DEF PutPayload, Sweep, Found
  <2>4. HeldBack'
    BY <1>3 DEF PutPayload, Sweep, HeldBack, MayGrade
  <2>5. Redelivery = "later" => InTurn'
    BY <1>3 DEF PutPayload, Sweep, InTurn, Turn
  <2> QED BY <2>1, <2>2, <2>3, <2>4, <2>5
<1>4. CASE AddJob(k)
  <2>1. TypeOK'
    BY <1>4 DEF AddJob, RequestStep
  <2>2. \A j \in Jobs : Submitted(j)'
    BY <1>4 DEF AddJob, Submitted, RequestStep
  <2>3. Found'
    BY <1>4 DEF AddJob, Found
  <2>4. HeldBack'
    BY <1>4 DEF AddJob, HeldBack, MayGrade
  <2>5. Redelivery = "later" => InTurn'
    <3>1. status[k] = "none" /\ applied[k] = 0
      BY <1>4 DEF AddJob, Submitted
    <3>2. \A w \in Workers : worker[w].pc \notin {"idle", "taken"} => worker[w].job # k
      BY <3>1 DEF Found
    <3> QED
      BY <1>4, <3>1, <3>2 DEF AddJob, InTurn, Turn, Started
  <2> QED BY <2>1, <2>2, <2>3, <2>4, <2>5
<1>5. CASE Enqueue(k)
  <2>1. TypeOK'
    BY <1>5 DEF Enqueue, RequestStep
  <2>2. \A j \in Jobs : Submitted(j)'
    BY <1>5 DEF Enqueue, Submitted, RequestStep
  <2>3. Found'
    BY <1>5 DEF Enqueue, Found, Submitted
  <2>4. HeldBack'
    BY <1>5 DEF Enqueue, HeldBack, MayGrade
  <2>5. Redelivery = "later" => InTurn'
    BY <1>5 DEF Enqueue, InTurn, Turn
  <2> QED BY <2>1, <2>2, <2>3, <2>4, <2>5
<1> QED
  BY <1>1, <1>2, <1>3, <1>4, <1>5 DEF Submit

--------------------------------------------------------------------------------
(* Handing an id to a worker: when it is handed out again later only, to one     *)
(* nobody else is starting.                                                      *)

LEMMA TakeStep ==
    ASSUME JobsInv, NEW w \in Workers, NEW k \in Jobs,
           worker[w].pc = "idle",
           Redelivery = "later" => ~BeingStarted(k),
           worker' = [worker EXCEPT ![w].pc = "taken", ![w].job = k],
           queue' \in Seq(Jobs),
           \A i \in DOMAIN queue' : status[queue'[i]] # "none",
           again' \in 0..MaxAgain,
           UNCHANGED <<upload, request, payload, status, applied, submitter, barred, broken, crashes>>
    PROVE  JobsInv'
<1> USE DEF JobsInv, TypeOK
<1>0. /\ worker'[w].pc = "taken" /\ worker'[w].job = k
      /\ \A v \in Workers : v # w => worker'[v] = worker[v]
  <2>1. worker \in [Workers -> WorkerRecord]
    BY DEF WorkerRecord
  <2> HIDE DEF JobsInv, TypeOK
  <2> QED BY <2>1 DEF WorkerRecord
<1>1. TypeOK'
  <2>1. worker' \in [Workers -> WorkerRecord]
    <3>1. worker \in [Workers -> WorkerRecord]
      BY DEF WorkerRecord
    <3> HIDE DEF JobsInv, TypeOK
    <3> QED BY <3>1 DEF WorkerRecord, WorkerStep
  <2> QED BY <2>1 DEF WorkerRecord
<1>2. \A j \in Jobs : Submitted(j)'
  BY DEF Submitted
<1>3. Found'
  BY <1>0 DEF Found
<1>4. HeldBack'
  BY <1>0 DEF HeldBack, MayGrade
<1>5. ASSUME Redelivery = "later" PROVE InTurn'
  <2>1. \A v \in Workers : worker[v].job = k => worker[v].pc \notin Starting
    BY <1>5 DEF BeingStarted, Handling, Starting
  <2>2. ASSUME NEW v \in Workers PROVE Turn(v)'
    BY <1>0, <1>5, <2>1, <2>2 DEF InTurn, Turn, Starting, Started
  <2> QED
    BY <1>5, <2>2 DEF InTurn
<1> QED
  BY <1>1, <1>2, <1>3, <1>4, <1>5

\* A worker gives up, or is broken off, and nothing else changes.
LEMMA GivesUpStep ==
    ASSUME JobsInv, NEW w \in Workers,
           worker' = [worker EXCEPT ![w] = Idle],
           broken' \in SUBSET Jobs,
           UNCHANGED <<upload, request, payload, status, queue, applied, submitter, barred,
                       crashes, again>>
    PROVE  JobsInv'
<1> USE DEF JobsInv, TypeOK
<1>0. /\ worker \in [Workers -> WorkerRecord] /\ worker' \in [Workers -> WorkerRecord]
      /\ worker'[w].pc = "idle"
      /\ \A u \in Workers : u # w => worker'[u] = worker[u]
  <2>1. worker \in [Workers -> WorkerRecord]
    BY DEF WorkerRecord
  <2> HIDE DEF JobsInv, TypeOK
  <2> QED BY <2>1, IdleIs
<1>1. TypeOK'
  BY <1>0 DEF WorkerRecord
<1>2. (\A j \in Jobs : Submitted(j)') /\ Found'
  BY <1>0 DEF Submitted, Found
<1>3. HeldBack'
  BY <1>0 DEF HeldBack, MayGrade
<1>4. ASSUME Redelivery = "later" PROVE InTurn'
  <2>1. ASSUME NEW u \in Workers PROVE Turn(u)'
    <3>1. CASE u = w
      BY <1>0, <3>1 DEF Turn, Starting, Started
    <3>2. CASE u # w
      <4>1. Turn(u)
        BY <1>4 DEF InTurn
      <4> QED
        BY <1>0, <3>2, <4>1 DEF Turn, Starting, Started
    <3> QED BY <3>1, <3>2
  <2> QED
    BY <1>4, <2>1 DEF InTurn
<1> QED
  BY <1>1, <1>2, <1>3, <1>4

\* A worker goes on or has its verdict, and nothing else changes.
LEMMA QuietStep ==
    ASSUME JobsInv, NEW w \in Workers, NEW to \in WorkerStep, NEW v \in {"DONE", "FAILED"},
           worker[w].pc \in {"taken", "running", "resolved", "fetched"},
           worker' = [worker EXCEPT ![w].pc = to, ![w].verdict = v],
           to = "marked" => worker[w].pc = "taken" /\ status[worker[w].job] = "PENDING",
           to \in Started => worker[w].pc \in Started,
           to = "allowed" => MayGrade,
           to = "finished" => v = "FAILED",
           to # "idle", to # "taken",
           UNCHANGED <<upload, request, payload, status, queue, applied, submitter, barred,
                       broken, crashes, again>>
    PROVE  JobsInv'
<1> USE DEF JobsInv, TypeOK
<1>0. /\ worker'[w].pc = to /\ worker'[w].verdict = v
      /\ worker'[w].job = worker[w].job
      /\ \A u \in Workers : u # w => worker'[u] = worker[u]
  <2>1. worker \in [Workers -> WorkerRecord]
    BY DEF WorkerRecord
  <2> HIDE DEF JobsInv, TypeOK
  <2> QED BY <2>1 DEF WorkerRecord
<1>1. TypeOK'
  <2>1. worker' \in [Workers -> WorkerRecord]
    <3>1. worker \in [Workers -> WorkerRecord]
      BY DEF WorkerRecord
    <3> HIDE DEF JobsInv, TypeOK
    <3> QED BY <3>1 DEF WorkerRecord
  <2> QED BY <2>1 DEF WorkerRecord
<1>2. \A j \in Jobs : Submitted(j)'
  <2>1. \A j \in Jobs : Submitted(j) OBVIOUS
  <2> QED BY <2>1 DEF Submitted
<1>3. Found'
  <2>1. worker'[w].pc # "idle" => status[worker'[w].job] # "none"
    BY <1>0 DEF Found, Started, WorkerStep
  <2> QED
    BY <1>0, <2>1 DEF Found
<1>4. HeldBack'
  <2>1. worker'[w].pc = "allowed" => to = "allowed"
    BY <1>0
  <2>2. \A u \in Workers : worker'[u].pc = "allowed" => worker'[u].job \notin barred
    <3>1. worker'[w].pc = "allowed" => barred = {}
      BY <2>1 DEF HeldBack
    <3>2. ASSUME NEW u \in Workers, u # w PROVE worker'[u].pc = "allowed" => worker'[u].job \notin barred
      BY <1>0, <3>2 DEF HeldBack
    <3> QED BY <3>1, <3>2
  <2> QED
    BY <2>2 DEF HeldBack, MayGrade
<1>5. ASSUME Redelivery = "later" PROVE InTurn'
  <2>1. ASSUME NEW u \in Workers PROVE Turn(u)'
    <3>1. to = "marked" \/ to \in Started
      BY DEF WorkerStep, Started
    <3>2. worker[w].pc \in Starting => to = "marked"
      BY <3>1 DEF Starting, Started
    <3>3. worker[w].pc \in Started => to \in Started
      BY <3>1 DEF Starting, Started
    <3>4. CASE u = w
      <4>1. Turn(w) /\ \A x \in Workers : Turn(x)
        BY <1>5 DEF InTurn
      <4>2. to \in Started => worker[w].pc \in Started \ {"finished"}
        BY <3>1, <3>3 DEF Started
      <4>3. worker'[u].pc = to /\ worker'[u].verdict = v /\ worker'[u].job = worker[u].job
        BY <1>0, <3>4
      <4>4. \A x \in Workers \ {u} : worker'[x] = worker[x]
        BY <1>0, <3>4
      <4>5. /\ to = "marked" => status[worker[u].job] = "PENDING"
            /\ to \in Started => status[worker[u].job] = "RUNNING" /\ applied[worker[u].job] = 0
        BY <3>4, <4>1, <4>2 DEF Turn
      <4>6. to = "finished" => v # "DONE"
        OBVIOUS
      <4>7. ASSUME NEW x \in Workers \ {u}, worker[x].job = worker[u].job
            PROVE  /\ ~(to \in Starting /\ worker[x].pc \in Starting)
                   /\ ~(to \in Started /\ worker[x].pc \in Started)
        <5>1. /\ to \in Starting => worker[u].pc \in Starting
              /\ to \in Started => worker[u].pc \in Started
          BY <3>1, <3>3, <3>4 DEF Starting, Started
        <5> QED
          BY <4>1, <4>7, <5>1 DEF Turn
      <4> QED
        <5>1. UNCHANGED <<status, applied>>
          OBVIOUS
        <5> HIDE DEF JobsInv, TypeOK
        <5> QED
          <6>1. ASSUME NEW x \in Workers \ {u}, worker'[x].job = worker[u].job
                PROVE  /\ ~(to \in Starting /\ worker'[x].pc \in Starting)
                       /\ ~(to \in Started /\ worker'[x].pc \in Started)
            BY <4>4, <4>7, <6>1
          <6>2. /\ to = "marked" => status'[worker[u].job] = "PENDING"
                /\ to \in Started => status'[worker[u].job] = "RUNNING" /\ applied'[worker[u].job] = 0
            BY <4>5, <5>1
          <6>3. to = "finished" => to \in Started
            BY DEF Started
          <6> QED
            BY <4>3, <4>6, <6>1, <6>2, <6>3 DEF Turn
    <3>5. CASE u # w
      <4>1. Turn(u)
        BY <1>5 DEF InTurn
      <4>2. worker'[u] = worker[u] /\ \A x \in Workers \ {w} : worker'[x] = worker[x]
        BY <1>0, <3>5
      <4>3. /\ to \in Starting => worker[w].pc \in Starting
            /\ to \in Started => worker[w].pc \in Started
        BY <3>1, <3>3 DEF Starting, Started
      <4>4. worker[w].job = worker[u].job =>
              /\ ~(worker[u].pc \in Starting /\ to \in Starting)
              /\ ~(worker[u].pc \in Started /\ to \in Started)
        BY <3>5, <4>1, <4>3 DEF Turn
      <4> QED
        <5>1. UNCHANGED <<status, applied>>
          OBVIOUS
        <5>2. worker'[w].job = worker[w].job /\ worker'[w].pc = to
          BY <1>0
        <5>3. ASSUME NEW x \in Workers \ {u}, worker'[x].job = worker[u].job
              PROVE  /\ ~(worker[u].pc \in Starting /\ worker'[x].pc \in Starting)
                     /\ ~(worker[u].pc \in Started /\ worker'[x].pc \in Started)
          BY <4>1, <4>2, <4>4, <5>2, <5>3 DEF Turn
        <5> HIDE DEF JobsInv, TypeOK
        <5> QED
          BY <4>1, <4>2, <5>1, <5>3 DEF Turn
    <3> QED BY <3>4, <3>5
  <2> QED
    BY <1>5, <2>1 DEF InTurn
<1> QED
  BY <1>1, <1>2, <1>3, <1>4, <1>5

\* The steps of a worker that write: its job is there, and nobody else has started it.
LEMMA SaveRunningStep ==
    ASSUME JobsInv, NEW w \in Workers, SaveRunning(w)
    PROVE  JobsInv'
<1> DEFINE k == worker[w].job
<1>0. /\ worker \in [Workers -> WorkerRecord] /\ k \in Jobs
      /\ worker[w].pc = "marked"
      /\ worker' \in [Workers -> WorkerRecord]
      /\ worker'[w].pc = "running" /\ worker'[w].job = k
      /\ worker'[w].verdict = worker[w].verdict
      /\ \A v \in Workers \ {w} : worker'[v] = worker[v]
  BY DEF JobsInv, TypeOK, WorkerRecord, WorkerStep, SaveRunning, Goes
<1>1. /\ UNCHANGED <<upload, request, payload, queue, applied, submitter, barred, broken, crashes, again>>
      /\ status' = [status EXCEPT ![k] = "RUNNING"]
      /\ TypeOK
  BY DEF SaveRunning, JobsInv
<1>2. TypeOK'
  BY <1>0, <1>1 DEF TypeOK, WorkerRecord
<1>3. status[k] # "none"
  BY <1>0 DEF JobsInv, Found
<1>4. \A j \in Jobs : Submitted(j)'
  BY <1>0, <1>1, <1>3 DEF JobsInv, Submitted, TypeOK
<1>5. Found'
  <2>1. \A j \in Jobs : status[j] # "none" => status'[j] # "none"
    BY <1>0, <1>1 DEF TypeOK
  <2>2. Found
    BY DEF JobsInv
  <2>3. \A i \in DOMAIN queue : queue[i] \in Jobs
    BY <1>1 DEF TypeOK
  <2>4. \A v \in Workers : worker[v].job \in Jobs
    BY <1>0 DEF WorkerRecord
  <2> QED
    BY <1>0, <1>1, <1>3, <2>1, <2>2, <2>3, <2>4 DEF Found
<1>6. HeldBack'
  BY <1>0, <1>1 DEF JobsInv, HeldBack, MayGrade
<1>7. ASSUME Redelivery = "later" PROVE InTurn'
  <2>1. InTurn /\ Turn(w)
    BY <1>7 DEF JobsInv, InTurn
  <2>2. status[k] = "PENDING" /\ applied[k] = 0
    BY <1>0, <2>1 DEF InTurn, Turn
  <2>3. \A v \in Workers \ {w} : worker[v].job = k => worker[v].pc \notin Starting \cup Started
    <3>1. ASSUME NEW v \in Workers \ {w}, worker[v].job = k
          PROVE  worker[v].pc \notin Starting \cup Started
      BY <1>0, <2>1, <2>2, <3>1 DEF InTurn, Turn, Starting
    <3> QED BY <3>1
  <2>4. Turn(w)'
    BY <1>0, <1>1, <2>2, <2>3 DEF Turn, Starting, Started, TypeOK
  <2>5. ASSUME NEW v \in Workers \ {w} PROVE Turn(v)'
    <3>1. Turn(v)
      BY <2>1 DEF InTurn
    <3>2. CASE worker[v].job # k
      BY <1>0, <1>1, <3>1, <3>2 DEF Turn, TypeOK
    <3>3. CASE worker[v].job = k
      BY <1>0, <1>1, <2>3, <3>1, <3>3 DEF Turn, TypeOK, Starting, Started
    <3> QED BY <3>2, <3>3
  <2>6. \A j \in Jobs : (applied[j] <= 1 /\ (status[j] = "PENDING" => applied[j] = 0))'
    BY <1>1, <2>1 DEF InTurn, TypeOK
  <2> QED
    BY <2>4, <2>5, <2>6 DEF InTurn
<1> QED
  BY <1>2, <1>4, <1>5, <1>6, <1>7 DEF JobsInv

LEMMA ApplyRowsStep ==
    ASSUME JobsInv, NEW w \in Workers, ApplyRows(w)
    PROVE  JobsInv'
<1> DEFINE k == worker[w].job
<1>0. /\ worker \in [Workers -> WorkerRecord] /\ k \in Jobs
      /\ worker[w].pc = "allowed"
      /\ worker' \in [Workers -> WorkerRecord]
      /\ worker'[w].pc = "finished" /\ worker'[w].job = k /\ worker'[w].verdict = "DONE"
      /\ \A v \in Workers \ {w} : worker'[v] = worker[v]
  BY DEF JobsInv, TypeOK, WorkerRecord, WorkerStep, ApplyRows, Concludes
<1>1. /\ UNCHANGED <<upload, request, payload, status, queue, submitter, barred, broken, crashes, again>>
      /\ applied' = [applied EXCEPT ![k] = @ + 1]
      /\ TypeOK
  BY DEF ApplyRows, JobsInv
<1>2. TypeOK'
  BY <1>0, <1>1 DEF TypeOK, WorkerRecord
<1>3. status[k] # "none"
  BY <1>0 DEF JobsInv, Found
<1>4. \A j \in Jobs : Submitted(j)'
  BY <1>0, <1>1, <1>3 DEF JobsInv, Submitted, TypeOK
<1>5. Found'
  <2>1. \A j \in Jobs : status[j] # "none" => status'[j] # "none"
    BY <1>0, <1>1 DEF TypeOK
  <2>2. Found
    BY DEF JobsInv
  <2>3. \A i \in DOMAIN queue : queue[i] \in Jobs
    BY <1>1 DEF TypeOK
  <2>4. \A v \in Workers : worker[v].job \in Jobs
    BY <1>0 DEF WorkerRecord
  <2> QED
    BY <1>0, <1>1, <1>3, <2>1, <2>2, <2>3, <2>4 DEF Found
<1>6. HeldBack'
  <2>1. k \notin barred
    BY <1>0 DEF JobsInv, HeldBack
  <2> QED
    <3>1. HeldBack /\ \A j \in barred : applied'[j] = applied[j]
      BY <1>0, <1>1, <2>1 DEF JobsInv, TypeOK
    <3>2. \A v \in Workers : worker'[v].pc = "allowed" => worker'[v] = worker[v]
      BY <1>0
    <3> QED
      BY <1>1, <3>1, <3>2 DEF HeldBack, MayGrade
<1>7. ASSUME Redelivery = "later" PROVE InTurn'
  <2>1. InTurn /\ Turn(w)
    BY <1>7 DEF JobsInv, InTurn
  <2>2. status[k] = "RUNNING" /\ applied[k] = 0
    BY <1>0, <2>1 DEF Turn, Started
  <2>3. \A v \in Workers \ {w} : worker[v].job = k => worker[v].pc \notin Started
    BY <1>0, <2>1 DEF Turn, Started
  <2>4. Turn(w)'
    BY <1>0, <1>1, <2>2, <2>3 DEF Turn, Starting, Started, TypeOK
  <2>5. ASSUME NEW v \in Workers \ {w} PROVE Turn(v)'
    <3>1. Turn(v)
      BY <2>1 DEF InTurn
    <3>2. CASE worker[v].job # k
      BY <1>0, <1>1, <3>1, <3>2 DEF Turn, TypeOK
    <3>3. CASE worker[v].job = k
      BY <1>0, <1>1, <2>3, <3>1, <3>3 DEF Turn, TypeOK, Starting, Started
    <3> QED BY <3>2, <3>3
  <2>6. \A j \in Jobs : (applied[j] <= 1 /\ (status[j] = "PENDING" => applied[j] = 0))'
    BY <1>0, <1>1, <2>1, <2>2 DEF InTurn, TypeOK
  <2> QED
    BY <2>4, <2>5, <2>6 DEF InTurn
<1> QED
  BY <1>2, <1>4, <1>5, <1>6, <1>7 DEF JobsInv

LEMMA SaveVerdictStep ==
    ASSUME JobsInv, NEW w \in Workers, SaveVerdict(w)
    PROVE  JobsInv'
<1> DEFINE k == worker[w].job
<1>0. /\ worker \in [Workers -> WorkerRecord] /\ k \in Jobs
      /\ worker[w].pc = "finished" /\ worker[w].verdict \in {"DONE", "FAILED"}
      /\ worker' \in [Workers -> WorkerRecord]
      /\ worker'[w].pc = "idle"
      /\ \A v \in Workers \ {w} : worker'[v] = worker[v]
  BY IdleIs DEF JobsInv, TypeOK, WorkerRecord, SaveVerdict, GivesUp
<1>1. /\ UNCHANGED <<upload, request, payload, queue, applied, submitter, barred, broken, crashes, again>>
      /\ status' = [status EXCEPT ![k] = worker[w].verdict]
      /\ TypeOK
  BY DEF SaveVerdict, JobsInv
<1>2. TypeOK'
  BY <1>0, <1>1 DEF TypeOK, WorkerRecord
<1>3. status[k] # "none"
  BY <1>0 DEF JobsInv, Found
<1>4. \A j \in Jobs : Submitted(j)'
  BY <1>0, <1>1, <1>3 DEF JobsInv, Submitted, TypeOK
<1>5. Found'
  <2>1. \A j \in Jobs : status[j] # "none" => status'[j] # "none"
    BY <1>0, <1>1 DEF TypeOK
  <2>2. Found
    BY DEF JobsInv
  <2>3. \A i \in DOMAIN queue : queue[i] \in Jobs
    BY <1>1 DEF TypeOK
  <2>4. \A v \in Workers : worker[v].job \in Jobs
    BY <1>0 DEF WorkerRecord
  <2> QED
    BY <1>0, <1>1, <1>3, <2>1, <2>2, <2>3, <2>4 DEF Found
<1>6. HeldBack'
  BY <1>0, <1>1 DEF JobsInv, HeldBack, MayGrade
<1>7. ASSUME Redelivery = "later" PROVE InTurn'
  <2>1. InTurn /\ Turn(w)
    BY <1>7 DEF JobsInv, InTurn
  <2>2. status[k] = "RUNNING"
    BY <1>0, <2>1 DEF Turn, Started
  <2>3. \A v \in Workers \ {w} : worker[v].job = k => worker[v].pc \notin Started \cup {"marked"}
    <3>1. ASSUME NEW v \in Workers \ {w}, worker[v].job = k
          PROVE  worker[v].pc \notin Started \cup {"marked"}
      BY <1>0, <2>1, <2>2, <3>1 DEF InTurn, Turn, Started
    <3> QED BY <3>1
  <2>4. Turn(w)'
    BY <1>0 DEF Turn, Starting, Started
  <2>5. ASSUME NEW v \in Workers \ {w} PROVE Turn(v)'
    <3>1. Turn(v)
      BY <2>1 DEF InTurn
    <3>2. CASE worker[v].job # k
      BY <1>0, <1>1, <3>1, <3>2 DEF Turn, TypeOK, Starting, Started
    <3>3. CASE worker[v].job = k
      BY <1>0, <1>1, <2>3, <3>1, <3>3 DEF Turn, TypeOK, Starting, Started
    <3> QED BY <3>2, <3>3
  <2>6. \A j \in Jobs : (applied[j] <= 1 /\ (status[j] = "PENDING" => applied[j] = 0))'
    BY <1>0, <1>1, <2>1 DEF InTurn, TypeOK
  <2> QED
    BY <2>4, <2>5, <2>6 DEF InTurn
<1> QED
  BY <1>2, <1>4, <1>5, <1>6, <1>7 DEF JobsInv

--------------------------------------------------------------------------------
LEMMA RunJobStep ==
    ASSUME JobsInv, NEW w \in Workers, RunJob(w)
    PROVE  JobsInv'
<1>0. /\ worker[w].verdict \in {"DONE", "FAILED"} /\ worker[w].job \in Jobs
      /\ \A to : [worker EXCEPT ![w].pc = to]
                  = [worker EXCEPT ![w].pc = to, ![w].verdict = worker[w].verdict]
  <2>1. worker \in [Workers -> WorkerRecord]
    BY DEF JobsInv, TypeOK, WorkerRecord
  <2> QED
    BY <2>1 DEF WorkerRecord
<1>00. broken \in SUBSET Jobs
  BY DEF JobsInv, TypeOK
<1>1. CASE Read(w)
  <2>1. CASE status[worker[w].job] = "PENDING" /\ Goes(w, "taken", "marked")
    <3>1. worker' = [worker EXCEPT ![w].pc = "marked", ![w].verdict = worker[w].verdict]
      BY <1>0, <2>1 DEF Goes
    <3> QED
      <4>1. /\ worker[w].pc = "taken" /\ status[worker[w].job] = "PENDING"
            /\ UNCHANGED <<upload, request, payload, status, queue, applied, submitter, barred,
                           broken, crashes, again>>
        BY <1>1, <2>1 DEF Read, Goes
      <4>2. "marked" \in WorkerStep /\ "marked" \notin Started
        BY DEF WorkerStep, Started
      <4> QED
        BY <1>0, <3>1, <4>1, <4>2, QuietStep
  <2>2. CASE GivesUp(w, "taken")
    BY <1>0, <1>00, <1>1, <2>2, GivesUpStep DEF Read, GivesUp
  <2> QED
    BY <1>1, <2>1, <2>2 DEF Read
<1>2. CASE Resolve(w)
  <2>1. CASE Goes(w, "running", "resolved")
    <3>1. worker' = [worker EXCEPT ![w].pc = "resolved", ![w].verdict = worker[w].verdict]
      BY <1>0, <2>1 DEF Goes
    <3> QED
      BY <1>0, <1>2, <2>1, <3>1, QuietStep DEF Resolve, Goes, WorkerStep, Started
  <2>2. CASE Concludes(w, "running", "FAILED")
    BY <1>2, <2>2, QuietStep DEF Resolve, Concludes, WorkerStep, Started
  <2> QED
    BY <1>2, <2>1, <2>2 DEF Resolve
<1>3. CASE Fetch(w)
  <2>1. CASE Goes(w, "resolved", "fetched")
    <3>1. worker' = [worker EXCEPT ![w].pc = "fetched", ![w].verdict = worker[w].verdict]
      BY <1>0, <2>1 DEF Goes
    <3> QED
      BY <1>0, <1>3, <2>1, <3>1, QuietStep DEF Fetch, Goes, WorkerStep, Started
  <2>2. CASE Concludes(w, "resolved", "FAILED")
    BY <1>3, <2>2, QuietStep DEF Fetch, Concludes, WorkerStep, Started
  <2> QED
    BY <1>3, <2>1, <2>2 DEF Fetch
<1>4. CASE Check(w)
  <2>1. CASE ~Refused(worker[w].job) /\ ~Unwired(worker[w].job) /\ Goes(w, "fetched", "allowed")
    <3>1. worker' = [worker EXCEPT ![w].pc = "allowed", ![w].verdict = worker[w].verdict]
      BY <1>0, <2>1 DEF Goes
    <3>2. MayGrade
      <4>1. upload[worker[w].job].sheet \in {"readable", "unreadable", "unwired"}
        BY <1>0 DEF JobsInv, TypeOK, Upload
      <4> QED
        BY <2>1, <4>1 DEF Refused, Unwired
    <3> QED
      BY <1>0, <1>4, <2>1, <3>1, <3>2, QuietStep DEF Check, Goes, WorkerStep, Started
  <2>2. CASE Concludes(w, "fetched", "FAILED")
    BY <1>4, <2>2, QuietStep DEF Check, Concludes, WorkerStep, Started
  <2>3. CASE GivesUp(w, "fetched")
    BY <1>0, <1>00, <1>4, <2>3, GivesUpStep DEF Check, GivesUp
  <2> QED
    BY <1>4, <2>1, <2>2, <2>3 DEF Check
<1> QED
  BY <1>1, <1>2, <1>3, <1>4, SaveRunningStep, ApplyRowsStep, SaveVerdictStep DEF RunJob

LEMMA BreaksStep ==
    ASSUME JobsInv, NEW w \in Workers, Breaks(w)
    PROVE  JobsInv'
<1>1. worker \in [Workers -> WorkerRecord] /\ broken \in SUBSET Jobs
  BY DEF JobsInv, TypeOK, WorkerRecord
<1>2. worker[w].job \in Jobs
  BY <1>1 DEF WorkerRecord
<1>3. /\ worker' = [worker EXCEPT ![w] = Idle] /\ broken' = broken \cup {worker[w].job}
      /\ UNCHANGED <<upload, request, payload, status, queue, applied, submitter, barred,
                     crashes, again>>
  BY DEF Breaks, GivesUp
<1>4. broken' \in SUBSET Jobs
  BY <1>1, <1>2, <1>3
<1> QED
  BY <1>3, <1>4, GivesUpStep

LEMMA HandOutStep ==
    ASSUME JobsInv, NEW w \in Workers,
           Take(w) \/ \E k \in Jobs : TakeAgain(w, k)
    PROVE  JobsInv'
<1>1. CASE Take(w)
  <2>1. Head(queue) \in Jobs /\ queue' = Tail(queue) /\ queue \in Seq(Jobs) /\ queue # << >>
    BY <1>1 DEF Take, JobsInv, TypeOK
  <2>2. \A i \in DOMAIN queue' : status[queue'[i]] # "none"
    BY <2>1 DEF JobsInv, Found
  <2>3. queue' \in Seq(Jobs) /\ again' \in 0..MaxAgain
    BY <1>1, <2>1 DEF Take, JobsInv, TypeOK
  <2> QED
    BY <1>1, <2>1, <2>2, <2>3, TakeStep DEF Take
<1>2. ASSUME NEW k \in Jobs, TakeAgain(w, k) PROVE JobsInv'
  <2>1. \A i \in DOMAIN queue' : status[queue'[i]] # "none"
    BY <1>2 DEF JobsInv, Found, TakeAgain
  <2>2. queue' \in Seq(Jobs) /\ again' \in 0..MaxAgain
    <3>1. again \in 0..MaxAgain /\ again < MaxAgain /\ again' = again + 1 /\ queue' = queue
      BY <1>2 DEF TakeAgain, JobsInv, TypeOK
    <3> QED
      BY <3>1, ImportAssumption DEF JobsInv, TypeOK
  <2> QED
    BY <1>2, <2>1, <2>2, TakeStep DEF TakeAgain
<1> QED
  BY <1>1, <1>2

\* Rights are only lost, so nobody among those barred is let in later.
LEMMA LoseRightsStep ==
    ASSUME JobsInv, LoseRights
    PROVE  JobsInv'
<1>1. /\ UNCHANGED <<upload, request, payload, status, queue, worker, applied, broken, crashes, again>>
      /\ barred' = barred \cup {j \in Jobs :
                     Handling(j) = {} /\ request[j] # "allowed" /\ applied[j] = 0}
      /\ TypeOK
  BY DEF LoseRights, JobsInv
<1>2. submitter' \in [known : BOOLEAN, teaches : BOOLEAN] /\ ~MayGrade'
  BY <1>1 DEF LoseRights, TypeOK, MayGrade
<1>3. TypeOK'
  BY <1>1, <1>2 DEF TypeOK
<1>4. (\A j \in Jobs : Submitted(j)') /\ Found'
  BY <1>1 DEF JobsInv, Submitted, Found
<1>5. HeldBack'
  BY <1>1, <1>2 DEF JobsInv, HeldBack, Handling
<1>6. Redelivery = "later" => InTurn'
  BY <1>1 DEF JobsInv, InTurn, Turn
<1> QED
  BY <1>3, <1>4, <1>5, <1>6 DEF JobsInv

LEMMA CrashStep ==
    ASSUME JobsInv, Crash
    PROVE  JobsInv'
<1>1. /\ UNCHANGED <<upload, payload, status, applied, submitter, barred, broken, again>>
      /\ request' = [j \in Jobs |-> IF request[j] = "ready" THEN "ready" ELSE "over"]
      /\ queue' = << >> /\ worker' = [w \in Workers |-> Idle]
      /\ TypeOK
  BY DEF Crash, JobsInv
<1>2. TypeOK'
  <2>1. crashes' \in 0..MaxCrashes
    BY <1>1, ImportAssumption DEF Crash, TypeOK
  <2> QED
    BY <1>1, <2>1, IdleIs DEF TypeOK, WorkerRecord, RequestStep
<1>3. \A w \in Workers : worker'[w].pc = "idle"
  BY <1>1, IdleIs
<1>4. \A j \in Jobs : Submitted(j)'
  BY <1>1 DEF JobsInv, Submitted
<1>5. Found'
  BY <1>1, <1>3 DEF Found
<1>6. HeldBack'
  BY <1>1, <1>3 DEF JobsInv, HeldBack, MayGrade, TypeOK
<1>7. Redelivery = "later" => InTurn'
  BY <1>1, <1>3 DEF JobsInv, InTurn, Turn, Starting, Started
<1> QED
  BY <1>2, <1>4, <1>5, <1>6, <1>7 DEF JobsInv

LEMMA StutterStep == JobsInv /\ UNCHANGED vars => JobsInv'
  BY DEF vars, JobsInv, TypeOK, Submitted, Found, HeldBack, MayGrade, InTurn, Turn

LEMMA JobsStep == JobsInv /\ [Next]_vars => JobsInv'
  BY SubmitStep, HandOutStep, RunJobStep, BreaksStep, LoseRightsStep, CrashStep, StutterStep DEF Next

--------------------------------------------------------------------------------
\* The inductive invariant holds of every run, for any uploads, workers and bounds.
THEOREM JobsInvariant == Spec => []JobsInv
  BY JobsStart, JobsStep, PTL DEF Spec

\* Nobody is handed a job that cannot be found: the bytes are stored before the job is
\* committed, the job before its id is enqueued.
THEOREM NothingIsHalfSubmitted == Spec => []NothingHalfSubmitted
<1>1. JobsInv => NothingHalfSubmitted
  BY DEF JobsInv, Found, Submitted, NothingHalfSubmitted
<1> QED
  BY <1>1, JobsInvariant, PTL

\* No import goes through for a submitter who lost the right to it before it began,
\* whatever way ids are handed out.
THEOREM LostRightsBar == Spec => []BarredNeverApplied
<1>1. JobsInv => BarredNeverApplied
  BY DEF JobsInv, HeldBack, BarredNeverApplied
<1> QED
  BY <1>1, JobsInvariant, PTL

\* An import is applied at most once, as long as an id is handed out again only when
\* nobody is starting its job.
THEOREM AppliedOnce ==
    ASSUME Redelivery = "later"
    PROVE  Spec => []AppliedAtMostOnce
<1>1. JobsInv => AppliedAtMostOnce
  BY DEF JobsInv, InTurn, AppliedAtMostOnce
<1> QED
  BY <1>1, JobsInvariant, PTL

--------------------------------------------------------------------------------
(* What a submitter is promised: module ImportLifecycle, status for status.      *)

LEMMA LifecycleStep ==
    ASSUME Redelivery = "later", JobsInv, [Next]_vars
    PROVE  [Lifecycle!Next]_(Lifecycle!vars)
<1> USE DEF Lifecycle!vars
<1>0. /\ status \in [Jobs -> {"none", "PENDING", "RUNNING", "DONE", "FAILED"}]
      /\ applied \in [Jobs -> Nat]
      /\ worker \in [Workers -> WorkerRecord]
      /\ InTurn
  BY DEF JobsInv, TypeOK, WorkerRecord
<1>1. ASSUME NEW j \in Jobs, Submit(j) \/ Sweep(j)
      PROVE  [Lifecycle!Next]_(Lifecycle!vars)
  <2>1. CASE AddJob(j)
    <3>1. applied[j] = 0 /\ Lifecycle!Move(j, "none", "PENDING")
      BY <2>1 DEF JobsInv, Submitted, AddJob, At, Lifecycle!Move
    <3> QED
      BY <3>1 DEF Lifecycle!Next
  <2>2. CASE InlineApply(j) /\ ~upload[j].dryRun
    <3>1. status[j] = "none" /\ applied[j] = 0 /\ applied' = [applied EXCEPT ![j] = applied[j] + 1]
      BY <2>2 DEF JobsInv, Submitted, InlineApply, At
    <3>2. Lifecycle!Apply(j)
      BY <2>2, <3>1 DEF InlineApply, Lifecycle!Apply
    <3> QED
      BY <3>2 DEF Lifecycle!Next
  <2>3. CASE ~AddJob(j) /\ ~(InlineApply(j) /\ ~upload[j].dryRun)
    BY <1>1, <2>3 DEF Submit, RefuseHuge, InlineCheck, InlineApply, RequestFails, PutPayload,
                      Enqueue, Sweep
  <2> QED
    BY <2>1, <2>2, <2>3
<1>2. ASSUME NEW w \in Workers, Take(w) \/ RunJob(w) \/ \E j \in Jobs : TakeAgain(w, j)
      PROVE  [Lifecycle!Next]_(Lifecycle!vars)
  <2> DEFINE k == worker[w].job
  <2>0. k \in Jobs /\ worker[w].verdict \in {"DONE", "FAILED"} /\ Turn(w)
    BY <1>0 DEF WorkerRecord, InTurn
  <2>1. CASE SaveRunning(w)
    <3>1. Lifecycle!Move(k, "PENDING", "RUNNING")
      BY <2>0, <2>1 DEF SaveRunning, Goes, Turn, Lifecycle!Move
    <3> QED
      BY <2>0, <3>1 DEF Lifecycle!Next
  <2>2. CASE ApplyRows(w)
    <3>1. worker[w].pc = "allowed" /\ UNCHANGED status
          /\ applied' = [applied EXCEPT ![k] = applied[k] + 1]
      BY <2>2 DEF ApplyRows, Concludes
    <3>2. status[k] = "RUNNING" /\ applied[k] = 0
      BY <2>0, <3>1 DEF Turn, Started
    <3>3. Lifecycle!Apply(k)
      BY <3>1, <3>2 DEF Lifecycle!Apply
    <3> QED
      BY <2>0, <3>3 DEF Lifecycle!Next
  <2>3. CASE SaveVerdict(w)
    <3>1. /\ worker[w].pc = "finished" /\ UNCHANGED applied
          /\ status' = [status EXCEPT ![k] = worker[w].verdict]
      BY <2>3 DEF SaveVerdict, GivesUp
    <3>2. /\ status[k] = "RUNNING"
          /\ applied[k] = IF worker[w].verdict = "DONE" THEN 1 ELSE 0
      BY <2>0, <3>1 DEF Turn, Started
    <3>3. \/ applied[k] = 1 /\ Lifecycle!Move(k, "RUNNING", "DONE")
          \/ applied[k] = 0 /\ Lifecycle!Move(k, "RUNNING", "FAILED")
      BY <2>0, <3>1, <3>2 DEF Lifecycle!Move
    <3> QED
      BY <2>0, <3>3 DEF Lifecycle!Next
  <2>4. CASE ~SaveRunning(w) /\ ~ApplyRows(w) /\ ~SaveVerdict(w)
    BY <1>2, <2>4 DEF Take, TakeAgain, RunJob, Read, Resolve, Fetch, Check
  <2> QED
    BY <2>1, <2>2, <2>3, <2>4
<1>3. CASE LoseRights \/ Crash \/ (\E w \in Workers : Breaks(w)) \/ UNCHANGED vars
  BY <1>3 DEF LoseRights, Crash, Breaks, vars
<1> QED
  BY <1>1, <1>2, <1>3 DEF Next

\* Every import goes through the promised lifecycle: pending, running, then done with its
\* rows in exactly once or failed with none of them, and never back.
THEOREM LifecycleIsImplemented ==
    ASSUME Redelivery = "later"
    PROVE  Spec => ImplementsLifecycle
<1>1. Init => Lifecycle!Init
  BY DEF Init, Lifecycle!Init
<1>2. JobsInv /\ [Next]_vars => [Lifecycle!Next]_(Lifecycle!vars)
  BY LifecycleStep
<1> QED
  BY <1>1, <1>2, JobsInvariant, PTL DEF Spec, ImplementsLifecycle, Lifecycle!Spec
================================================================================
