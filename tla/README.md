# A verified model of the academy

The repository is an academic-records application written as ports and
adapters: a domain of people, plans, sections, transcripts and graduations;
application services that authorize, grade, import and show; adapters that store
rows in memory or in SQL, queue jobs, keep uploaded bytes, and serve the web and a
command line. This directory holds TLA+ modules for the parts whose correctness
depends on an order of events, TLC configurations that check them, and proofs
that TLAPS checks. Paths below are relative to `src/academy/`.

## Inventory

| Part | State it keeps | Operations | What is hard |
|---|---|---|---|
| In-memory store and unit of work (`adapters/outbound/persistence/memory/store.py`) | rows shared by every asyncio task; an undo log per open unit of work | begin, set, delete, commit, rollback, exit | tasks interleave at every await and overlap on rows; undo must not destroy what others committed |
| SQL repositories and unit of work (`adapters/outbound/persistence/sqlalchemy/`) | the tables; a session and transaction per scope | get, add, save, delete, `get_or_create`, commit, rollback | a transcript is one row written whole; two first grades race; lock cycles |
| Import jobs (`application/importing/service.py`, `application/jobs.py`) | the jobs table, stored bytes, the queue, the job each worker holds | `submit`, `run_job`, `run_inline`, `view_job` | crashes between steps, two workers on a job, rights that end between submitting and running, a payload swept away |
| Grade-sheet importer (`application/importing/grade_sheet.py`) | the rows seen in one file | `import_rows`, `template` | one bad row costs that row only, one transaction for all |
| Grading and records use cases (`application/grading.py`, `records.py`) | none | `record_grade`, `list_section_grades`, `view_academic_history`, `list_my_wards` | checked first, fetched after |
| Authorization (`application/authorization.py`, `domain/authorization/`) | none: every relation is derived on each check | `relations_of`, `require`, `decide` | five reads with an await between each two, over data that changes with other requests and with time |
| Academics domain (`domain/academics`, `services`, `grades`, `graduation`) | plans, sections, transcripts, graduations | add and activate plans, form sections, enroll, record, detach, confer, revoke, reissue | rules spread over aggregates: what is true when enrolling or conferring must stay true |
| People and guardianships (`domain/people`, `domain/guardianship`) | birth dates, roles, links | roles, credentials, links | a link stops applying on a birthday, with nothing written |
| Queue, storage, identity adapters | ids, bytes | enqueue, put, get, delete, resolve | as the import jobs and the guard use them |
| Web: sessions, sign-in, CSRF and routes (`adapters/inbound/web/`) | none on the server: a session and a form token in cookies | sign in and out, pages, rows swapped into a page, posts | tabs share cookies and answers arrive in any order; a session outlives its person, their roles or the token's cookie |
| Seeds and the people table (`config/seeding.py`, `repositories.py`) | people, each with an address | both seeds, adding and saving a person | looked up first, constrained last, other processes in between |
| Choice of a spreadsheet format (`application/importing/formats.py`) | none | by declared type, by file name, by stored key | two paths must choose alike |
| Settings and container (`config/settings.py`, `config/container.py`) | what a process was built from: settings, a key, a storage, a store in memory | reading the environment, wiring, the checks at startup | several processes, restarts, an environment that changes in between: what of a process outlives it |
| The table of jobs (`repositories.py`, `claim_next_pending`) | the jobs' rows | add, save, delete, claim | workers that claim at once wait for each other's row, roll back and die |
| Column types, mappings, listings (`types.py`, `mappers.py`, both `repositories.py`) | none | encoding and decoding, sorting, selecting | two backends must answer alike, whatever a row holds and whatever order rows are stored in |
| Error tables and the command line (`error_status.py`, `exit_codes.py`, `cli/`) | none | classify, answer, exit | three surfaces translate one set of errors |
| JSON routes, spreadsheets, ids and clock | none that outlives a call | | see *Not modelled* |

How they meet: a route or command builds a scope (`config/container.py`) with a
session or the shared store, resolves the actor, and calls one service; the
service asks the guard, opens a unit of work, calls the domain and saves through
repositories. A queued import continues in whoever calls `run_job` with its id;
the shipped wiring calls it inline, in the request that submitted it.

What makes each part correct is what its module's properties say, below.

## Modules

| Module | Models | Its state, and the code's |
|---|---|---|
| `AtomicStore` | what the unit-of-work port promises | committed rows `db`, open tasks, what each has written |
| `MemoryStore` | store, unit of work, and the writes of the repositories | `row`: the tables and the age of majority; `log`: `_Transaction._undo`; `mode`: the ContextVar. Of a row the model knows the write that left it (`id`) and the object it is (`obj`), which is what `_restore` compares. Tables hold private copies, an object per write; the age's setter stores the caller's object, which may be one that was stored before (`SetAge`) |
| `MemoryStoreProofs` | theorems about `MemoryStore` | |
| `ImportLifecycle` | what an import promises its submitter | status and number of applications per upload |
| `ImportJobs` | `ImportService` | `status`: the jobs table; `payload`: the file storage; `queue`; `worker`: where each call of `run_job` is, one step per await; `submitter`: their record and the section they teach; `broken`: the jobs whose request or run ended in an error the service does not catch (a database or storage error, at any step: `RequestFails`, `Breaks`; an unwired kind: `Unwired`) |
| `GradeBook` | `record_grade` and a sheet's rows in SQL transactions | `history`: the committed transcripts; `copy`: the session's objects; `locked`: the rows a transaction has written; `line`, `reported`: the importer's loop and report |
| `Access` | the guard in its four uses: grade sheet, transcript, writing a grade, wards | `world`: what is stored and the clock; `req`: the request's local variables; `Seen`: the world as the request's session gives it back, which for a grade sheet has the sheet's section with the students it was loaded with |
| `Academics` | the domain services and aggregates | `plan`, `section`, `transcript`, `graduation` |
| `Sessions` | a browser's requests, from the tab to the use case and back | `jar`: the browser's cookies and when it drops them; `tab`: what each tab shows and the token in its forms; `req`: the request a tab waits for, one step per await of its handler; `staff`: stored people and their role; `minted`: tokens made; `out`: a history variable, whether a sign-out reached the browser last |
| `ImportJobsProofs`, `GradeBookProofs`, `AccessProofs`, `AcademicsProofs`, `SessionsProofs` | theorems about the modules so named | |
| `Registry` | the seeds, and whoever saves a person, each in a process and a transaction | `db`: committed rows of people (and the demo section); `run`: the command, its statement, its uncommitted rows, how it ended |
| `Settings` | `Settings.from_env` and what the container makes of the settings, as operators over an environment: variables and texts | |
| `Deployment` | processes under a changing environment | `environ`: what the next process will read; `proc`: what a process was built from, its key, the payloads in its memory; `people`, `disk`: what outlives processes; `job`: a queued import's status and the store its row is in; `credential`: the latest session or token |
| `DeploymentProofs` | theorems about `Deployment` and `Settings`, `JobTable`, `Surfaces` and `Formats` | |
| `JobTable` | the SQL repository of jobs, statement by statement, under `run_job`, which reads a job, marks its copy and saves it twice, and under claims | `row`: the committed statuses; `tx`: the transaction of each worker; `copy`: the copies it has in hand, read and marked, saved as running, or claimed. A save is unconditional, as the code's is |
| `Columns` | what a column or a row writes, and the values it may be read as: one, or none where a constructor refuses. A moment is an instant with the offset it is given in, and SQLite writes it without | |
| `Repositories` | the questions of both backends, as operators on a set of rows: what they select, and in which order, a sort being a pass over the order rows are stored in | |
| `RegistryProofs` | theorems about `Registry`, `Columns` and `Repositories` | |
| `Surfaces` | the table of errors, HTTP statuses, and what a command line call ends with, as operators | |
| `Formats` | the choice of a spreadsheet adapter, as operators | |
| `MC...` | instances for TLC | |

`MemoryStore` implements `AtomicStore`, and `ImportJobs` implements
`ImportLifecycle`; both are checked as refinements, and proved to be. `GradeBook` opens up the
single commit that stands for an import's rows in `ImportJobs`, and takes the
authorization that `Access` models as given. `Sessions` ends where a use case
begins, with the actor it is given: what is then allowed is `Access`'s, so any
use case may refuse (`Refuse`). `Deployment` is around both: who signs what
`Sessions` carries, and where the bytes `ImportJobs` reads are when another process
runs the job. `JobTable` opens up the reads and saves of jobs that are single steps
of `ImportJobs`, and adds the claim, which `ImportJobs` does without because the
queue hands out ids; nothing in `src/` but tests calls it. `Surfaces` takes the settings' checks from `Settings`.

Each definition `fault: ...` next to an operation is that operation with a
plausible mistake in it. No specification uses them: each shows, when put in the
operation's place, that a property notices.

## What the runs show

| Run | Shows |
|---|---|
| `store_overlap` | three tasks write a table's row and the age of majority in any order, four writes: no committed write on a table's row that nobody deletes is undone (`CommittedWritesStand`, which does not speak of the age: see *Disagreements*), and the inductive invariant of the proof holds. Tasks are symmetric and no liveness is checked, so symmetry is sound |
| `store_atomic` | two tasks, four writes, deletes and one object stored twice as the age included, no two open units of work on one row: the undo logs implement atomic transactions, every commit stands, nothing aborted stays |
| `store_aborted` | violated: see *Disagreements* |
| `jobs_crash` | two uploads: two queued and readable ones, or one of six kinds (queued and readable, unreadable or unwired; inline, real or rehearsed; too large) beside an inline one; two workers, one crash at any point, one error at any step of a request or a run that the service does not catch, rights lost at any point, payloads swept, an id handed out any number of times but not while somebody is between reading its job and saving it as running: jobs are never half submitted, a barred submitter's import is never applied, jobs are applied once at most and follow their lifecycle, and each ends unless the process dies, nobody wired its kind, or its own run or request met an uncaught error (that such a job stays as it is the model shows, and *Disagreements* says) |
| `jobs_twice`, `jobs_dry_run` | violated: see *Disagreements* |
| `grades_race` | three transactions, each a call or a sheet of at most two rows out of seven, over three students, one of them of another section; every interleaving of statements, crashes, deadlocks: nothing of an aborted work is ever in a transcript, nor a transcript for its sake, a reported grade is lost only to a transaction that held an older copy, a sheet gives a student one attempt, only calls with something wrong in them are refused, and every work that begins ends |
| `access_held` | three people, two sections, three initial worlds, two changes of the world at any moment of one request, over SQL (`KeepsLoaded`): what is shown is what the actor could reach at one instant at least since asking, in a world whose only old part is the roster of the sheet's own section, and grades are written by the teacher of the section, of a student in it |
| `sessions_tabs` | two people, two tabs, three requests not counting redirects, one change by the registrar, cookies of two instants and three instants to spend them in: whoever a use case is called for signed in recently enough and is somebody who existed, with those roles, while the request was there; a browser told to drop its session sends nothing that acts for anybody; forms on fresh pages can be posted. People and tabs are symmetric, and no liveness is checked |
| `registry_races` | three processes, each a demo seed, a bootstrap with any of three addresses, or a save of anybody with any address, killed anywhere: the demo data is whole or absent and seeding it again is quiet, an address has one person, one run makes the first administrator, nobody waits in a circle. A person to be saved may be in the session already, and is then written before their address is looked up. The module also instantiates `Columns` and `Repositories` with seventeen texts and moments of two offsets, for which TLC evaluates their assumptions, what SQLite makes of a moment, and where the two backends' listings part |
| `processes` | two systems that share nothing, told apart by `subject`. Processes: two at a time, started, killed and redeployed under twelve environments (both backends; no key, one, another; two upload directories; a static identity with somebody and with nobody; blank, misspelt and unusable values), one person, one queued import: a credential outlives its process wherever anything does, and a job finds its bytes. The table: two jobs and two workers, each statement a step, two rollbacks or deaths: two workers never claim one job, and one that reads or claims a job does so while it is pending, beside saves that nothing guards |
| `degrees` | one student, two teachers of whom one is qualified, two subjects, plans, sections and terms, a failing and a passing grade, three attempts: one active plan, one section per subject and student, attempts that were taught, degrees that stay earned, standing that never falls |

Bounds. Undo logs are long enough for a row to be written twice by one task and
once by another in between, which is what every branch of `_restore` needs. Two
jobs and two workers let each step of a job meet each step of another, or of
itself. Two rows and three transactions make cycles of locks and races of first
grades with a third transaction that reads what they leave. Two changes suffice to
give a relation and take another between two reads. Three attempts are a fail, a
pass and a fail again. Two tabs and three requests let a sign-out or a page of one
tab cross any request of the other, with a redirect after each; three instants are
one more than a cookie lasts. Two starts are a process and its restart, or another at
its side. Two jobs and two workers let a claim lose its race while another job is
pending, and the abort lets the winner undo its claim. Two demo people and a section give a seed rows to hold
and a row to wait for, and a third process an address to take from either. The counters that stop growing (`MaxWrites`, `MaxCrashes`, `MaxErrors`,
`MaxStarts`, `MaxAborts`, `MaxChanges`, `MaxRequests`, `MaxTime`, `MaxAttempts`) make finished states that have no successor, and
requests and transactions really do come to an end, so deadlock is not an error
in any run; that nothing hangs is what `EveryJobEnds`, `EveryWorkEnds` and, as an invariant,
`NobodyWaitsInCircles` say.

Fairness. In `ImportJobs` a request that has begun goes on and an idle worker
takes what is queued; in `GradeBook` a transaction that has begun goes on, and the
database ends one member of a cycle of waits. The event loop runs every ready
coroutine, and both databases in use break or time out such waits. Nothing obliges
anybody to upload, revoke, sweep, crash or meet an error, and no other module is
fair: in particular nothing in `src/` polls the table of jobs, so nothing is
claimed of when, or whether, a pending job is taken from it.

The database under `GradeBook` and `Registry` is external: reads see committed rows
and the transaction's own, a written row is locked until its transaction ends, and
a write that collides with an uncommitted one waits for it. That is PostgreSQL's default; SQLite
allows one writer at a time and has fewer interleavings.

`Access` is checked with an age of majority that is never raised
(`MajorityMayRise = FALSE`). Raising it is the one change that breaks
`ShownWasReadable`: a link can be read, then removed, then the age be raised
before it is read, and the actor is taken for the guardian of somebody who at no
instant was a minor in their care. Every other change of the world may happen at
any moment.

## What is proved

Every safety invariant that a passing run checks, both action properties and both
refinements, for every value of the constants that the named assumptions allow. The
runs check most of the inductive invariants, too (`StoreInv`, `JobsInv`, `BookInv`,
`AccessInv`, `RegistryInv`, `AcademicsInv`). Four hypotheses are values of
constants, the ones the runs have, and each excludes behaviour that a run or a
section of this file shows to break the property:

| Hypothesis | Theorems | Without it |
|---|---|---|
| `~Overlap`: open units of work write different rows | `ChainsHold`, `CommittedChangesSurvive`, `AbortsLeaveNothing`, `StoreIsAtomic` | `store_aborted` |
| `Redelivery = "later"`: an id is handed out again once nobody is starting its job | `AppliedOnce`, `LifecycleIsImplemented` | `jobs_twice` |
| `~MajorityMayRise` | `ShownIsReadable` | a link read, removed, and the age raised: see above |
| `DirectPlans = FALSE`: plans are activated through their program | `OneActivePlanOnly` | `Plan.activate` makes a second active plan |

### The in-memory store (`MemoryStoreProofs`)

For any rows, tasks and bounds, from `StoreAssumption`:

- `StoreInvariant`: `StoreInv` always holds. It strengthens `CommittedWritesStand`,
  which is not inductive: a row is safe only because of what the undo logs of
  *other* tasks hold. `WritesAreUnique` says that a write is in one log, once, and
  that in a table the object a write left is its own, so that "the row still holds
  what I wrote" identifies a log entry; of the age of majority it says the first
  only. `UndoNests`, of the tables' rows that nobody deletes, says
  that the pending entries of a row nest like a stack: between what an entry wrote
  and what it would put back there is nothing committed and nothing pending. An
  undo can then only step down to a write at or above every committed one. A
  commit keeps this because it removes entries, and a new write because its
  number is larger than all.
- `CommittedWritesSurvive`: `CommittedWritesStand` follows, whatever overlaps. Deleted
  rows and the age of majority are outside it, as the code is (see *Disagreements*).
- `ChainsHold`: without overlap, the entries on a row are one unit of work's, and form
  a chain from what the row holds down to what was committed last (`ChainInv`).
  `StoreInv` is not enough: a nested stack may have gaps, and what an abort leaves is
  what the last entry of the stack puts back. One object written twice does not matter
  here: whatever undo takes for its own write is the newest entry on the row.
- `CommittedChangesSurvive`, `AbortsLeaveNothing`: then a deleted row is no exception,
  and what a row holds was committed or is in an open log.
- `StoreIsAtomic`: the refinement of `AtomicStore`. The committed row is what the
  oldest entry on it would put back (`CommittedRowIs`), so a write, and each entry
  undone, are writes of the task's own in `AtomicStore` and leave what is committed
  alone, and the step that empties a log is its commit or its end.

### Import jobs (`ImportJobsProofs`)

For any uploads, workers and crashes:

- `JobsInvariant`: `JobsInv` always holds, whatever errors break requests and runs off.
  `Submitted` orders bytes, row and id;
  `Found` says that ids in the queue and jobs in hand are of rows that are there;
  `HeldBack` that whoever lost a right is nowhere past the check; and `InTurn` ties
  what a worker is doing to the status of its job and the number of times the import was
  applied, and keeps two workers from being at one stage of one job.
- `NothingIsHalfSubmitted` and `LostRightsBar` follow, however ids are handed out.
- `AppliedOnce` follows from `InTurn`. It is not inductive: that a worker about to
  apply rows finds none applied rests on everybody else's position.
- `LifecycleIsImplemented`: the refinement of `ImportLifecycle`: of a worker's steps,
  saving as running, applying, and saving the verdict are the promised moves, from
  the status `Turn` gives the job, and every other step of the module is a stutter.

### Transcripts in transactions (`GradeBookProofs`)

For any works, rows and students:

- `BookInvariant`: `BookInv` always holds. `Copies` is the heart of it: a session's copy
  of a transcript holds nothing that may be rolled back but its own work, and, once
  the row is locked or about to be, lacks nothing that was committed but what is
  already counted as lost to an overlap. `OneWriter` says that a row is locked by one
  transaction at a time, `Written` and `Genuine` match each attempt with a row of its
  file, `AtRow` says how far a file has been read.
- `AbortedLeavesNothing`, `GradesAreLostToOverlapsOnly`, `OneAttemptPerSheet` and
  `GoodCallsAreNotRefused` follow. The third is not a conjunct: it takes `Genuine`
  and that a file records a student once (`AtRow`).

### The guard (`AccessProofs`)

For any people, sections and changes of the world:

- `AccessInvariant`: `AccessInv` always holds. The proof is about one ghost, `held`: whom
  the actor could reach at some instant since asking, in the world as the request's
  session gives it back: what is stored, but for the roster of the section a sheet
  holds on to (`Seen`, `SeenStays`). `HeldSinceAsked` says that it
  has whoever is in reach now; `MinorsInReach`, that a ward who is a minor when
  their age is read was one when the link was read, since nobody grows younger;
  `ClearedInReach`, that the relations read so far, at different instants, cannot
  add up to a grant that no instant gave.
- `ShownIsReadable`, as long as the age of majority is not raised meanwhile, and
  `TeachersWrite`, whatever becomes of it; both with sessions that keep what they
  loaded (`KeepsLoaded`, SQL) and with repositories that do not (in memory).

### The academic side (`AcademicsProofs`)

For any plans, sections, students and calls, in any order:

- `AcademicsInvariant`: `AcademicsInv` always holds: what is checked, and `FormedWhole`,
  without which `AttemptsWereTaught` is not inductive, since a grade rests on the check
  made when its section was formed.
- `OneActivePlanOnly`, `SubjectsAreTakenOnce`, `GradesWereTaught` and `DegreesAreEarned`
  follow; the last needs that no operation takes an attempt away, which is
  `StandingIsKept`, an action property.

### Seeds and people (`RegistryProofs`)

For any commands, rows and addresses, from `RegistryAssumption`:

- `RegistryInvariant`: `RegistryInv` always holds. `Progress` says what a command has
  written and has left to write, `Found` what its lookups told it that no other
  command can have undone, and `Apart` that uncommitted rows meet neither each other
  nor, but for the person being saved, the committed ones. That lookups go stale is
  why the last word is the constraint's, at the write, and why `Apart` is about rows not
  committed yet.
- `AddressesAreUnique`, `DemoIsSeededWhole`, `SeedingAgainIsQuiet` and
  `FirstAdministratorIsOne` follow.
- `NoCircleOfWaiters`: in a circle everybody is waited for, so has written, and waits, so
  has more to write. Only the demo seed writes more than a row, its first row
  first, and no two transactions have that one.

The same module has the columns and the repositories, for any texts, identifiers and
rows, from `ColumnsAssumption` and `RepositoriesAssumption`, which say what Python's
`str`, `UUID`, `int`, `strip` and `lower` do to the texts in play: they undo each other
where a value is written and read back, `str` comparison is a total order, and
`isoformat` keeps the order of instants, as it does for those of one offset, UTC here.
The database's `ORDER BY` is taken to compare canonical identifiers as `str` does.

- `RowsComeBack`: people, sections, transcripts, guardianships and the age of majority
  are read as the values they were written from. A job is, but for its moment: PostgreSQL
  gives back the same instant, in the session's offset; SQLite drops the offset
  (`tables.py:110`), so that a moment given in UTC is read back without one. What was
  read once is saved and read again unchanged.
- `ReadsAreValues`: a row edited by hand is read as a value of the domain, or not read.
- `ListingsAgree`: a listing is one total order, whatever order the rows were in, and
  the same one on both backends. A sort is a pass per part of the key, each of which
  keeps a total order one (`PassOrders`), and the id, which is unique (`Keyed`),
  decides what the other parts leave (`IdsDecide`).
- `NewestAgree`: but the newest-first jobs of a person agree exactly when no two were
  submitted at one instant.
- `AnswersAgree`, `SelectionsAreKeyed`, `TaughtBothWays`: the questions.

### Sessions (`SessionsProofs`)

For any people, tabs, ages and bounds, from `SessionsAssumption`:

- `SessionsSound`: `SessionInv` always holds: the types, and for each request
  that what it has gathered is sound (`Sound`). While it is under way, everybody
  stored now is among those it has seen (`staff \subseteq held`), which is what makes
  the person resolved at one await one of `held` at the next, whoever the registrar
  removes in between; and once its session was read, it was young enough then.
- `SessionsCurrent`: `ActorIsCurrent` follows. It is not inductive: a request about
  to be resolved says nothing of it yet.
- `SessionsSignedOut`: `SignedOutStaysOut`, by an invariant of its own: while `out`
  holds the jar has no session, and a request sent after that carries none, so it
  is never past the reading of its session. The step that matters is the arrival
  of answers other tabs waited for: only a welcome puts a session in the jar.
- `FormsCanBePosted`: `FreshFormsPost`, by an invariant of its own (`FormsInv`): a page
  the property speaks of has the cookie's token, which lasts at least as long as the
  page is fresh, and every request under way, of any tab, carries it. An answer
  brings the token its request came with (`Echoes`), so no answer can replace it.

### Deployment, the table of jobs, errors and formats (`DeploymentProofs`)

The deployment, for any processes, environments, people and imports, from
`SettingsAssumption` and `DeploymentAssumption` (texts trim to texts, and no
environment names another database):

- `DeploymentInvariant`: `DeploymentInv` always holds. `Process` ties each process
  to settings that let it start and the key they give; `Issuer` does so for the
  process, dead perhaps, that issued the credential; `Put` and `Queued` say where
  the bytes of a job are, for whoever put them and for whoever reads its row.
- `CredentialsSurvive` and `PayloadsSurvive`: `SessionsSurvive` and
  `JobsKeepTheirBytes` follow.
- `BlankEnvironmentStarts` and `StartedIsWhole`: a blank variable is an unset one,
  and what starts is configured as a whole. They are about operators, for every
  environment.

The table of jobs, for any jobs, workers and aborts, from `JobTableAssumption`:

- `TableInvariant`: `TableInv` always holds: per worker, what its open transaction
  is about (`Meant`), that a row it has written is as it was found and has no other
  writer (`Locks`), and that a job it has claimed is not pending any more, and is
  claimed by nobody else (`Holds`), whatever `run_job` saves over it.
- `ClaimsAreExclusive`: `OneHolder` follows. It is not inductive: that the second
  claim's `WHERE` no longer matches rests on the row being pending for as long as
  the first claim is not committed, which is `Locks`.
- `BegunOnlyPending`: `TakenWhilePending`, from the same invariant: `run_job` marks a
  copy of a job that is pending, and a claim that waited finds the row pending or nothing.
  It says nothing of what is saved later: a save is unconditional, and a worker that
  began a job in time may write over the verdict of another that did (`jobs_twice`).

Errors, over all calls and classes of errors:

- `ExpectedIsClassified`: no class of error of the application or the domain falls
  through the table, an unforeseen domain error is a broken rule.
- `SurfacesAgree`: an HTTP client and a shell tell the same errors apart.
- `ExitsAreTheirOwn`: what each exit code says of the call that ended with it.

Formats, for whatever adapters are bound under whatever names, and any upload, from
what `FormatRegistry.__init__` enforces (`Bound`):

- `QueuedReadsAsInline`: a worker, which has only the stored key, picks the adapter
  the inline path picked from type and name. The case worth a proof is a default
  with no canonical suffix, whose key has none and falls back to it again.
- `TemplatesReadBack`: a template that can be written is read in its own format.

### What is only model-checked

Liveness, which is out of the proof system's reach: `EveryJobEnds` and `EveryWorkEnds`.
And the three violated properties, which are shown to fail, not to hold.

## Disagreements

Between the code and what the repository says of it, each the violated run named:

- `store_aborted`: `_restore` skips a row that another unit of work wrote since,
  but the other one's undo entry still holds the skipped write. If both abort, it
  is back, and nobody will remove it. "A transaction here is all-or-nothing for
  the rows it wrote" (`store.py:32`).
- `jobs_dry_run`: a job does not record that its upload was a dry run, so a
  rehearsal above the inline threshold is applied. "writing nothing"
  (`application/commands.py:91`).
- `jobs_twice`: `mark_running` guards a copy; two workers that read a pending job
  both run it. "the second attempt fails loudly" (`application/jobs.py:133`).

Three more, which the models have and no run is about:

- The age of majority in memory: the setter stores the caller's object and the getter
  hands it out (`store.py:262-276`, `repositories.py:315-321`), so that one object may
  be written twice, and a rollback compares by `is`. Set Y; another unit of work reads Y,
  sets Y and commits; the first one rolls back: X is back, past a committed write.
  "Rows enter the tables as private copies, so the object actually stored is unique to
  the write that put it there" (`store.py:217`), and "a row another transaction has
  written since is left exactly as that writer left it" (`store.py:26`) are so of the
  tables, not of this row, which "is journalled the same way". No use case sets it.
- An error that is neither an `ApplicationError` nor a `DomainError`, such as a
  deadlock victim's, a failed commit or a storage's `OSError`, passes `run_job`'s
  `except` (`service.py:217`) and leaves the job running, which nothing ends. "it holds
  every failure a worker can meet" (`service.py:177`).
- A grade sheet's request keeps its section, and the session's identity map gives the
  section back as it was loaded when the guard asks for everybody the actor teaches
  (`grading.py:149`, `sqlalchemy/repositories.py:296-318`), while the query that selects
  sections by teacher is answered by the database. When a student leaves and the section is
  given to somebody else in between, the new teacher is granted a student they taught at no
  instant, where the docstring says "Every student enrolled in any section this person
  teaches". `ShownWasReadable` allows this, and nothing else that is old.

Seen while modelling, and not runs: a row rejected because its student is not
enrolled has already had an empty transcript stored, and the sheet's commit keeps
it (`grade_sheet.py:169`; `records.py:110` says that is not a record); a student
counts as named in a file only once a row of theirs was recorded
(`grade_sheet.py:159`), where UC-40 §6b rejects the later row; the wards and
transcript pages render a token without setting its cookie (`records.py:42,61`), so
that a session that outlives the token's cookie leads to a form that cannot be
posted; of two transactions that both find an address free the second fails with
the database's error, where the repository promises a `ConflictError`
(`repositories.py:108`); `seed_bootstrap` says in its docstring that a conflict is
not swallowed, and answers with a line when the address is taken
(`seeding.py:194`); a rollback may put back a row that another
transaction deleted and committed, when an absent row is what both left
(`store.py:226`; no use case deletes yet); a grade is lost when two transactions
overlap on a transcript (the code knows and pins it in a test); a section without
students is gradable by anybody, which can store empty transcripts
(`grade_sheet.py:204`); `Plan.activate` past its program makes a second active
plan; a plan without subjects can be activated, which the state diagrams forbid;
a guardian of any age can be linked, which the domain model forbids; a teacher
can read the sheet of a colleague who is their student when each student of it is
theirs too, which ADR-0016 excludes in a sentence of its consequences; a crash
leaves pending jobs that nothing enqueues again, and running jobs that nothing
ends; `claim_next_pending` marks a job running, after which `run_job` refuses it.

On the table of jobs: of two claims at once the second gets nothing although another
job is pending, where its docstring has it move on to the next or get nothing
(`repositories.py:549`) and promises `None` only when none is pending; the in-memory
repository says that the SQL one uses `FOR UPDATE SKIP LOCKED`, which it does not; a
job deleted between the reading and the `UPDATE` of a save loses the save without a
word; nothing in `src/` polls, and the wired queue runs jobs inline.

On deployments: a static identity, meant to let the first administrator in, is of
no use on an empty database, since signing in and the command line's `--as` both look
people up by email and no route issues a bearer token; an in-memory web process has
nobody to sign in; the upload directory can be changed without the database, and
then the jobs in between fail for want of their bytes (`JobsKeepTheirBytes` excepts
it); `config show` leaves out the identity, the administrator and whether there is a key;
`Settings.from_env` names two of its four causes of a `ConfigurationError`.

On what both backends answer: jobs submitted at one instant are listed in opposite
orders (`NewestAgree`); sections are listed by the text of their term, so that the year
999 comes after 2026 (the column's docstring speaks of one century); SQLite drops the
offset of an instant (`RowsComeBack`); only PostgreSQL enforces the columns' widths; a stored section
that enrolls a student twice is read without complaint; the age of majority is replaced
by a delete and an insert that two transactions can both make (no use case calls it).

## Not modelled, and why

Spreadsheet parsing and writing, rendering, argument syntax, migrations, ids and the
clock keep no state that outlives a call; a file that cannot be parsed, a fresh id and
the date are outcomes or constants of the models. Of the columns, those of a job's
result and context and of a person's personal data are left out, which carry texts
and dates that no other part decides by. The JSON routes take
their actor from the same function, which falls back on a bearer token that browsers do
not send (`dependencies.py:101`), and call the same use cases. The in-memory claim has no
await in it, and so no interleaving; the configuration row's replacement and the saves
of sections and guardianships have no actions in the SQL modules, since no use case
makes them. Child tasks that inherit an open transaction through the ContextVar are
left out of `MemoryStore`: no driver starts one inside a unit of work.

## Plan

Every module has its runs, and every safety property its theorem. Next:

1. `Sessions` composed with `GradeBook`: a grade is recorded, and the listing that
   follows fails, so the reader sees an error for a grade that is there.
2. The enrollment of one student in two sections by two transactions, when a use case
   enrolls.
3. Two more abstract specifications, stated and proved: transactions on a transcript
   that do not overlap are serial ones (`GradeBook`), and a claim is one step on a
   table that nobody locks (`JobTable`).
4. Runs that show the three disagreements that have none: a committed age of majority
   taken back, a job left running by an error, a sheet shown on account of an old roster.
