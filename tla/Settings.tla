------------------------------- MODULE Settings --------------------------------
(* What a deployment's environment means: config/settings.py, and the checks and *)
(* choices Container makes of it.  An environment is a function from the names   *)
(* of the variables that are set to texts.  What is done to a text is given:     *)
(* Trim and Lower as functions on texts, Numbers for those that read as integers. *)
EXTENDS Integers

CONSTANTS
    Texts,     \* the texts a variable may hold
    Trim,      \* a text without the space around it: "" for a blank one
    Lower,     \* a text in lower case
    Numbers,   \* the texts int() reads, and the numbers they are
    Ids        \* the texts that are person ids

ASSUME SettingsAssumption ==
    /\ "" \in Texts /\ "" \notin Ids
    /\ Trim \in [Texts -> Texts] /\ Lower \in [Texts -> Texts]
    /\ DOMAIN Numbers \subseteq Texts /\ \A t \in DOMAIN Numbers : Numbers[t] \in Int

Variables ==
    {"PERSISTENCE", "IMPORT_INLINE_THRESHOLD_BYTES", "IMPORT_MAX_BYTES", "DATABASE_URL",
     "MIGRATION_DATABASE_URL", "UPLOAD_DIRECTORY", "IDENTITY", "BOOTSTRAP_ADMIN", "SECRET_KEY"}

IsEnvironment(e) == DOMAIN e \subseteq Variables /\ \A v \in DOMAIN e : e[v] \in Texts

Unset == ""
Misread == "misread"
NoSize == 0

\* an absent variable and a blank one are both unset
Read(e, v) == IF v \in DOMAIN e THEN Trim[e[v]] ELSE Unset

Choice(t, members, default) ==
    IF t = Unset THEN default
    ELSE IF Lower[t] \in members THEN Lower[t] ELSE Misread

\* a positive number of bytes
Size(t, default) ==
    IF t = Unset THEN default
    ELSE IF t \in DOMAIN Numbers /\ Numbers[t] > 0 THEN Numbers[t] ELSE NoSize

Or(t, default) == IF t = Unset THEN default ELSE t

Default ==
    [persistence |-> "memory", identity |-> "repository",
     threshold |-> 256 * 1024, max |-> 16 * 1024 * 1024,
     database |-> "./academy_development.db", uploads |-> "./academy_uploads"]

FromEnv(e) ==
    [persistence |-> Choice(Read(e, "PERSISTENCE"), {"memory", "sqlalchemy"}, Default.persistence),
     identity    |-> Choice(Read(e, "IDENTITY"), {"repository", "static"}, Default.identity),
     threshold   |-> Size(Read(e, "IMPORT_INLINE_THRESHOLD_BYTES"), Default.threshold),
     max         |-> Size(Read(e, "IMPORT_MAX_BYTES"), Default.max),
     database    |-> Or(Read(e, "DATABASE_URL"), Default.database),
     migration   |-> Read(e, "MIGRATION_DATABASE_URL"),
     uploads     |-> Or(Read(e, "UPLOAD_DIRECTORY"), Default.uploads),
     admin       |-> Read(e, "BOOTSTRAP_ADMIN"),
     key         |-> Read(e, "SECRET_KEY")]

\* Settings.from_env raises no ConfigurationError
Readable(s) ==
    /\ s.persistence # Misread /\ s.identity # Misread
    /\ s.threshold # NoSize /\ s.max # NoSize

MigrationDatabase(s) == Or(s.migration, s.database)

--------------------------------------------------------------------------------
(* What Container makes of the settings. *)

Durable(s) == s.persistence = "sqlalchemy"

\* Container.__init__ raises none: a static identity has somebody to resolve
Wires(s) == s.identity = "static" => s.admin \in Ids

\* fault: payloads are kept in the process whatever the database
StorageInProcess(s) == "memory"

\* the payload storage follows the persistence
Storage(s) == IF Durable(s) THEN "local" ELSE "memory"

\* what signs sessions: the key that was set, or one made by this process, `born` being its name
NoKey == [set |-> Unset, born |-> 0]

\* fault: a durable deployment without a key makes one too
SigningKeyMade(s, born) ==
    IF s.key # Unset THEN [set |-> s.key, born |-> 0] ELSE [set |-> Unset, born |-> born]

\* otherwise a ConfigurationError, NoKey here
SigningKey(s, born) ==
    IF s.key # Unset THEN [set |-> s.key, born |-> 0]
    ELSE IF Durable(s) THEN NoKey
    ELSE [set |-> Unset, born |-> born]

\* a web process asks for the key before it serves, a command or a worker never does
Starts(s, kind) ==
    /\ Readable(s)
    /\ Wires(s)
    /\ kind = "web" => SigningKey(s, 1) # NoKey

================================================================================
