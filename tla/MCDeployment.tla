----------------------------- MODULE MCDeployment ------------------------------
(* Instances of Deployment and of JobTable small enough for TLC.  They share no    *)
(* state, so a behaviour is one of either: `subject` says of which.                *)
EXTENDS Deployment, JobTable, TLC

VARIABLE subject

ann == "11111111"
bob == "22222222"

MCTexts == {"", " ", "memory", "SQLAlchemy", "sqlalchemy", "static", "postgres", "16MB", "4096", "0",
            ann, "nobody", "red", "blue", "/srv/a", "/srv/b"}
MCTrim == [t \in MCTexts |-> IF t = " " THEN "" ELSE t]
MCLower == [t \in MCTexts |-> IF t = "SQLAlchemy" THEN "sqlalchemy" ELSE t]
MCNumbers == [t \in {"4096", "0"} |-> IF t = "0" THEN 0 ELSE 4096]
MCIds == {ann, bob}
MCPeople == {ann}

Named(name, text) == [v \in {name} |-> text]
Plain == Named("PERSISTENCE", "SQLAlchemy") @@ Named("UPLOAD_DIRECTORY", "/srv/a")
Keyed == Plain @@ Named("SECRET_KEY", "red")

\* one deployment that changes its key, its directory, its identity or its backend, and the
\* mistakes that must keep a process from starting
MCEnvironments ==
    {<< >>, Named("SECRET_KEY", "red"), Named("PERSISTENCE", " "), Named("PERSISTENCE", "postgres"),
     Plain, Keyed, Plain @@ Named("SECRET_KEY", "blue"),
     Named("UPLOAD_DIRECTORY", "/srv/b") @@ Keyed,
     Keyed @@ Named("IDENTITY", "static") @@ Named("BOOTSTRAP_ADMIN", ann),
     Keyed @@ Named("IDENTITY", "static") @@ Named("BOOTSTRAP_ADMIN", "nobody"),
     Plain @@ Named("IMPORT_MAX_BYTES", "16MB") @@ Named("IMPORT_INLINE_THRESHOLD_BYTES", "4096"),
     Keyed @@ Named("IMPORT_INLINE_THRESHOLD_BYTES", "0")}

MCInit == Init /\ JobTableInit /\ subject \in {"processes", "table"}
MCNext ==
    \/ subject = "processes" /\ Next /\ UNCHANGED <<tableVars, subject>>
    \/ subject = "table" /\ JobTableNext /\ UNCHANGED <<vars, subject>>

MCSpec == MCInit /\ [][MCNext]_<<vars, tableVars, subject>>
================================================================================
