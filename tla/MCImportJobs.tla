------------------------------ MODULE MCImportJobs -----------------------------
(* Instances of ImportJobs small enough for TLC. *)
EXTENDS ImportJobs

Sized(size, dry, sheet) == [size |-> size, dryRun |-> dry, sheet |-> sheet]

\* two good files that are queued, or any file beside a good one that is not
Kinds ==
    {Sized("large", FALSE, s) : s \in {"readable", "unreadable", "unwired"}}
        \cup {Sized("small", d, "readable") : d \in BOOLEAN}
        \cup {Sized("huge", FALSE, "readable")}

First == CHOOSE j \in Jobs : TRUE
MixedUploads ==
    {u \in [Jobs -> Kinds] :
        \/ \A j \in Jobs : u[j] = Sized("large", FALSE, "readable")
        \/ \A j \in Jobs \ {First} : u[j] = Sized("small", FALSE, "readable")}

\* one good file, queued
OneUpload == [Jobs -> {Sized("large", FALSE, "readable")}]
DryUpload == [Jobs -> {Sized(z, TRUE, "readable") : z \in {"small", "large"}}]
================================================================================
