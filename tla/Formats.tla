-------------------------------- MODULE Formats --------------------------------
(* How an upload picks its spreadsheet adapter, twice: by what it declares when  *)
(* it is imported at once, and by its storage key alone when a worker reads it  *)
(* later.  A type stands for its spellings, a file name for its last suffix.    *)
\* what clients send, and what files are called
TypeFormat ==
    [t \in {"text/csv", "application/csv", "text/plain", "openxml", "ms-excel"} |->
       IF t \in {"openxml", "ms-excel"} THEN "xlsx" ELSE "csv"]
SuffixFormat == [s \in {".csv", ".xlsx", ".xlsm"} |-> IF s = ".csv" THEN "csv" ELSE "xlsx"]

\* of two suffixes of one format the first listed is written
CanonicalSuffix == [f \in {"csv", "xlsx"} |-> IF f = "csv" THEN ".csv" ELSE ".xlsx"]

\* __init__: what can be read can be written, and so can the default
Bound(readers, writers, default) == readers = writers /\ default \in readers

\* the declared type first, then the suffix, and each only if an adapter is bound for it
FormatOf(readers, default, type, suffix) ==
    IF type \in DOMAIN TypeFormat /\ TypeFormat[type] \in readers THEN TypeFormat[type]
    ELSE IF suffix \in DOMAIN SuffixFormat /\ SuffixFormat[suffix] \in readers
         THEN SuffixFormat[suffix]
    ELSE default

\* the suffix of the key a payload is stored under
ExtensionFor(readers, default, type, suffix) ==
    LET format == FormatOf(readers, default, type, suffix)
    IN  IF format \in DOMAIN CanonicalSuffix THEN CanonicalSuffix[format] ELSE ""

\* a worker has the key for a file name, and no type
WorkerFormat(readers, default, key) == FormatOf(readers, default, "", key)

\* a template is written in the format asked for, or not at all
Template(writers, format) == IF format \in writers THEN {format} ELSE {}
================================================================================
