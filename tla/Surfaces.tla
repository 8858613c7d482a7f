-------------------------------- MODULE Surfaces -------------------------------
(* What a caller is told: the one table of expected failures, its renderings as  *)
(* an HTTP status and as an exit status, and the command line around the latter.  *)
(* An error is the set of the classes it is an instance of.                      *)
EXTENDS Settings

InvalidValues ==
    {"InvalidGradeError", "InvalidTermError", "InvalidSubjectError", "InvalidEmailError",
     "InvalidPersonalDataError", "InvalidAgeOfMajorityError"}

\* in the order of the code, whose rows for one failure are one row here
Table ==
    <<[types |-> InvalidValues \cup {"MalformedSpreadsheetError"}, failure |-> "VALIDATION"],
      [types |-> {"NotFoundError", "PlanNotFoundError"}, failure |-> "NOT_FOUND"],
      [types |-> {"ConflictError", "AlreadyEnrolledError", "DuplicatePlanError",
                  "DuplicateSubjectEnrollmentError", "JobStateError", "GraduationStateError"},
       failure |-> "CONFLICT"],
      [types |-> {"AuthorizationError"}, failure |-> "FORBIDDEN"],
      [types |-> {"PayloadTooLargeError"}, failure |-> "TOO_LARGE"],
      [types |-> {"DomainError"}, failure |-> "RULE"]>>

Failure == {"VALIDATION", "NOT_FOUND", "CONFLICT", "FORBIDDEN", "TOO_LARGE", "RULE"}
Unclassified == "None"

\* the first row that has one of the error's classes
Classify(error) ==
    LET rows == {i \in 1..6 : Table[i].types \cap error # {}} IN
    IF rows = {} THEN Unclassified
    ELSE Table[CHOOSE i \in rows : \A k \in rows : i <= k].failure

HttpStatus ==
    [VALIDATION |-> 422, NOT_FOUND |-> 404, CONFLICT |-> 409, FORBIDDEN |-> 403,
     TOO_LARGE |-> 413, RULE |-> 400]
Http(error) ==
    IF Classify(error) = Unclassified THEN 500 ELSE HttpStatus[Classify(error)]

ExitCode ==
    [OK |-> 0, ERROR |-> 1, USAGE |-> 2, VALIDATION |-> 3, NOT_FOUND |-> 4, CONFLICT |-> 5,
     FORBIDDEN |-> 6, TOO_LARGE |-> 7, RULE |-> 8, CONFIGURATION |-> 9, IMPORT_INCOMPLETE |-> 10]
ForFailure(failure) == IF failure = Unclassified THEN ExitCode.ERROR ELSE ExitCode[failure]

--------------------------------------------------------------------------------
(* The classes the code has, each with its base. *)

ApplicationErrors ==
    {"NotFoundError", "ConflictError", "AuthorizationError", "PayloadTooLargeError",
     "MalformedSpreadsheetError", "JobStateError"}
DomainErrors ==
    InvalidValues \cup
    {"PlanNotFoundError", "AlreadyEnrolledError", "DuplicatePlanError",
     "DuplicateSubjectEnrollmentError", "GraduationStateError", "NotTeacherOfSectionError",
     "StudentNotEnrolledError", "HistoryOwnerMismatchError", "NotEligibleForGraduationError",
     "EmptyPlanError", "NotAStudentError", "SubjectNotInPlanError", "WrongTermError",
     "NotATeacherError", "TeacherNotQualifiedError", "SelfGuardianshipError", "WrongWardError"}

OfClass(c) == {c, IF c \in ApplicationErrors THEN "ApplicationError" ELSE "DomainError"}
Expected(error) == {"ApplicationError", "DomainError"} \cap error # {}

--------------------------------------------------------------------------------
(* The web's handlers.  What none of them takes is the server's own 500. *)

WebStatus(error, surface, htmx) ==
    IF "NotAuthenticatedError" \in error
    THEN IF surface = "api" \/ htmx THEN 401 ELSE 303
    ELSE IF "CsrfFailedError" \in error THEN 403
    ELSE IF Expected(error) THEN Http(error) ELSE 500

--------------------------------------------------------------------------------
(* The command line.  A call is a record: whether argparse could read it, its      *)
(* environment, its command, whether --as named somebody, and what the use case    *)
(* it called raised or gave back.                                                  *)

ReportExit(report) == IF report.rejected = 0 THEN ExitCode.OK ELSE ExitCode.IMPORT_INCOMPLETE

\* a job that is pending yet is a success: submitting it is what was asked, and a job
\* without a report has rejected nothing
JobExit(job) ==
    IF job.status = "failed" THEN ExitCode.IMPORT_INCOMPLETE ELSE ReportExit(job.report)

\* an import that was queued is read again, and everything else is done when it returns
OutputExit(call) ==
    CASE call.gave = "report" -> ReportExit(call.report)
      [] call.gave = "job"    -> JobExit(call.job)
      [] OTHER                -> ExitCode.OK

\* the boundary; Python itself exits with 1 for what it does not catch
ErrorExit(error) ==
    IF "ConfigurationError" \in error THEN ExitCode.CONFIGURATION
    ELSE IF Expected(error) THEN ForFailure(Classify(error)) ELSE ExitCode.ERROR

\* a scope is opened on a container that could be built, and before anything else in it
\* somebody is looked up to act as
Execute(call) ==
    LET s == FromEnv(call.environ) IN
    IF ~Readable(s) THEN ErrorExit({"ConfigurationError"})
    ELSE IF call.command = "config show" THEN ExitCode.OK
    ELSE IF ~Wires(s) THEN ErrorExit({"ConfigurationError"})
    ELSE IF ~call.known THEN ErrorExit(OfClass("NotFoundError"))
    ELSE IF call.raised # {} THEN ErrorExit(call.raised)
    ELSE OutputExit(call)

Main(call) == IF call.parsed THEN Execute(call) ELSE ExitCode.USAGE
================================================================================
