---------------------------- MODULE ErrorIngest ----------------------------
(***************************************************************************)
(* POST /api/v1/errors: concurrent reports of errors are folded into one   *)
(* row per fingerprint.  Every request is one READ COMMITTED transaction   *)
(* that reads the row (upsert_error's select), later writes it and adds an *)
(* occurrence (the flushes), and commits when the handler returns.         *)
(*                                                                         *)
(* A request at "flushed" has written: it holds the lock of the row it     *)
(* updated or the unique index entry it inserted until it commits or rolls *)
(* back, and its writes are visible to nobody else.                        *)
(***************************************************************************)
EXTENDS Integers, FiniteSets

CONSTANTS
    Projects, Requests, Rows,   \* projects, API calls, identities of error rows
    Kinds,                      \* pairs of error_class and message
    Traces,                     \* first lines of stack traces
    ReportOf,                   \* what each request reports
    MaxFailures,                \* bound: lost connections and failed statements
    None

ASSUME ConstantsAssumption ==
    /\ ReportOf \in [Requests -> [project : Projects, kind : Kinds, trace : Traces]]
    /\ MaxFailures \in Nat
    /\ None \notin Rows \cup Projects

VARIABLES
    live,       \* projects that exist
    errors,     \* committed errors rows; status "free" is an unused identity,
                \* "gone" a deleted row (identities are UUIDs, never used again)
    occurrences,\* number of committed error_occurrences rows of each error
    requests,   \* each request's step, the row it works on and the count it read
    queued,     \* errors with a fix job enqueued
    failures,
    overlapping \* auxiliary: reports received beside another one of their error

vars == <<live, errors, occurrences, requests, queued, failures, overlapping>>

ErrorRow(project, print, count, status) ==
    [project |-> project, print |-> print, count |-> count, status |-> status]
NoRow == ErrorRow(None, None, 0, "free")

\* compute_fingerprint: a hash of class, message and first stack trace line.
Fingerprint(report) == <<report.kind, report.trace>>

\* The index ix_errors_project_fingerprint covers these two columns.
Key(r) == <<ReportOf[r].project, Fingerprint(ReportOf[r])>>
Stored(x) == errors[x].status \notin {"free", "gone"}
KeyOf(x) == <<errors[x].project, errors[x].print>>

Init ==
    /\ live = Projects
    /\ errors = [x \in Rows |-> NoRow]
    /\ occurrences = [x \in Rows |-> 0]
    /\ requests = [r \in Requests |-> [pc |-> "idle", row |-> None, seen |-> 0]]
    /\ queued = {}
    /\ failures = 0
    /\ overlapping = {}

-----------------------------------------------------------------------------
UnderWay(r) == requests[r].pc \in {"missing", "found", "flushed"}

Move(r, pc) == requests' = [requests EXCEPT ![r].pc = pc]

\* Mutation: the select does not filter by project.
ReceiveAnyProject(r) ==
    LET match == {x \in Rows : Stored(x) /\ errors[x].print = Fingerprint(ReportOf[r])} IN
    /\ requests[r].pc = "idle"
    /\ ReportOf[r].project \in live
    /\ \/ /\ match = {}
          /\ Move(r, "missing")
       \/ \E x \in match :
          requests' = [requests EXCEPT ![r] = [pc |-> "found", row |-> x,
                                               seen |-> errors[x].count]]
    /\ overlapping' = IF \E q \in Requests : UnderWay(q) /\ Key(q) = Key(r)
                      THEN overlapping \cup {r} ELSE overlapping
    /\ UNCHANGED <<live, errors, occurrences, queued, failures>>

\* The API key names a live project and the select of upsert_error runs.
Receive(r) ==
    LET match == {x \in Rows : Stored(x) /\ KeyOf(x) = Key(r)} IN
    /\ requests[r].pc = "idle"
    /\ ReportOf[r].project \in live
    /\ \/ /\ match = {}
          /\ Move(r, "missing")
       \/ \E x \in match :
          requests' = [requests EXCEPT ![r] = [pc |-> "found", row |-> x,
                                               seen |-> errors[x].count]]
    /\ overlapping' = IF \E q \in Requests : UnderWay(q) /\ Key(q) = Key(r)
                      THEN overlapping \cup {r} ELSE overlapping
    /\ UNCHANGED <<live, errors, occurrences, queued, failures>>

\* Mutation: requests wait for each other from the read on.
UpdateWhenAlone(r) ==
    /\ requests[r].pc = "found"
    /\ \A q \in Requests \ {r} : requests[q].pc \in {"found", "flushed"} =>
                                 requests[q].row # requests[r].row
    /\ Move(r, "flushed")
    /\ UNCHANGED <<live, errors, occurrences, queued, failures, overlapping>>

\* UPDATE errors SET occurrence_count = <count read> + 1: waits for the row lock.
Update(r) ==
    /\ requests[r].pc = "found"
    /\ \A q \in Requests : requests[q].pc = "flushed" => requests[q].row # requests[r].row
    /\ Stored(requests[r].row)
    /\ Move(r, "flushed")
    /\ UNCHANGED <<live, errors, occurrences, queued, failures, overlapping>>

\* Mutation: the index on (project_id, fingerprint) is not unique.
InsertAnyway(r) ==
    /\ requests[r].pc = "missing"
    /\ ReportOf[r].project \in live
    /\ \E x \in Rows :
       /\ errors[x].status = "free"
       /\ \A q \in Requests : requests[q].pc = "flushed" => requests[q].row # x
       /\ requests' = [requests EXCEPT ![r] = [pc |-> "flushed", row |-> x, seen |-> 0]]
    /\ UNCHANGED <<live, errors, occurrences, queued, failures, overlapping>>

\* INSERT INTO errors: waits for an uncommitted insert of the same key.
Insert(r) ==
    /\ requests[r].pc = "missing"
    /\ ReportOf[r].project \in live
    /\ \A q \in Requests : requests[q].pc = "flushed" => Key(q) # Key(r)
    /\ \A x \in Rows : Stored(x) => KeyOf(x) # Key(r)
    /\ \E x \in Rows :
       /\ errors[x].status = "free"
       /\ \A q \in Requests : requests[q].pc = "flushed" => requests[q].row # x
       /\ requests' = [requests EXCEPT ![r] = [pc |-> "flushed", row |-> x, seen |-> 0]]
    /\ UNCHANGED <<live, errors, occurrences, queued, failures, overlapping>>

\* The statement cannot succeed any more: the row or project was deleted, or
\* another request committed the same key (IntegrityError).  The client gets a 500.
Conflict(r) ==
    /\ \/ requests[r].pc = "found" /\ ~Stored(requests[r].row)
       \/ /\ requests[r].pc = "missing"
          /\ \/ ReportOf[r].project \notin live
             \/ \E x \in Rows : Stored(x) /\ KeyOf(x) = Key(r)
    /\ Move(r, "failed")
    /\ UNCHANGED <<live, errors, occurrences, queued, failures, overlapping>>

\* Mutation: a new row starts with the column's default and is counted by the
\* next report.
WrittenFromZero(r) ==
    LET x == requests[r].row IN
    IF Stored(x) THEN [errors[x] EXCEPT !.count = requests[r].seen + 1]
    ELSE ErrorRow(ReportOf[r].project, Fingerprint(ReportOf[r]), 0, "open")

\* Mutation: a new row, which starts with one, is counted like a found one.
WrittenTwice(r) ==
    LET x == requests[r].row IN
    IF Stored(x) THEN [errors[x] EXCEPT !.count = requests[r].seen + 1]
    ELSE ErrorRow(ReportOf[r].project, Fingerprint(ReportOf[r]), 2, "open")

\* The row as this request writes it: the count is the one it read, plus one.
Written(r) ==
    LET x == requests[r].row IN
    IF Stored(x) THEN [errors[x] EXCEPT !.count = requests[r].seen + 1]
    ELSE ErrorRow(ReportOf[r].project, Fingerprint(ReportOf[r]), 1, "open")

\* Both rows are committed, and the request counts as accepted.  (Whether the
\* 202 leaves before or after the commit depends on the version of FastAPI.)
\* A found row keeps its project, fingerprint and status.
Commit(r) ==
    LET x == requests[r].row IN
    /\ requests[r].pc = "flushed"
    /\ errors' = [errors EXCEPT ![x] = Written(r)]
    /\ occurrences' = [occurrences EXCEPT ![x] = @ + 1]
    /\ Move(r, "accepted")
    /\ UNCHANGED <<live, queued, failures, overlapping>>

\* Any statement or the commit fails: worker_session rolls everything back.
Abort(r) ==
    /\ UnderWay(r)
    /\ failures < MaxFailures
    /\ failures' = failures + 1
    /\ Move(r, "failed")
    /\ UNCHANGED <<live, errors, occurrences, queued, overlapping>>

-----------------------------------------------------------------------------
(* The rest of the system, as far as it writes these tables.               *)

Locked(x) == \E r \in Requests : requests[r].pc = "flushed" /\ requests[r].row = x

\* delete_project_action: the cascade waits for the locks of running reports.
DeleteProject(p) ==
    /\ p \in live
    /\ \A r \in Requests : requests[r].pc = "flushed" => ReportOf[r].project # p
    /\ live' = live \ {p}
    /\ errors' = [x \in Rows |-> IF errors[x].project = p
                                  THEN [errors[x] EXCEPT !.status = "gone"] ELSE errors[x]]
    /\ occurrences' = [x \in Rows |-> IF errors[x].project = p THEN 0 ELSE occurrences[x]]
    /\ queued' = {x \in queued : errors[x].project # p}
    /\ UNCHANGED <<requests, failures, overlapping>>

\* trigger_fix_action: a member presses the button of an OPEN error.
TriggerFix(x) ==
    /\ Stored(x) /\ errors[x].status = "open"
    /\ queued' = queued \cup {x}
    /\ UNCHANGED <<live, errors, occurrences, requests, failures, overlapping>>

\* complete_fix_attempt of a successful fix writes the status column only.
CloseError(x) ==
    /\ x \in queued /\ Stored(x) /\ ~Locked(x)
    /\ errors' = [errors EXCEPT ![x].status = "fix_attempted"]
    /\ queued' = queued \ {x}
    /\ UNCHANGED <<live, occurrences, requests, failures, overlapping>>

Handle(r) == Update(r) \/ Insert(r) \/ Conflict(r) \/ Commit(r) \/ Abort(r)

Next ==
    \/ \E r \in Requests : Receive(r) \/ Handle(r)
    \/ \E p \in Projects : DeleteProject(p)
    \/ \E x \in Rows : TriggerFix(x) \/ CloseError(x)

Spec == Init /\ [][Next]_vars

\* The server keeps running the requests it has received.
FairSpec == Spec /\ \A r \in Requests : WF_vars(Handle(r))

-----------------------------------------------------------------------------
(* Properties.                                                             *)

Steps == {"idle", "missing", "found", "flushed", "accepted", "failed"}

\* Every variable has its type; no code ever sets FIX_MERGED or IGNORED.
TypeOK ==
    /\ live \subseteq Projects
    /\ errors \in [Rows -> [project : Projects \cup {None},
                            print : (Kinds \X Traces) \cup {None},
                            count : Nat, status : {"free", "open", "fix_attempted", "gone"}]]
    /\ occurrences \in [Rows -> Nat]
    /\ requests \in [Requests -> [pc : Steps, row : Rows \cup {None}, seen : Nat]]
    /\ queued \subseteq Rows
    /\ failures \in 0..MaxFailures
    /\ overlapping \subseteq Requests

\* Concurrent first reports never leave two rows for one fingerprint: the next
\* report's scalar_one_or_none would raise for ever after.
OneRowPerFingerprint ==
    \A x, y \in Rows : Stored(x) /\ Stored(y) /\ KeyOf(x) = KeyOf(y) => x = y

\* Lost updates only ever make occurrence_count too small: it never exceeds the
\* occurrences recorded, and a stored error has at least one.
CountNeverExceeds ==
    \A x \in Rows : Stored(x) => errors[x].count \in 1..occurrences[x]

\* Reports accepted for an error that met no other report of it on arrival.
AcceptedAlone(x) ==
    {r \in Requests \ overlapping : requests[r].pc = "accepted" /\ requests[r].row = x}

\* A lost update has a cause: occurrence_count is short of the occurrences by no
\* more than the reports that arrived while another one of the same error was
\* being handled.  Failed reports, other errors and fixes cost nothing.
CountMissesOnlyOverlaps ==
    \A x \in Rows : Stored(x) =>
        errors[x].count \in Cardinality(AcceptedAlone(x))..occurrences[x]

\* A report is folded into an error of its own project and fingerprint.
AcceptedInOwnError ==
    \A r \in Requests : requests[r].pc = "accepted" =>
        KeyOf(requests[r].row) = Key(r)

\* Requests that wait for each other's locks never wait for ever.
EveryRequestAnswered ==
    \A r \in Requests : UnderWay(r) ~> requests[r].pc \in {"accepted", "failed"}

\* test_upsert_error_deduplicates_by_fingerprint: two reports of one error give
\* occurrence_count 2 and two occurrences.
CountIsExact == \A x \in Rows : Stored(x) => errors[x].count = occurrences[x]

-----------------------------------------------------------------------------
(* The inductive invariant behind them.                                    *)

\* What each request knows about its row, whatever the others did meanwhile.
RequestsKnown ==
    \A r \in Requests :
        LET q == requests[r] x == requests[r].row IN
        /\ q.pc \in {"found", "flushed", "accepted"} => x \in Rows
        /\ q.pc \in {"found", "accepted"} => errors[x].status # "free" /\ KeyOf(x) = Key(r)
        /\ q.pc = "found" => q.seen >= 1 /\ (Stored(x) => q.seen <= occurrences[x])
        /\ q.pc = "flushed" =>
              \/ /\ Stored(x) /\ KeyOf(x) = Key(r)
                 /\ q.seen \in 1..occurrences[x]
              \/ /\ errors[x].status = "free" /\ q.seen = 0
                 /\ \A y \in Rows : Stored(y) => KeyOf(y) # Key(r)

\* Two uncommitted writes never concern one row or one key.
WritesApart ==
    \A r, s \in Requests :
        requests[r].pc = "flushed" /\ requests[s].pc = "flushed" /\ r # s =>
            requests[r].row # requests[s].row /\ Key(r) # Key(s)

FreeRows == \A x \in Rows : errors[x].status = "free" => errors[x] = NoRow /\ occurrences[x] = 0

IInv ==
    /\ TypeOK
    /\ RequestsKnown
    /\ WritesApart
    /\ FreeRows
    /\ OneRowPerFingerprint
    /\ CountNeverExceeds

-----------------------------------------------------------------------------
(* Why a count misses no more than overlapping reports.                    *)

HasRow(r, x) == requests[r].pc \in {"found", "flushed"} /\ requests[r].row = x

\* Of the reports of one error under way at a time, all but the first overlap.
OneFirst ==
    \A q, r \in Requests \ overlapping :
        UnderWay(q) /\ UnderWay(r) /\ Key(q) = Key(r) => q = r

\* The count a report read falls behind by that first report only.
SeenKnown ==
    \A r \in Requests, x \in Rows : HasRow(r, x) /\ Stored(x) =>
        /\ requests[r].seen + 1 >= Cardinality(AcceptedAlone(x))
        /\ (\E q \in Requests \ overlapping : HasRow(q, x)) =>
              requests[r].seen >= Cardinality(AcceptedAlone(x))

\* What the count is compared with: each occurrence is of one accepted report.
OccurrencesAreAccepted ==
    \A x \in Rows : Stored(x) =>
        occurrences[x] = Cardinality({r \in Requests : /\ requests[r].pc = "accepted"
                                                       /\ requests[r].row = x})

LossInv == CountMissesOnlyOverlaps /\ OneFirst /\ SeenKnown
=============================================================================
