------------------------------ MODULE JobStore ------------------------------
(***************************************************************************)
(* The job_records table of internal/database: its statements as operators *)
(* on a function from job ids to rows. Of a row the model keeps what the   *)
(* statements and their readers tell apart: the status, which nullable     *)
(* columns are set, the project path and the order of creation.            *)
(***************************************************************************)
EXTENDS Naturals, Sequences, FiniteSets, Functions

CONSTANTS
    Job,     \* job ids
    Path,    \* project paths
    NoRow    \* the id has no row

Statuses == {"pending", "running", "completed", "failed"}
Terminal == {"completed", "failed"}

\* CREATE TABLE job_records
Row == [ status    : Statuses,
         path      : Path,
         created   : Nat \ {0},     \* rank of created_at
         started   : BOOLEAN,       \* started_at is not NULL
         result    : BOOLEAN,       \* output and error are not NULL
         completed : BOOLEAN ]      \* completed_at and duration are not NULL

ASSUME NoRowAssumption == NoRow \notin Row

Stored(rows) == {j \in Job : rows[j] # NoRow}

\* CreateJob: the primary key makes a second INSERT fail, which leaves the
\* row as it is; output, error, started_at, completed_at, duration are NULL.
CreateJob(rows, j, p) ==
    IF rows[j] # NoRow THEN rows
    ELSE [rows EXCEPT ![j] = [status |-> "pending", path |-> p,
                              created |-> Cardinality(Stored(rows)) + 1,
                              started |-> FALSE, result |-> FALSE, completed |-> FALSE]]

\* Variant: a terminal status that leaves duration NULL.
StatusWithoutDuration(rows, j, s) ==
    IF rows[j] = NoRow THEN rows
    ELSE [rows EXCEPT ![j].status = s, ![j].started = @ \/ s = "running"]

\* UpdateJobStatus: running stamps started_at, a terminal status stamps
\* completed_at and duration (0 when started_at is NULL). No row, no effect:
\* the UPDATE matches nothing, or the SELECT before it returns an error.
UpdateJobStatus(rows, j, s) ==
    IF rows[j] = NoRow THEN rows
    ELSE [rows EXCEPT ![j].status = s,
                      ![j].started = @ \/ s = "running",
                      ![j].completed = @ \/ s \in Terminal]

\* UpdateJobResult: output and error, for a success the empty string.
UpdateJobResult(rows, j) ==
    IF rows[j] = NoRow THEN rows ELSE [rows EXCEPT ![j].result = TRUE]

\* Variant: the Scan takes NULL columns (sql.NullString).
ScansWithNulls(row) == TRUE

\* rows.Scan into string and int64 fields fails on a NULL in output, error
\* or duration; started_at and completed_at go to pointers.
Scans(row) == row.result /\ row.completed

\* What GetJob returns for an id.
GetJob(rows, j) ==
    IF rows[j] # NoRow /\ Scans(rows[j]) THEN rows[j] ELSE NoRow

\* ORDER BY created_at DESC: a row stands behind those created after it.
Newest(rows, selected) ==
    [i \in 1 .. Cardinality(selected) |->
        CHOOSE j \in selected :
            Cardinality({k \in selected : rows[k].created > rows[j].created}) = i - 1]

\* The ids of ListJobs' page, newest first; status "" selects all.
Page(rows, limit, offset, status) ==
    LET newest == Newest(rows, {j \in Stored(rows) : status \in {"", rows[j].status}})
        last   == IF offset + limit < Len(newest) THEN offset + limit ELSE Len(newest)
    IN  SubSeq(newest, offset + 1, last)

\* ListJobs gives up the whole page at the first row it cannot scan.
ListFails(rows, limit, offset, status) ==
    \E j \in Range(Page(rows, limit, offset, status)) : ~Scans(rows[j])
=============================================================================
