------------------------------ MODULE RunStore ------------------------------
(***************************************************************************)
(* The `runs` table of storage/runs.py and the statements that change it.  *)
(*                                                                         *)
(* Every operator below is one SQL statement, or the statements of one     *)
(* transaction, as a function from a table to a table.  A statement whose  *)
(* WHERE clause matches no row returns the table it was given; `Owns` says *)
(* whether a fenced one matches.                                           *)
(*                                                                         *)
(* A table is a function from run ids to rows.  Ids are numbered in the    *)
(* order of created_at, and an id whose state is "absent" is not inserted  *)
(* yet.  The rows belong to one pull request.  Heads of the pull request   *)
(* are numbered in the order they were pushed, and 0 is a NULL head_sha.   *)
(***************************************************************************)
EXTENDS Naturals, FiniteSets

CONSTANTS
    Workers,      \* the values of WORKER_ID
    NoWorker,     \* a NULL worker_id
    MaxRuns,      \* bound: rows the table may hold
    MaxPushes,    \* bound: heads the pull request may have
    MaxDeliveries,\* bound: webhooks GitHub sends about it
    MaxAttempts   \* the setting max_attempts

ASSUME WorkersAssumption == NoWorker \notin Workers
ASSUME BoundsAssumption ==
    /\ MaxRuns \in Nat \ {0}
    /\ MaxPushes \in Nat \ {0}
    /\ MaxDeliveries \in Nat \ {0}
    /\ MaxAttempts \in Nat \ {0}

Runs  == 1..MaxRuns
Heads == 1..MaxPushes

Terminal == {"published", "degraded", "failed", "cancelled", "superseded"}
States   == {"absent", "queued", "running", "post_pending"} \cup Terminal

(* The columns that decide anything.  `lease` abstracts leased_until:      *)
(* "none" is NULL, "live" is in the future, "expired" is in the past.      *)
(* `parked` is not_before in the future.  `payload` is the attempt that    *)
(* computed the persisted payload, 0 for NULL.  `degraded` says that       *)
(* degraded_reason is not NULL, `flagged` that the run's publishable       *)
(* findings have posted=TRUE.  `delivery` is the delivery_id of the        *)
(* webhook that inserted the row, 0 for an operator's row (NULL).          *)
Row == [state    : States,
        attempts : 0..MaxAttempts,
        lease    : {"none", "live", "expired"},
        worker   : Workers \cup {NoWorker},
        parked   : BOOLEAN,
        cancel   : BOOLEAN,
        dry      : BOOLEAN,
        sha      : 0..MaxPushes,
        delivery : 0..MaxDeliveries,
        payload  : 0..MaxAttempts,
        degraded : BOOLEAN,
        flagged  : BOOLEAN]

Absent == [state |-> "absent", attempts |-> 0, lease |-> "none",
           worker |-> NoWorker, parked |-> FALSE, cancel |-> FALSE,
           dry |-> FALSE, sha |-> 0, delivery |-> 0, payload |-> 0,
           degraded |-> FALSE, flagged |-> FALSE]

Present(table) == {r \in Runs : table[r].state # "absent"}

-----------------------------------------------------------------------------
(* Queueing *)

(* The row both INSERTs write: the schema's defaults, and state 'queued'.  *)
QueuedRow(sha, delivery, dry) ==
    [Absent EXCEPT !.state = "queued", !.sha = sha,
                   !.delivery = delivery, !.dry = dry]

InsertQueued(table, id, sha, delivery, dry) ==
    [table EXCEPT ![id] = QueuedRow(sha, delivery, dry)]

(* ON CONFLICT (delivery_id) DO NOTHING. *)
Accepted(table, delivery) == \E r \in Runs : table[r].delivery = delivery

(* The two retirements.  IS DISTINCT FROM holds of a NULL head_sha too.    *)
Supersede(table, sha) ==
    [r \in Runs |->
        IF table[r].state = "queued" /\ table[r].sha # sha
        THEN [table[r] EXCEPT !.state = "superseded"]
        ELSE table[r]]

CancelRunning(table, sha) ==
    [r \in Runs |->
        IF table[r].state = "running" /\ table[r].sha # sha
        THEN [table[r] EXCEPT !.cancel = TRUE]
        ELSE table[r]]

(* Bug: the cancel half of the retirement is left out. *)
EnqueueNoCancel(table, id, sha, delivery) ==
    InsertQueued(table, id, sha, delivery, FALSE)

(* What enqueue_coalesced has done once it commits, beside superseding: its *)
(* row is there, and the other runs that are running are flagged.          *)
Enqueue(table, id, sha, delivery) ==
    CancelRunning(InsertQueued(table, id, sha, delivery, FALSE), sha)

SetCancel(table, r) == [table EXCEPT ![r].cancel = TRUE]

-----------------------------------------------------------------------------
(* Claiming *)

(* Bug: the attempt ceiling lives in the worker only. *)
ClaimableNoCeiling(table) ==
    {r \in Runs : /\ \/ table[r].state \in {"queued", "post_pending"}
                     \/ table[r].state = "running" /\ table[r].lease = "expired"
                  /\ ~table[r].parked}

(* Bug: a lease that ran out is not enough to take a row over. *)
ClaimableNoTakeover(table) ==
    {r \in Runs : /\ table[r].state \in {"queued", "post_pending"}
                  /\ ~table[r].parked
                  /\ table[r].attempts < MaxAttempts}

(* The WHERE clause of CLAIM_SQL. *)
Claimable(table) ==
    {r \in Runs : /\ \/ table[r].state \in {"queued", "post_pending"}
                     \/ table[r].state = "running" /\ table[r].lease = "expired"
                  /\ ~table[r].parked
                  /\ table[r].attempts < MaxAttempts}

Oldest(ids) == CHOOSE r \in ids : \A q \in ids : r <= q

(* Bug: a claim leaves the worker_id of the process it takes over from. *)
ClaimKeepsWorker(table, r, w) ==
    [table EXCEPT ![r].state = "running", ![r].lease = "live",
                  ![r].worker = IF @ = NoWorker THEN w ELSE @,
                  ![r].attempts = @ + 1]

Claim(table, r, w) ==
    [table EXCEPT ![r].state = "running", ![r].lease = "live",
                  ![r].worker = w, ![r].attempts = @ + 1]

(* REAP_SQL. *)
Reap(table) ==
    [r \in Runs |->
        IF /\ table[r].state = "running"
           /\ table[r].lease = "expired"
           /\ table[r].attempts >= MaxAttempts
        THEN [table[r] EXCEPT !.state = "failed", !.lease = "none",
                              !.worker = NoWorker]
        ELSE table[r]]

-----------------------------------------------------------------------------
(* Writes fenced on `id AND worker_id` *)

(* Bug: the fence asks for the row, not for its worker. *)
OwnsUnfenced(table, r, w) == table[r].state # "absent"

Owns(table, r, w) == table[r].worker = w

Heartbeat(table, r, w) ==
    IF Owns(table, r, w) THEN [table EXCEPT ![r].lease = "live"] ELSE table

(* The reason is COALESCEd, so degrading here always records one.          *)
Mark(table, r, w, state) ==
    IF Owns(table, r, w)
    THEN [table EXCEPT ![r].state = state,
                       ![r].degraded = @ \/ state = "degraded"]
    ELSE table

PutBack(table, r, w, state) ==
    IF Owns(table, r, w)
    THEN [table EXCEPT ![r].state = state, ![r].lease = "none",
                       ![r].worker = NoWorker, ![r].parked = TRUE]
    ELSE table

Requeue(table, r, w) == PutBack(table, r, w, "queued")

RequeuePost(table, r, w) == PutBack(table, r, w, "post_pending")

(* Bug: the findings are flagged whether or not the row matched. *)
MarkPostedUngated(table, r, w, state, posted) ==
    LET closed == IF Owns(table, r, w)
                  THEN [table EXCEPT ![r].state = state, ![r].parked = FALSE]
                  ELSE table
    IN [closed EXCEPT ![r].flagged = @ \/ posted]

(* The run and its findings, in one transaction. *)
MarkPosted(table, r, w, state, posted) ==
    IF Owns(table, r, w)
    THEN [table EXCEPT ![r].state = state, ![r].parked = FALSE,
                       ![r].flagged = @ \/ posted]
    ELSE table

(* Bug: the commit point is not fenced. *)
RecordResultUnfenced(table, r, w, attempt, sha, degraded) ==
    [table EXCEPT ![r].state = "post_pending", ![r].sha = sha,
                  ![r].payload = attempt, ![r].degraded = degraded,
                  ![r].flagged = FALSE]

(* The commit point: the payload, the head it is of, and the findings,     *)
(* which are deleted and inserted again unposted.                          *)
RecordResult(table, r, w, attempt, sha, degraded) ==
    IF Owns(table, r, w)
    THEN [table EXCEPT ![r].state = "post_pending", ![r].sha = sha,
                       ![r].payload = attempt, ![r].degraded = degraded,
                       ![r].flagged = FALSE]
    ELSE table
=============================================================================
