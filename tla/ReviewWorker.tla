---------------------------- MODULE ReviewWorker ----------------------------
(***************************************************************************)
(* The review workers (worker/main.py), with what they work against: the   *)
(* run table of RunStore, the API handlers that write to it, and, from     *)
(* outside the repository, one pull request on GitHub.                     *)
(*                                                                         *)
(* A worker process is one main loop and, while run_one runs, one          *)
(* heartbeat thread.  Each call to the database or to GitHub is a step of  *)
(* its own, so other workers, the API and GitHub act between any two.      *)
(* What happens inside the agent graph is the module ReviewGraph; here it  *)
(* is the step that passes the last cancel check and the step that ends    *)
(* with a result or an error.                                              *)
(***************************************************************************)
EXTENDS RunStore, Sequences

CONSTANTS
    MaxDeaths,    \* bound: worker processes that die
    MaxLostAcks,  \* bound: database calls whose connection is lost
    Operator,     \* whether the operator API is used
    ReadsRefused, \* whether GitHub may refuse to list a PR's reviews (4xx)
    Page          \* our reviews among the first per_page of a PR

ASSUME FaultsAssumption == MaxDeaths \in Nat /\ MaxLostAcks \in Nat
ASSUME PageAssumption == Page \in Nat

VARIABLES
    rows,     \* the run table
    wk,       \* each worker process: its main loop and its heartbeat thread
    head,     \* GitHub: the head of the pull request
    hooks,    \* GitHub: the head each webhook delivery reports, in order sent
    retiring, \* API: the delivery whose transaction is open, 0 for none
    landed,   \* GitHub: the reviews on the pull request
    deaths,   \* processes that have died
    lostAcks  \* database calls that have lost their connection

vars == <<rows, wk, head, hooks, retiring, landed, deaths, lostAcks>>

-----------------------------------------------------------------------------
(* Where the main loop stands: before the call the step is named for.      *)
Reviewing == {"head", "clone", "graph", "finish"}
Posting   == {"check", "post"}
Writing   == {"record", "settle", "requeue", "requeue_post", "close"}
Working   == Reviewing \cup Posting \cup Writing
Steps     == {"down", "reap", "claim"} \cup Working

(* One process.  `run`, `attempt` are the claimed row's, `repost` that its *)
(* prior_state was post_pending.  `sha`, `degraded`, `payload` are the     *)
(* result in hand, from the review or from the claimed row.  `posted` is   *)
(* what post_payload returned, `ending` the state `close` is to write.     *)
(* `beating` is the heartbeat thread, `lost` its lease_lost event.         *)
Process == [at       : Steps,
            run      : 0..MaxRuns,
            attempt  : 0..MaxAttempts,
            repost   : BOOLEAN,
            sha      : 0..MaxPushes,
            payload  : 0..MaxAttempts,
            degraded : BOOLEAN,
            posted   : BOOLEAN,
            ending   : {"failed", "cancelled"},
            beating  : BOOLEAN,
            lost     : BOOLEAN]

Idle == [at |-> "reap", run |-> 0, attempt |-> 0, repost |-> FALSE,
         sha |-> 0, payload |-> 0, degraded |-> FALSE, posted |-> FALSE,
         ending |-> "failed", beating |-> FALSE, lost |-> FALSE]

Down == [Idle EXCEPT !.at = "down"]

(* A review on GitHub: the claim that posted it, the payload it posted,    *)
(* the head in the marker of its body, and whether it is in the one page   *)
(* that is asked for.  The page has the oldest reviews and none is         *)
(* deleted, so this does not change.                                       *)
Review == [run : Runs, attempt : 1..MaxAttempts, payload : 1..MaxAttempts,
           sha : Heads, listed : BOOLEAN]

-----------------------------------------------------------------------------
(* Process w goes on as p.  A process that dies counts against the bound.  *)
Becomes(w, p) ==
    /\ wk' = [wk EXCEPT ![w] = p]
    /\ IF p.at = "down" THEN deaths < MaxDeaths /\ deaths' = deaths + 1
                        ELSE UNCHANGED deaths

(* Database calls of the main loop.  The connection may be lost before the *)
(* statement is applied or after it; the process cannot tell which.        *)
Call(w, table, returned, raised) ==
    \/ /\ rows' = table
       /\ Becomes(w, returned)
       /\ UNCHANGED lostAcks
    \/ /\ lostAcks < MaxLostAcks
       /\ lostAcks' = lostAcks + 1
       /\ rows' \in {rows, table}
       /\ Becomes(w, raised)

(* The handler an exception reaches.  run_one catches everything and       *)
(* closes the run as failed; what post_pending does not name, and what a   *)
(* handler raises itself, ends the process.  A handler has no use for the  *)
(* result in hand.                                                         *)
Handler(p, step) ==
    [Idle EXCEPT !.at = step, !.run = p.run, !.attempt = p.attempt,
                 !.repost = p.repost, !.beating = p.beating, !.lost = p.lost]

Failed(p)     == Handler(p, "close")
Cancelled(p)  == [Handler(p, "close") EXCEPT !.ending = "cancelled"]
Unexpected(p) == IF p.repost THEN Down ELSE Failed(p)

(* TransientError while reviewing: requeue below the ceiling, else close.  *)
TransientReview(p) ==
    IF p.attempt < MaxAttempts THEN Handler(p, "requeue") ELSE Failed(p)

(* TransientError while posting: run_one always puts the post back,        *)
(* post_pending only below the ceiling.                                    *)
TransientPost(p) ==
    IF p.repost => p.attempt < MaxAttempts
    THEN Handler(p, "requeue_post")
    ELSE Failed(p)

-----------------------------------------------------------------------------
(* The main loop *)

ReapExhausted(w) ==
    /\ wk[w].at = "reap"
    /\ Call(w, Reap(rows), [Idle EXCEPT !.at = "claim"], Idle)
    /\ UNCHANGED <<head, hooks, retiring, landed>>

(* Rows another process may be writing at this moment: SKIP LOCKED passes  *)
(* over them.                                                              *)
LockedByOthers(w) ==
    {wk[v].run : v \in {u \in Workers \ {w} : wk[u].at \in Writing}}

(* Dispatch on prior_state: a persisted review is only posted. *)
Take(row) ==
    LET claimed == [Idle EXCEPT !.run = row.id, !.attempt = row.attempts]
    IN IF row.prior = "post_pending"
       THEN LET repost == [claimed EXCEPT !.repost = TRUE, !.sha = row.sha,
                               !.payload = row.payload,
                               !.degraded = row.degraded]
            IN IF row.payload = 0 THEN Failed(repost)
               ELSE [repost EXCEPT !.at = "check"]
       ELSE [claimed EXCEPT !.at = "head", !.beating = TRUE]

ClaimRun(w) ==
    /\ wk[w].at = "claim"
    /\ \E skipped \in SUBSET LockedByOthers(w) :
        LET eligible == Claimable(rows) \ skipped
            r == Oldest(eligible)
            row == [id |-> r, prior |-> rows[r].state, sha |-> rows[r].sha,
                    attempts |-> rows[r].attempts + 1,
                    payload |-> rows[r].payload,
                    degraded |-> rows[r].degraded]
        IN IF eligible = {} THEN Call(w, rows, Idle, Idle)
           ELSE Call(w, Claim(rows, r, w), Take(row), Idle)
    /\ UNCHANGED <<head, hooks, retiring, landed>>

-----------------------------------------------------------------------------
(* run_one: the review, with post=False *)

ReadHead(w) ==
    /\ wk[w].at = "head"
    /\ wk' = [wk EXCEPT ![w].at = "clone", ![w].sha = head]
    /\ UNCHANGED <<rows, head, hooks, retiring, landed, deaths, lostAcks>>

(* The notice for a diff over the size limit needs no clone, and is the    *)
(* whole result. *)
DiffTooLarge(w) ==
    /\ wk[w].at = "clone"
    /\ wk' = [wk EXCEPT ![w].at = "record", ![w].payload = wk[w].attempt]
    /\ UNCHANGED <<rows, head, hooks, retiring, landed, deaths, lostAcks>>

(* clone_head compares what it checked out with the head that was read.    *)
CloneHead(w) ==
    /\ wk[w].at = "clone"
    /\ wk' = [wk EXCEPT ![w] =
                IF @.sha = head THEN [@ EXCEPT !.at = "graph"] ELSE Failed(@)]
    /\ UNCHANGED <<rows, head, hooks, retiring, landed, deaths, lostAcks>>

(* The last check_cancel of the graph.  A lost lease releases the run      *)
(* without a write; a cancelled run is closed by its owner.                *)
PassCancelCheck(w) ==
    /\ wk[w].at = "graph"
    /\ Call(w, rows,
            IF wk[w].lost THEN Idle
            ELSE IF rows[wk[w].run].cancel
                 THEN Cancelled(wk[w])
                 ELSE [wk[w] EXCEPT !.at = "finish"],
            Failed(wk[w]))
    /\ UNCHANGED <<head, hooks, retiring, landed>>

(* Bug: the review is posted before it is recorded. *)
FinishReviewPostsFirst(w) ==
    /\ wk[w].at = "finish"
    /\ \E degraded \in BOOLEAN :
        wk' = [wk EXCEPT ![w].at = "check", ![w].payload = wk[w].attempt,
                         ![w].degraded = degraded]
    /\ UNCHANGED <<rows, head, hooks, retiring, landed, deaths, lostAcks>>

(* The graph ended and _finish built the payload. *)
FinishReview(w) ==
    /\ wk[w].at = "finish"
    /\ \E degraded \in BOOLEAN :
        wk' = [wk EXCEPT ![w].at = "record", ![w].payload = wk[w].attempt,
                         ![w].degraded = degraded]
    /\ UNCHANGED <<rows, head, hooks, retiring, landed, deaths, lostAcks>>

(* GitHub, git, the model or a bug ends review_pr with an exception.       *)
ReviewFails(w) ==
    /\ wk[w].at \in Reviewing
    /\ \E handled \in {TransientReview(wk[w]), Failed(wk[w])} :
        wk' = [wk EXCEPT ![w] = handled]
    /\ UNCHANGED <<rows, head, hooks, retiring, landed, deaths, lostAcks>>

(* record_result, the commit point.  A stale result is dropped, and so is  *)
(* the post that would follow it.  A dry run posts nothing.                *)
PersistResult(w) ==
    LET p == wk[w] IN
    /\ p.at = "record"
    /\ Call(w, RecordResult(rows, p.run, w, p.attempt, p.sha, p.degraded),
            IF Owns(rows, p.run, w)
            THEN [p EXCEPT !.at = IF rows[p.run].dry THEN "settle" ELSE "check"]
            ELSE Idle,
            Failed(p))
    /\ UNCHANGED <<head, hooks, retiring, landed>>

-----------------------------------------------------------------------------
(* Posting: post_payload, then the write that closes the run *)

Reviewed(sha) == \E v \in landed : v.sha = sha

(* What already_reviewed sees of it. *)
MarkerListed(sha) == \E v \in landed : v.sha = sha /\ v.listed

(* Bug: reviews that cannot be listed count as reviewed. *)
CheckMarkerPessimistic(w) ==
    /\ wk[w].at = "check"
    /\ \/ /\ MarkerListed(wk[w].sha) \/ ReadsRefused
          /\ wk' = [wk EXCEPT ![w].at = "settle", ![w].posted = FALSE]
       \/ /\ ~MarkerListed(wk[w].sha)
          /\ wk' = [wk EXCEPT ![w].at = "post"]
    /\ UNCHANGED <<rows, head, hooks, retiring, landed, deaths, lostAcks>>

(* Bug: a review that was found is reported as one that was posted. *)
CheckMarkerClaimsPost(w) ==
    /\ wk[w].at = "check"
    /\ \/ /\ MarkerListed(wk[w].sha)
          /\ wk' = [wk EXCEPT ![w].at = "settle", ![w].posted = TRUE]
       \/ /\ ~MarkerListed(wk[w].sha) \/ ReadsRefused
          /\ wk' = [wk EXCEPT ![w].at = "post"]
    /\ UNCHANGED <<rows, head, hooks, retiring, landed, deaths, lostAcks>>

(* Bug: the marker is not looked for. *)
CheckMarkerNever(w) ==
    /\ wk[w].at = "check"
    /\ wk' = [wk EXCEPT ![w].at = "post"]
    /\ UNCHANGED <<rows, head, hooks, retiring, landed, deaths, lostAcks>>

(* already_reviewed looks at one page.  When the reviews cannot be listed  *)
(* the code posts.                                                         *)
CheckMarker(w) ==
    /\ wk[w].at = "check"
    /\ \/ /\ MarkerListed(wk[w].sha)
          /\ wk' = [wk EXCEPT ![w].at = "settle", ![w].posted = FALSE]
       \/ /\ ~MarkerListed(wk[w].sha) \/ ReadsRefused
          /\ wk' = [wk EXCEPT ![w].at = "post"]
    /\ UNCHANGED <<rows, head, hooks, retiring, landed, deaths, lostAcks>>

Landing(p) == [run |-> p.run, attempt |-> p.attempt, payload |-> p.payload,
               sha |-> p.sha, listed |-> Cardinality(landed) < Page]

PostReview(w) ==
    /\ wk[w].at = "post"
    /\ landed' = landed \cup {Landing(wk[w])}
    /\ wk' = [wk EXCEPT ![w].at = "settle", ![w].posted = TRUE]
    /\ UNCHANGED <<rows, head, hooks, retiring, deaths, lostAcks>>

(* A call to GitHub fails while posting.  After a 5xx or a broken          *)
(* connection the review may be on the pull request all the same; a 4xx    *)
(* is a refusal.  A connection that breaks while the response is read is   *)
(* no URLError, so nothing names it.                                       *)
PostFails(w) ==
    LET p == wk[w] IN
    /\ p.at \in Posting
    /\ \E reached \in BOOLEAN :
        /\ reached => p.at = "post"
        /\ landed' = IF reached THEN landed \cup {Landing(p)} ELSE landed
        /\ \E handled \in {TransientPost(p), Unexpected(p)}
                           \cup (IF reached THEN {} ELSE {Failed(p)}) :
            Becomes(w, handled)
    /\ UNCHANGED <<rows, head, hooks, retiring, lostAcks>>

(* Bug: a review that was posted is published, however it ended. *)
SettleAsPublished(w) ==
    LET p == wk[w] IN
    /\ p.at = "settle"
    /\ Call(w, MarkPosted(rows, p.run, w, "published", p.posted),
            Idle, Unexpected(p))
    /\ UNCHANGED <<head, hooks, retiring, landed>>

(* mark_posted. *)
Settle(w) ==
    LET p == wk[w] IN
    /\ p.at = "settle"
    /\ Call(w, MarkPosted(rows, p.run, w,
                          IF p.degraded THEN "degraded" ELSE "published",
                          p.posted),
            Idle, Unexpected(p))
    /\ UNCHANGED <<head, hooks, retiring, landed>>

(* requeue, in a handler of run_one. *)
RequeueRun(w) ==
    /\ wk[w].at = "requeue"
    /\ Call(w, Requeue(rows, wk[w].run, w), Idle, Down)
    /\ UNCHANGED <<head, hooks, retiring, landed>>

(* requeue_post, in the inner handler of run_one or in post_pending's. *)
PutPostBack(w) ==
    /\ wk[w].at = "requeue_post"
    /\ Call(w, RequeuePost(rows, wk[w].run, w), Idle, Unexpected(wk[w]))
    /\ UNCHANGED <<head, hooks, retiring, landed>>

(* mark. *)
CloseRun(w) ==
    /\ wk[w].at = "close"
    /\ Call(w, Mark(rows, wk[w].run, w, wk[w].ending), Idle, Down)
    /\ UNCHANGED <<head, hooks, retiring, landed>>

-----------------------------------------------------------------------------
(* The heartbeat thread, and the life of a process *)

(* A heartbeat that does not match sets lease_lost and ends the thread; so *)
(* does, without setting it, one that raises.                              *)
Beat(w) ==
    /\ wk[w].beating
    /\ \/ /\ rows' = Heartbeat(rows, wk[w].run, w)
          /\ wk' = IF Owns(rows, wk[w].run, w) THEN wk
                   ELSE [wk EXCEPT ![w].beating = FALSE, ![w].lost = TRUE]
          /\ UNCHANGED lostAcks
       \/ /\ lostAcks < MaxLostAcks
          /\ lostAcks' = lostAcks + 1
          /\ rows' \in {rows, Heartbeat(rows, wk[w].run, w)}
          /\ wk' = [wk EXCEPT ![w].beating = FALSE]
    /\ UNCHANGED <<head, hooks, retiring, landed, deaths>>

(* A kill at any point; at "reap" this is a drain as well. *)
Crash(w) ==
    /\ wk[w].at # "down"
    /\ Becomes(w, Down)
    /\ UNCHANGED <<rows, head, hooks, retiring, landed, lostAcks>>

(* The container comes back with its host name and pid, so its WORKER_ID.  *)
Restart(w) ==
    /\ wk[w].at = "down"
    /\ wk' = [wk EXCEPT ![w] = Idle]
    /\ UNCHANGED <<rows, head, hooks, retiring, landed, deaths, lostAcks>>

-----------------------------------------------------------------------------
(* The clock.  Nothing reads leased_until of a row that is not running.    *)

LeaseExpires(r) ==
    /\ rows[r].state = "running" /\ rows[r].lease = "live"
    /\ rows' = [rows EXCEPT ![r].lease = "expired"]
    /\ UNCHANGED <<wk, head, hooks, retiring, landed, deaths, lostAcks>>

BackoffElapses(r) ==
    /\ rows[r].parked
    /\ rows' = [rows EXCEPT ![r].parked = FALSE]
    /\ UNCHANGED <<wk, head, hooks, retiring, landed, deaths, lostAcks>>

-----------------------------------------------------------------------------
(* The API handlers, and GitHub *)

NextId == Cardinality(Present(rows)) + 1

(* Bug: the retirement comes first, and a redelivery runs it too. *)
BeginEnqueueAlways(d) ==
    /\ retiring = 0
    /\ Accepted(rows, d) \/ NextId \in Runs
    /\ rows' = Supersede(rows, hooks[d])
    /\ retiring' = IF Accepted(rows, d) THEN 0 ELSE d
    /\ UNCHANGED <<wk, head, hooks, landed, deaths, lostAcks>>

(* A webhook arrives, perhaps late, out of order, or again.                *)
(* enqueue_coalesced takes the lock of the pull request, inserts its row,  *)
(* which nobody sees before the commit, and supersedes the queued runs.    *)
(* The insert of a redelivery conflicts, and then nothing is retired.      *)
BeginEnqueue(d) ==
    /\ retiring = 0
    /\ ~Accepted(rows, d) /\ NextId \in Runs
    /\ rows' = Supersede(rows, hooks[d])
    /\ retiring' = d
    /\ UNCHANGED <<wk, head, hooks, landed, deaths, lostAcks>>

(* The second UPDATE sees what workers have committed since the first      *)
(* (READ COMMITTED), and the transaction commits.  A row an operator       *)
(* inserts in between is numbered before the one that appears now.         *)
CommitEnqueue ==
    /\ retiring # 0 /\ NextId \in Runs
    /\ rows' = Enqueue(rows, NextId, hooks[retiring], retiring)
    /\ retiring' = 0
    /\ UNCHANGED <<wk, head, hooks, landed, deaths, lostAcks>>

(* The bound on the table leaves a row for the open transaction. *)
CreateReview(dry) ==
    /\ Operator
    /\ NextId \in Runs /\ (retiring # 0 => NextId < MaxRuns)
    /\ rows' = InsertQueued(rows, NextId, 0, 0, dry)
    /\ UNCHANGED <<wk, head, hooks, retiring, landed, deaths, lostAcks>>

CancelRun(r) ==
    /\ Operator
    /\ r \in Present(rows)
    /\ rows' = SetCancel(rows, r)
    /\ UNCHANGED <<wk, head, hooks, retiring, landed, deaths, lostAcks>>

Push ==
    /\ head < MaxPushes /\ Len(hooks) < MaxDeliveries
    /\ head' = head + 1
    /\ hooks' = Append(hooks, head + 1)
    /\ UNCHANGED <<rows, wk, retiring, landed, deaths, lostAcks>>

(* An event that reports the head again, under a new delivery id. *)
Reopen ==
    /\ Len(hooks) < MaxDeliveries
    /\ hooks' = Append(hooks, head)
    /\ UNCHANGED <<rows, wk, head, retiring, landed, deaths, lostAcks>>

-----------------------------------------------------------------------------
Init ==
    /\ rows = [r \in Runs |-> Absent]
    /\ wk = [w \in Workers |-> Idle]
    /\ head = 1
    /\ hooks = <<1>>
    /\ retiring = 0
    /\ landed = {}
    /\ deaths = 0
    /\ lostAcks = 0

MainLoop(w) ==
    \/ ReapExhausted(w)   \/ ClaimRun(w)
    \/ ReadHead(w)        \/ DiffTooLarge(w)  \/ CloneHead(w)
    \/ PassCancelCheck(w) \/ FinishReview(w)  \/ ReviewFails(w)
    \/ PersistResult(w)   \/ CheckMarker(w)   \/ PostReview(w)
    \/ PostFails(w)       \/ Settle(w)        \/ RequeueRun(w)
    \/ PutPostBack(w)     \/ CloseRun(w)

Clock == \E r \in Runs : LeaseExpires(r) \/ BackoffElapses(r)

Api ==
    \/ \E d \in DOMAIN hooks : BeginEnqueue(d)
    \/ CommitEnqueue
    \/ \E dry \in BOOLEAN : CreateReview(dry)
    \/ \E r \in Runs : CancelRun(r)

Next ==
    \/ \E w \in Workers : MainLoop(w) \/ Beat(w) \/ Crash(w) \/ Restart(w)
    \/ Clock \/ Api \/ Push \/ Reopen

Spec == Init /\ [][Next]_vars

(* A process keeps taking steps, docker-compose restarts one that ended,   *)
(* time passes: a backoff elapses, and so does a lease nobody extends.     *)
Unattended(r) == \A w \in Workers : ~(wk[w].beating /\ wk[w].run = r)

Fairness ==
    /\ \A w \in Workers : WF_vars(MainLoop(w)) /\ WF_vars(Restart(w))
    /\ \A r \in Runs : /\ WF_vars(BackoffElapses(r))
                       /\ WF_vars(Unattended(r) /\ LeaseExpires(r))

FairSpec == Spec /\ Fairness
=============================================================================
