-------------------------- MODULE ReviewWorkerProps -------------------------
(***************************************************************************)
(* What the workers, the run table and the API promise together.           *)
(***************************************************************************)
EXTENDS ReviewWorker

(* Every column and every process stays in its domain; in particular       *)
(* claims never count past the ceiling (CLAIM_SQL, storage/runs.py).       *)
TypeOK ==
    /\ rows \in [Runs -> Row]
    /\ wk \in [Workers -> Process]
    /\ head \in Heads
    /\ hooks \in Seq(Heads) /\ Len(hooks) <= MaxDeliveries
    /\ retiring \in 0..Len(hooks)
    /\ landed \subseteq Review
    /\ deaths \in 0..MaxDeaths
    /\ lostAcks \in 0..MaxLostAcks

-----------------------------------------------------------------------------
(* Ownership *)

Holds(w) == wk[w].at \in Working /\ Owns(rows, wk[w].run, w)

(* The fence names a process, not a claim.  It is enough all the same: a   *)
(* process whose writes would match a row works on the row's newest claim. *)
(* (storage/runs.py `_fenced`; requeue and the reaper clear worker_id.)    *)
FenceMeansNewestClaim ==
    \A w \in Workers :
        Holds(w) => rows[wk[w].run].attempts = wk[w].attempt

(* Two processes may work on one run, but only one of them can write.      *)
(* A persisted payload is replaced only by the newest claim's              *)
(* (`record_result`, "the fence that matters most").                       *)
ResultsComeFromTheNewestClaim ==
    [][\A r \in Runs :
        rows'[r].payload # rows[r].payload
            => rows'[r].payload = rows[r].attempts]_vars

(* A settled run stays settled: no late worker, reaper, retry or push      *)
(* moves it.  The exception is the code's: a process that lost the         *)
(* connection under mark_posted marks failed the run it had just settled   *)
(* (`except Exception` in run_one).                                        *)
SettledStays ==
    [][\A r \in Runs :
        rows[r].state \in Terminal /\ rows'[r].state # rows[r].state
            => /\ rows'[r].state = "failed"
               /\ lostAcks > 0
               /\ \E w \in Workers : wk[w].run = r /\ wk[w].at = "close"
                                      /\ Holds(w) /\ wk'[w].run # r]_vars

-----------------------------------------------------------------------------
(* What the row says and what is on GitHub *)

(* A run closed as posted has a review of its head on the pull request,    *)
(* whoever posted it (`post_payload`, `mark_posted`).                      *)
PublishedIsOnGitHub ==
    \A r \in Runs :
        rows[r].state \in {"published", "degraded"} /\ ~rows[r].dry
            => Reviewed(rows[r].sha)

(* Findings flagged posted are those of a payload that reached GitHub: the *)
(* flag "tells an operator a comment reached GitHub" (`mark_posted`).      *)
FlagsAreTrue ==
    \A r \in Runs : rows[r].flagged =>
        \E v \in landed : v.run = r /\ v.payload = rows[r].payload

(* A review that was cut short is not passed off as whole, through any     *)
(* number of post retries and hand-overs, and one closed as degraded has   *)
(* its reason (`degraded_reason`).                                         *)
DegradationSurvives ==
    \A r \in Runs :
        /\ rows[r].state = "published" => ~rows[r].degraded
        /\ rows[r].state = "degraded" => rows[r].degraded

(* One review per head: what the marker is for (`already_reviewed`).  With *)
(* one process it holds across kills and ambiguous failures, as long as    *)
(* the reviews can be listed, but for heads that were never reviewed on    *)
(* the one page that is looked at: of those a review is not found again.   *)
(* worker/main.py says so of several processes too, and there it fails     *)
(* between the look and the post.                                          *)
OneReviewPerHead ==
    \A u, v \in landed : u.sha = v.sha /\ (u.listed \/ v.listed) => u = v

-----------------------------------------------------------------------------
(* Coalescing and cancelling *)

(* Work that has persisted no review and is for another head than the one  *)
(* the delivery of n announced, and that nothing will stop.                *)
Stale(r, n) ==
    /\ r < n /\ rows[n].delivery # 0
    /\ rows[r].state \in {"queued", "running"} /\ rows[r].payload = 0
    /\ rows[r].sha # hooks[rows[n].delivery]
    /\ ~rows[r].cancel

(* After a delivery was accepted, no older run is on its first attempt, or *)
(* waiting for it, unless it is for the head announced or is flagged for   *)
(* cancelling (`enqueue_coalesced`).                                       *)
StaleWorkIsRetired ==
    \A r, n \in Present(rows) :
        Stale(r, n) => rows[r].attempts > IF rows[r].state = "queued" THEN 0 ELSE 1

-----------------------------------------------------------------------------
(* What a run is to those who asked for it *)

Phase(state) ==
    CASE state = "absent"                    -> "none"
      [] state = "queued"                    -> "waiting"
      [] state = "running"                   -> "working"
      [] state = "post_pending"              -> "due"
      [] state \in {"published", "degraded"} -> "delivered"
      [] OTHER                               -> "closed"

(* The row without the columns that only say who works on it.              *)
LifeOf(row) == [phase |-> Phase(row.state), tries |-> row.attempts,
                review |-> row.payload]

ShownOf(r) == {v.payload : v \in {u \in landed : u.run = r}}

(* A dry run is to be shown to nobody. *)
Covered(r) == rows[r].dry \/ Reviewed(rows[r].sha)

Job == INSTANCE RunLife
    WITH Jobs <- Runs, MaxTries <- MaxAttempts,
         life <- [r \in Runs |-> LifeOf(rows[r])],
         shown <- [r \in Runs |-> ShownOf(r)],
         covered <- [r \in Runs |-> Covered(r)]

(* Whoever works on it, dies or is taken over from, a run is one job: its  *)
(* tries are counted, a try that was taken for dead records nothing,       *)
(* nothing reaches GitHub before the commit point (`record_result`), and   *)
(* an ended run stays ended.  This is the abstract specification RunLife.  *)
RunsAreJobs == Job!Spec

-----------------------------------------------------------------------------
(* Progress *)

(* A post that is due while no attempt is left: no claim admits the row,   *)
(* and the reaper looks at running rows only.                              *)
Stranded(r) ==
    rows[r].state = "post_pending" /\ rows[r].attempts = MaxAttempts

(* Every accepted run settles, whatever dies or is lost on the way, unless *)
(* its post is stranded at the attempt ceiling (`claim`, `reap_exhausted`).*)
EveryRunSettles ==
    \A r \in Runs :
        (rows[r].state # "absent")
            ~> (rows[r].state \in Terminal \/ Stranded(r))

Announced == Len(hooks) = MaxDeliveries /\ \A d \in DOMAIN hooks : Accepted(rows, d)

(* Once every webhook has been accepted, in whatever order they came, the  *)
(* head is reviewed, or a run has failed or is stranded for an operator to *)
(* see: coalescing never retires the last review of a head.                *)
HeadIsReviewed ==
    Announced ~> (Reviewed(head)
                  \/ \E r \in Runs : rows[r].state = "failed" \/ Stranded(r))

-----------------------------------------------------------------------------
(* What the repository says and the code does not keep *)

(* A dry run reaches GitHub by no path (tests/test_retry.py,               *)
(* test_a_dry_run_never_posts).  Between record_result and mark_posted its *)
(* row is an ordinary post_pending row, and post_pending posts it.         *)
DryRunsPostNothing == \A v \in landed : ~rows[v.run].dry

(* After the commit point a failure costs a retried post, never a new      *)
(* review (worker/main.py, run_one).  A process that dies while it posts   *)
(* leaves a running row, and the claim that takes it over reviews again.   *)
PersistedReviewIsNotRedone ==
    \A w \in Workers :
        Holds(w) /\ wk[w].at \in Reviewing => rows[wk[w].run].payload = 0

(* The claim ceiling and the worker's guard agree, so the last attempt     *)
(* settles the run (storage/runs.py, claim).  run_one puts a post back     *)
(* without that guard, and no claim or reaper looks at the row again.      *)
NoPostIsStranded ==
    \A r \in Runs :
        Stranded(r) => \E w \in Workers : Holds(w) /\ wk[w].run = r

(* A push supersedes the queued runs of the pull request and cancels the   *)
(* running ones (README.md, Coalescing), atomically (storage/runs.py,      *)
(* enqueue_coalesced).  A run that a worker puts back in the queue between *)
(* the two UPDATEs is running for the first and queued for the second.     *)
StaleWorkIsAlwaysRetired ==
    \A r, n \in Present(rows) : ~Stale(r, n)
=============================================================================
