--------------------------- MODULE RunLifeProofs ----------------------------
(***************************************************************************)
(* The workers implement RunLife: whatever they do to the table and to the *)
(* pull request, each run goes through the life of one job.  And, from the *)
(* same account of what a step does to a row, that a delivery retires the  *)
(* work it makes stale; and that one process posts one review of a head.   *)
(***************************************************************************)
EXTENDS ReviewWorkerProofs

(* What a step of process w, or of anyone, does to one row, with no word   *)
(* of the columns a job does not show.                                     *)
SameResult(r) ==
    /\ rows'[r].payload = rows[r].payload /\ rows'[r].sha = rows[r].sha
    /\ rows'[r].dry = rows[r].dry

Quiet(r) ==
    /\ SameResult(r)
    /\ rows'[r].state = rows[r].state /\ rows'[r].attempts = rows[r].attempts
    /\ rows'[r].worker = rows[r].worker

Retired(r) ==
    /\ SameResult(r) /\ rows'[r].attempts = rows[r].attempts
    /\ rows[r].state \in {"queued", "running"}
    /\ rows'[r].state \in {"superseded", "failed"}
    /\ rows'[r].worker = NoWorker

Inserted(r) ==
    /\ rows[r] = Absent
    /\ rows'[r].state = "queued" /\ rows'[r].worker = NoWorker
    /\ rows'[r].attempts = 0 /\ rows'[r].payload = 0

Claimed(r, w) ==
    /\ SameResult(r)
    /\ rows[r].state \in {"queued", "post_pending", "running"}
    /\ rows[r].attempts < MaxAttempts
    /\ rows'[r].attempts = rows[r].attempts + 1
    /\ rows'[r].state = "running" /\ rows'[r].worker = w

(* The write of a process that owns the row.                               *)
Written(r, w) ==
    /\ wk[w].run = r /\ Owns(rows, r, w)
    /\ rows'[r].attempts = rows[r].attempts /\ rows'[r].dry = rows[r].dry
    /\ rows'[r].worker \in {w, NoWorker}
    /\ \/ /\ wk[w].at = "record" /\ rows'[r].state = "post_pending"
          /\ rows'[r].payload = wk[w].attempt /\ rows'[r].sha = wk[w].sha
       \/ /\ SameResult(r)
          /\ \/ wk[w].at = "settle" /\ rows'[r].state \in {"published", "degraded"}
             \/ wk[w].at = "requeue" /\ rows'[r].state = "queued"
             \/ wk[w].at = "requeue_post" /\ rows'[r].state = "post_pending"
             \/ wk[w].at = "close" /\ rows'[r].state \in {"failed", "cancelled"}

LEMMA SameRow ==
    ASSUME NEW r, rows'[r] = rows[r]
    PROVE  Quiet(r)
  BY DEF Quiet, SameResult

(* What the main loop of a process does to each row. *)
LEMMA MainLoopRows ==
    ASSUME IInv, NEW w \in Workers, MainLoop(w), NEW r \in Runs
    PROVE  Quiet(r) \/ Retired(r) \/ Claimed(r, w) \/ Written(r, w)
<1>1. /\ rows \in Table /\ rows[r] \in Row /\ wk[w] \in Process /\ JobOK(w)
  BY DEF IInv, Typed, Table
<1>2. CASE rows' = rows
  BY <1>2, SameRow
<1>3. CASE ReapExhausted(w)
  <2>1. rows' = rows \/ rows' = Reap(rows)
    BY <1>3 DEF ReapExhausted, Call
  <2>2. CASE rows' = Reap(rows)
    BY <1>1, <2>2 DEF Reap, Row, Quiet, Retired, SameResult
  <2> QED BY <1>2, <2>1, <2>2
<1>4. CASE ClaimRun(w)
  <2>1. PICK skipped \in SUBSET LockedByOthers(w) :
          LET eligible == Claimable(rows) \ skipped
              id == Oldest(eligible)
          IN rows' = rows \/ (eligible # {} /\ rows' = Claim(rows, id, w))
    BY <1>4 DEF ClaimRun, Call
  <2> DEFINE eligible == Claimable(rows) \ skipped
             id == Oldest(eligible)
  <2>2. CASE eligible # {} /\ rows' = Claim(rows, id, w)
    <3>1. id \in Claimable(rows)
      <4>1. eligible \subseteq Nat
        BY DEF Claimable, Runs
      <4> QED BY <2>2, <4>1, OldestIsOne
    <3> HIDE DEF id
    <3>2. /\ \A q \in Runs \ {id} : rows'[q] = rows[q]
          /\ rows[id].state \in {"queued", "post_pending", "running"}
          /\ rows'[id].state = "running" /\ rows'[id].worker = w
          /\ rows'[id].attempts = rows[id].attempts + 1
          /\ rows'[id].payload = rows[id].payload
          /\ rows'[id].sha = rows[id].sha /\ rows'[id].dry = rows[id].dry
      BY <1>1, <2>2, <3>1, ClaimRow
    <3>3. rows[id].attempts < MaxAttempts
      BY <3>1 DEF Claimable
    <3> QED BY <3>2, <3>3, SameRow DEF Claimed, SameResult
  <2> QED BY <1>2, <2>1, <2>2
<1>5. CASE \/ ReadHead(w) \/ DiffTooLarge(w) \/ CloneHead(w)
           \/ FinishReview(w) \/ ReviewFails(w) \/ PassCancelCheck(w)
           \/ CheckMarker(w) \/ PostReview(w) \/ PostFails(w)
  <2>1. rows' = rows
    BY <1>5 DEF ReadHead, DiffTooLarge, CloneHead, FinishReview, ReviewFails,
       PassCancelCheck, Call, CheckMarker, PostReview, PostFails
  <2> QED BY <1>2, <2>1
<1>6. ASSUME wk[w].at \in Writing,
             rows' = rows \/ (/\ Owns(rows, wk[w].run, w)
                              /\ \E row : rows' = [rows EXCEPT ![wk[w].run] = row])
      PROVE  /\ wk[w].run # r => Quiet(r)
             /\ wk[w].run = r /\ ~Owns(rows, r, w) => Quiet(r)
  <2>1. wk[w].run # r => rows'[r] = rows[r]
    BY <1>1, <1>6 DEF Table
  <2>2. ~Owns(rows, wk[w].run, w) => rows'[r] = rows[r]
    BY <1>6
  <2> QED BY <2>1, <2>2, SameRow
<1>7. CASE PersistResult(w)
  <2>1. wk[w].at = "record"
    BY <1>7 DEF PersistResult
  <2>2. rows' \in {rows, RecordResult(rows, wk[w].run, w, wk[w].attempt,
                                      wk[w].sha, wk[w].degraded)}
    BY <1>7 DEF PersistResult, Call
  <2>3. CASE wk[w].run = r /\ Owns(rows, r, w)
    BY <1>1, <2>1, <2>2, <2>3, SameRow
    DEF RecordResult, Table, Row, Written, Owns
  <2> QED BY <1>6, <2>1, <2>2, <2>3 DEF Writing, RecordResult
<1>8. CASE Settle(w)
  <2>1. wk[w].at = "settle"
    BY <1>8 DEF Settle
  <2>2. rows' = rows \/ \E state \in {"published", "degraded"} :
            rows' = MarkPosted(rows, wk[w].run, w, state, wk[w].posted)
    BY <1>8 DEF Settle, Call
  <2>3. CASE wk[w].run = r /\ Owns(rows, r, w)
    BY <1>1, <2>1, <2>2, <2>3, SameRow
    DEF MarkPosted, Table, Row, Written, Owns, SameResult
  <2> QED BY <1>6, <2>1, <2>2, <2>3 DEF Writing, MarkPosted
<1>9. CASE RequeueRun(w)
  <2>1. /\ wk[w].at = "requeue"
        /\ rows' \in {rows, Requeue(rows, wk[w].run, w)}
    BY <1>9 DEF RequeueRun, Call
  <2>2. CASE wk[w].run = r /\ Owns(rows, r, w)
    BY <1>1, <2>1, <2>2, SameRow
    DEF Requeue, PutBack, Table, Row, Written, Owns, SameResult
  <2> QED BY <1>6, <2>1, <2>2 DEF Writing, Requeue, PutBack
<1>10. CASE PutPostBack(w)
  <2>1. /\ wk[w].at = "requeue_post"
        /\ rows' \in {rows, RequeuePost(rows, wk[w].run, w)}
    BY <1>10 DEF PutPostBack, Call
  <2>2. CASE wk[w].run = r /\ Owns(rows, r, w)
    BY <1>1, <2>1, <2>2, SameRow
    DEF RequeuePost, PutBack, Table, Row, Written, Owns, SameResult
  <2> QED BY <1>6, <2>1, <2>2 DEF Writing, RequeuePost, PutBack
<1>11. CASE CloseRun(w)
  <2>1. /\ wk[w].at = "close"
        /\ rows' \in {rows, Mark(rows, wk[w].run, w, wk[w].ending)}
    BY <1>11 DEF CloseRun, Call
  <2>2. wk[w].ending \in {"failed", "cancelled"}
    BY <1>1 DEF Process
  <2>3. CASE wk[w].run = r /\ Owns(rows, r, w)
    BY <1>1, <2>1, <2>2, <2>3, SameRow
    DEF Mark, Table, Row, Written, Owns, SameResult
  <2> QED BY <1>6, <2>1, <2>3 DEF Writing, Mark
<1> QED BY <1>3, <1>4, <1>5, <1>7, <1>8, <1>9, <1>10, <1>11 DEF MainLoop

(* What anything else does: the heartbeat, the clock, the API, GitHub.     *)
Elsewhere ==
    \/ \E w \in Workers : Beat(w) \/ Crash(w) \/ Restart(w)
    \/ Clock \/ Api \/ Push \/ Reopen \/ UNCHANGED vars

LEMMA InsertedRows ==
    ASSUME IInv, NextId \in Runs, NEW sha, NEW delivery, NEW dry, NEW r \in Runs,
           LET new == InsertQueued(rows, NextId, sha, delivery, dry)
           IN rows' = new \/ rows' = CancelRunning(new, sha)
    PROVE  Quiet(r) \/ Inserted(r)
<1> DEFINE new == InsertQueued(rows, NextId, sha, delivery, dry)
<1>1. /\ rows \in Table /\ rows[r] \in Row /\ RowOK(rows[r]) /\ Contiguous
  BY DEF IInv, Typed, Table
<1>2. CASE r = NextId
  <2>1. rows[r] = Absent
    BY <1>1, <1>2, NextIdIsFree DEF RowOK
  <2>2. new[r] = QueuedRow(sha, delivery, dry)
    BY <1>1, <1>2 DEF InsertQueued, Table
  <2>3. /\ new[r].state = "queued" /\ new[r].worker = NoWorker
        /\ new[r].attempts = 0 /\ new[r].payload = 0
    BY <2>2 DEF QueuedRow, Absent
  <2>4. rows'[r] = new[r]
    BY <2>3 DEF CancelRunning
  <2> QED BY <2>1, <2>3, <2>4 DEF Inserted
<1>3. CASE r # NextId
  <2>1. new[r] = rows[r]
    BY <1>1, <1>3 DEF InsertQueued, Table
  <2>2. \/ rows'[r] = rows[r]
        \/ rows'[r] = [rows[r] EXCEPT !.cancel = TRUE]
    BY <2>1 DEF CancelRunning
  <2> QED BY <1>1, <2>2 DEF Quiet, SameResult, Row
<1> QED BY <1>2, <1>3

LEMMA ElsewhereRows ==
    ASSUME IInv, Elsewhere, NEW r \in Runs
    PROVE  Quiet(r) \/ Retired(r) \/ Inserted(r)
<1>1. /\ rows \in Table /\ rows[r] \in Row /\ RowOK(rows[r])
  BY DEF IInv, Typed, Table
<1>2. ASSUME NEW w \in Workers, Beat(w) PROVE Quiet(r)
  <2>1. rows' = rows \/ rows' = Heartbeat(rows, wk[w].run, w)
    BY <1>2 DEF Beat
  <2> QED BY <1>1, <2>1 DEF Heartbeat, Table, Row, Quiet, SameResult
<1>3. ASSUME NEW w \in Workers, Crash(w) \/ Restart(w) PROVE Quiet(r)
  BY <1>3, SameRow DEF Crash, Restart
<1>4. CASE Clock
  BY <1>1, <1>4
  DEF Clock, LeaseExpires, BackoffElapses, Table, Row, Quiet, SameResult
<1>5. ASSUME NEW d \in DOMAIN hooks, BeginEnqueue(d)
      PROVE  Quiet(r) \/ Retired(r)
  <2>1. CASE rows'[r] = rows[r]
    BY <2>1, SameRow
  <2>2. CASE /\ rows[r].state = "queued"
             /\ rows'[r] = [rows[r] EXCEPT !.state = "superseded"]
    <3>1. rows[r].worker = NoWorker
      BY <1>1, <2>2 DEF RowOK
    <3> QED BY <1>1, <2>2, <3>1 DEF Row, Retired, SameResult
  <2> QED BY <1>5, <2>1, <2>2 DEF BeginEnqueue, Supersede
<1>6. CASE CommitEnqueue
  BY <1>6, InsertedRows DEF CommitEnqueue, Enqueue
<1>7. ASSUME NEW dry \in BOOLEAN, CreateReview(dry)
      PROVE  Quiet(r) \/ Inserted(r)
  BY <1>7, InsertedRows DEF CreateReview
<1>8. ASSUME NEW q \in Runs, CancelRun(q) PROVE Quiet(r)
  BY <1>1, <1>8 DEF CancelRun, SetCancel, Table, Row, Quiet, SameResult
<1>9. CASE Push \/ Reopen \/ UNCHANGED vars
  BY <1>9, SameRow DEF Push, Reopen, vars
<1> QED BY <1>2, <1>3, <1>4, <1>5, <1>6, <1>7, <1>8, <1>9 DEF Elsewhere, Api

-----------------------------------------------------------------------------
(* What RunLife needs of the workers, beside IInv: a process that still    *)
(* reviews has a running row without a result of its claim; what anyone is *)
(* about to show was recorded, and if nothing was recorded since, it is of *)
(* the head the row says; a post is put back only where there is one.      *)
Recorded(w) ==
    wk[w].at \in Delivering =>
        /\ wk[w].payload <= rows[wk[w].run].payload
        /\ wk[w].payload = rows[wk[w].run].payload
              => wk[w].sha = rows[wk[w].run].sha

Fresh(w) ==
    LET row == rows[wk[w].run] IN
    Holds(w) =>
        /\ wk[w].at \in Reviewing \cup {"record"}
              => row.state = "running" /\ row.payload < row.attempts
        /\ wk[w].at = "requeue" => row.state = "running"
        /\ wk[w].at = "requeue_post" => row.payload # 0

KInv ==
    /\ \A r \in Runs : rows[r].payload <= rows[r].attempts
    /\ \A w \in Workers : Recorded(w) /\ Fresh(w)

(* What is left of a row to the processes that do not act.                 *)
Left(r, actor) ==
    /\ rows'[r].payload <= rows'[r].attempts
    /\ \/ rows'[r].payload = rows[r].payload /\ rows'[r].sha = rows[r].sha
       \/ rows'[r].payload > rows[r].payload
       \/ rows[r].state = "absent"
    /\ \A v \in Workers \ {actor} : rows'[r].worker = v =>
            /\ rows[r].worker = v
            /\ rows'[r].state = rows[r].state
            /\ rows'[r].payload = rows[r].payload
            /\ rows'[r].attempts = rows[r].attempts

LEMMA OthersStay ==
    ASSUME IInv, KInv, NEW actor, \A r \in Runs : Left(r, actor),
           rows' \in Table,
           NEW v \in Workers \ {actor},
           wk'[v].at = wk[v].at, wk'[v].run = wk[v].run,
           wk'[v].payload = wk[v].payload, wk'[v].sha = wk[v].sha
    PROVE  Recorded(v)' /\ Fresh(v)'
<1>1. /\ wk[v] \in Process /\ JobOK(v) /\ Recorded(v) /\ Fresh(v)
      /\ rows \in Table
  BY DEF IInv, KInv, Typed
<1>2. wk[v].at \in Working => wk[v].run \in Runs /\ rows[wk[v].run].state # "absent"
  BY <1>1 DEF JobOK, Present
<1>3. Delivering \subseteq Working
  BY DEF Delivering, Working, Writing
<1>4. Recorded(v)'
  <2> SUFFICES ASSUME wk[v].at \in Delivering
               PROVE  /\ wk[v].payload <= rows'[wk[v].run].payload
                      /\ wk[v].payload = rows'[wk[v].run].payload
                            => wk[v].sha = rows'[wk[v].run].sha
    BY DEF Recorded
  <2> DEFINE r == wk[v].run
  <2>1. r \in Runs /\ Left(r, actor) /\ rows[r].state # "absent"
    BY <1>2, <1>3
  <2>2. /\ rows[r].payload \in Nat /\ rows'[r].payload \in Nat
        /\ wk[v].payload \in Nat
    BY <1>1, <2>1 DEF Table, Row, Process
  <2> QED BY <1>1, <2>1, <2>2 DEF Recorded, Left
<1>5. Fresh(v)'
  <2> SUFFICES ASSUME Holds(v)' PROVE Fresh(v)'
    BY DEF Fresh
  <2> DEFINE r == wk[v].run
  <2>1. /\ wk[v].at \in Working /\ rows'[r].worker = v
    BY DEF Holds, Owns
  <2>2. r \in Runs /\ Left(r, actor)
    BY <1>2, <2>1
  <2>3. /\ Holds(v) /\ rows'[r].state = rows[r].state
        /\ rows'[r].payload = rows[r].payload
        /\ rows'[r].attempts = rows[r].attempts
    BY <2>1, <2>2 DEF Left, Holds, Owns
  <2> QED BY <1>1, <2>3 DEF Fresh
<1> QED BY <1>4, <1>5

LEMMA RowsLeft ==
    ASSUME IInv, KInv, NEW r \in Runs,
           Quiet(r) \/ Retired(r) \/ Inserted(r)
    PROVE  \A actor : Left(r, actor)
<1>1. /\ rows[r] \in Row /\ rows[r].payload <= rows[r].attempts
  BY DEF IInv, KInv, Typed, Table
<1>2. \A v \in Workers : v # NoWorker
  BY WorkersAssumption
<1> QED BY <1>1, <1>2 DEF Quiet, Retired, Inserted, SameResult, Left, Absent

LEMMA OwnRowLeft ==
    ASSUME IInv, KInv, NEW w \in Workers, NEW r \in Runs,
           Claimed(r, w) \/ Written(r, w)
    PROVE  Left(r, w)
<1>1. /\ rows[r] \in Row /\ rows[r].payload <= rows[r].attempts
      /\ rows[r].payload \in Nat /\ rows[r].attempts \in Nat
      /\ HeldOK(w) /\ Fresh(w)
  BY DEF IInv, KInv, Typed, Table, Row
<1>2. \A v \in Workers \ {w} : v # NoWorker /\ v # w
  BY WorkersAssumption
<1>3. CASE Claimed(r, w)
  BY <1>1, <1>2, <1>3 DEF Claimed, SameResult, Left
<1>4. CASE Written(r, w)
  <2>1. CASE SameResult(r)
    BY <1>1, <1>2, <1>4, <2>1 DEF Written, SameResult, Left
  <2>2. CASE wk[w].at = "record" /\ rows'[r].payload = wk[w].attempt
    <3>1. Holds(w)
      BY <1>4, <2>2 DEF Written, Holds, Working, Writing
    <3>2. wk[w].attempt = rows[r].attempts /\ rows[r].payload < rows[r].attempts
      BY <1>1, <1>4, <2>2, <3>1 DEF HeldOK, Fresh, Written
    <3> QED BY <1>1, <1>2, <1>4, <2>2, <3>2 DEF Written, Left
  <2> QED BY <1>4, <2>1, <2>2 DEF Written
<1> QED BY <1>3, <1>4

(* A process that is done, or that only has to close its run.              *)
LEMMA AsideKeeps ==
    ASSUME NEW w \in Workers,
           wk'[w].at \in {"down", "reap", "claim", "close"}
    PROVE  Recorded(w)' /\ Fresh(w)'
  BY DEF Recorded, Fresh, Delivering, Posting, Reviewing

LEMMA HandlersStand ==
    ASSUME NEW p
    PROVE  /\ Idle.at = "reap" /\ Down.at = "down"
           /\ [Idle EXCEPT !.at = "claim"].at = "claim"
           /\ Failed(p).at = "close" /\ Cancelled(p).at = "close"
           /\ Unexpected(p).at \in {"down", "close"}
           /\ \A step \in {"requeue", "requeue_post"} :
                Handler(p, step).at = step /\ Handler(p, step).run = p.run
           /\ TransientReview(p) \in {Handler(p, "requeue"), Failed(p)}
           /\ TransientPost(p) \in {Handler(p, "requeue_post"), Failed(p)}
  BY DEF Idle, Down, Handler, Failed, Cancelled, Unexpected, TransientReview,
     TransientPost

(* A step of the main loop that leaves the table.                          *)
LEMMA QuietLoopKeeps ==
    ASSUME IInv, KInv, NEW w \in Workers,
           \/ ReadHead(w) \/ DiffTooLarge(w) \/ CloneHead(w)
           \/ FinishReview(w) \/ ReviewFails(w) \/ PassCancelCheck(w)
           \/ CheckMarker(w) \/ PostReview(w) \/ PostFails(w)
    PROVE  Recorded(w)' /\ Fresh(w)'
<1>1. /\ wk \in [Workers -> Process] /\ wk[w] \in Process
      /\ JobOK(w) /\ HeldOK(w) /\ Recorded(w) /\ Fresh(w)
  BY DEF IInv, KInv, Typed
<1> DEFINE again == Handler(wk[w], "requeue")
           due == Handler(wk[w], "requeue_post")
           failed == Failed(wk[w])
           cancelled == Cancelled(wk[w])
<1>0. /\ Idle.at = "reap" /\ failed.at = "close" /\ cancelled.at = "close"
      /\ Unexpected(wk[w]).at \in {"down", "close"}
      /\ again.at = "requeue" /\ again.run = wk[w].run
      /\ due.at = "requeue_post" /\ due.run = wk[w].run
      /\ TransientReview(wk[w]) \in {again, failed}
      /\ TransientPost(wk[w]) \in {due, failed}
  BY HandlersStand
<1> HIDE DEF again, due, failed, cancelled
<1>2. rows' = rows
  BY DEF ReadHead, DiffTooLarge, CloneHead, FinishReview, ReviewFails,
     PassCancelCheck, Call, CheckMarker, PostReview, PostFails
<1>3. CASE wk'[w].at \in {"down", "reap", "claim", "close"}
  BY <1>3, AsideKeeps
<1>4. ASSUME wk[w].at \in Reviewing,
             wk'[w].at \in Reviewing \cup {"record", "requeue"},
             wk'[w].run = wk[w].run
      PROVE  Recorded(w)' /\ Fresh(w)'
  <2>1. Recorded(w)'
    BY <1>4 DEF Recorded, Delivering, Posting, Reviewing
  <2>2. Holds(w)' => Holds(w)
    BY <1>2, <1>4 DEF Holds, Owns, Working
  <2> QED BY <1>1, <1>2, <1>4, <2>1, <2>2 DEF Fresh, Reviewing
<1>5. CASE ReadHead(w) \/ DiffTooLarge(w) \/ FinishReview(w)
  <2>1. /\ wk[w].at \in {"head", "clone", "finish"}
        /\ wk'[w].at \in {"clone", "record"} /\ wk'[w].run = wk[w].run
    BY <1>1, <1>5 DEF ReadHead, DiffTooLarge, FinishReview, Process
  <2> QED BY <1>4, <2>1 DEF Reviewing
<1>6. CASE CloneHead(w)
  <2>1. wk[w].at = "clone" /\ wk'[w] \in {[wk[w] EXCEPT !.at = "graph"], failed}
    BY <1>1, <1>6 DEF CloneHead, failed
  <2>2. CASE wk'[w] = [wk[w] EXCEPT !.at = "graph"]
    BY <1>1, <1>4, <2>1, <2>2 DEF Reviewing, Process
  <2> QED BY <1>0, <1>3, <2>1, <2>2
<1>7. CASE ReviewFails(w)
  <2>1. /\ wk[w].at \in Reviewing
        /\ wk'[w] \in {again, failed}
    BY <1>0, <1>1, <1>7 DEF ReviewFails, failed
  <2>2. CASE wk'[w] = again
    BY <1>0, <1>4, <2>1, <2>2
  <2> QED BY <1>0, <1>3, <2>1, <2>2
<1>8. CASE PassCancelCheck(w)
  <2>1. /\ wk[w].at = "graph"
        /\ wk'[w] \in {Idle, cancelled, failed,
                        [wk[w] EXCEPT !.at = "finish"]}
    BY <1>1, <1>8 DEF PassCancelCheck, Call, Becomes, failed, cancelled
  <2>2. CASE wk'[w] = [wk[w] EXCEPT !.at = "finish"]
    BY <1>1, <1>4, <2>1, <2>2 DEF Reviewing, Process
  <2> QED BY <1>0, <1>3, <2>1, <2>2
<1>9. CASE CheckMarker(w) \/ PostReview(w)
  <2>1. /\ wk[w].at \in Posting /\ wk'[w].at \in {"post", "settle"}
        /\ wk'[w].run = wk[w].run /\ wk'[w].payload = wk[w].payload
        /\ wk'[w].sha = wk[w].sha
    BY <1>1, <1>9 DEF CheckMarker, PostReview, Process, Posting
  <2>2. Recorded(w)'
    BY <1>1, <1>2, <2>1 DEF Recorded, Delivering
  <2>3. Fresh(w)'
    BY <2>1 DEF Fresh, Reviewing
  <2> QED BY <2>2, <2>3
<1>10. CASE PostFails(w)
  <2>1. /\ wk[w].at \in Posting
        /\ wk'[w] \in {due, failed, Unexpected(wk[w])}
    <3>1. PICK handled \in {TransientPost(wk[w]), Unexpected(wk[w]), failed} :
            wk' = [wk EXCEPT ![w] = handled]
      BY <1>10 DEF PostFails, Becomes, failed
    <3> QED BY <1>0, <1>1, <1>10, <3>1 DEF PostFails
  <2>2. CASE wk'[w] = due
    <3>1. wk'[w].at = "requeue_post" /\ wk'[w].run = wk[w].run
      BY <1>0, <2>2
    <3>2. Recorded(w)'
      BY <3>1 DEF Recorded, Delivering, Posting
    <3>3. Holds(w)' => Holds(w)
      BY <1>2, <2>1, <3>1 DEF Holds, Owns, Working
    <3>4. Holds(w) => rows[wk[w].run].payload # 0
      BY <1>1, <2>1 DEF HeldOK, JobOK, Delivering
    <3> QED BY <1>2, <3>1, <3>2, <3>3, <3>4 DEF Fresh, Reviewing
  <2> QED BY <1>0, <1>3, <2>1, <2>2
<1> QED BY <1>5, <1>6, <1>7, <1>8, <1>9, <1>10

LEMMA ClaimKeeps ==
    ASSUME IInv, KInv, NEW w \in Workers, ClaimRun(w)
    PROVE  Recorded(w)' /\ Fresh(w)'
<1>1. /\ wk \in [Workers -> Process] /\ rows \in Table
  BY DEF IInv, Typed
<1>2. CASE wk'[w] = Idle
  BY <1>2, AsideKeeps, HandlersStand
<1>3. PICK skipped \in SUBSET LockedByOthers(w) :
        LET eligible == Claimable(rows) \ skipped
            id == Oldest(eligible)
            row == [id |-> id, prior |-> rows[id].state, sha |-> rows[id].sha,
                    attempts |-> rows[id].attempts + 1,
                    payload |-> rows[id].payload,
                    degraded |-> rows[id].degraded]
        IN \/ wk'[w] = Idle
           \/ /\ eligible # {} /\ rows' = Claim(rows, id, w)
              /\ wk'[w] = Take(row)
  BY <1>1 DEF ClaimRun, Call, Becomes
<1> DEFINE eligible == Claimable(rows) \ skipped
           id == Oldest(eligible)
           row == [id |-> id, prior |-> rows[id].state, sha |-> rows[id].sha,
                   attempts |-> rows[id].attempts + 1,
                   payload |-> rows[id].payload,
                   degraded |-> rows[id].degraded]
<1>4. CASE /\ eligible # {} /\ rows' = Claim(rows, id, w)
           /\ wk'[w] = Take(row)
  <2>1. id \in Claimable(rows)
    <3>1. eligible \subseteq Nat
      BY DEF Claimable, Runs
    <3> QED BY <1>4, <3>1, OldestIsOne
  <2> HIDE DEF id
  <2>2. /\ id \in Runs
        /\ rows'[id].state = "running" /\ rows'[id].worker = w
        /\ rows'[id].attempts = rows[id].attempts + 1
        /\ rows'[id].payload = rows[id].payload
        /\ rows'[id].sha = rows[id].sha
        /\ rows[id].payload \in Nat /\ rows[id].attempts \in Nat
        /\ rows[id].payload <= rows[id].attempts
    BY <1>1, <1>4, <2>1, ClaimRow DEF Table, Row, KInv
  <2>3. \/ /\ wk'[w].at = "head" /\ wk'[w].run = id
        \/ /\ wk'[w].at = "check" /\ wk'[w].run = id
           /\ wk'[w].payload = rows[id].payload /\ wk'[w].sha = rows[id].sha
        \/ wk'[w].at = "close"
    <3> DEFINE claimed == [Idle EXCEPT !.run = id,
                                       !.attempt = rows[id].attempts + 1]
               repost == [claimed EXCEPT !.repost = TRUE, !.sha = rows[id].sha,
                              !.payload = rows[id].payload,
                              !.degraded = rows[id].degraded]
               fresh == [claimed EXCEPT !.at = "head", !.beating = TRUE]
               due == [repost EXCEPT !.at = "check"]
    <3>1. wk'[w] \in {fresh, due, Failed(repost)}
      BY <1>4 DEF Take
    <3>2. fresh.at = "head" /\ fresh.run = id
      BY DEF Idle
    <3>3. /\ due.at = "check" /\ due.run = id
          /\ due.payload = rows[id].payload /\ due.sha = rows[id].sha
      BY DEF Idle
    <3>4. Failed(repost).at = "close"
      BY HandlersStand
    <3> HIDE DEF fresh, due, repost
    <3> QED BY <3>1, <3>2, <3>3, <3>4
  <2>4. CASE wk'[w].at = "head" /\ wk'[w].run = id
    BY <2>2, <2>4 DEF Recorded, Fresh, Delivering, Posting, Reviewing
  <2>5. CASE /\ wk'[w].at = "check" /\ wk'[w].run = id
             /\ wk'[w].payload = rows[id].payload /\ wk'[w].sha = rows[id].sha
    BY <2>2, <2>5 DEF Recorded, Fresh, Delivering, Posting, Reviewing
  <2> QED BY <2>3, <2>4, <2>5, AsideKeeps
<1> QED BY <1>2, <1>3, <1>4

LEMMA PersistKeeps ==
    ASSUME IInv, KInv, NEW w \in Workers, PersistResult(w)
    PROVE  Recorded(w)' /\ Fresh(w)'
<1>1. /\ wk \in [Workers -> Process] /\ wk[w] \in Process
      /\ rows \in Table /\ JobOK(w)
  BY DEF IInv, Typed
<1>2. wk[w].at = "record"
  BY DEF PersistResult
<1>3. wk[w].run \in Runs /\ wk[w].payload = wk[w].attempt
  BY <1>1, <1>2 DEF JobOK, Working, Writing, Present
<1> DEFINE at == IF rows[wk[w].run].dry THEN "settle" ELSE "check"
<1>4. \/ wk'[w] \in {Idle, Failed(wk[w])}
      \/ /\ Owns(rows, wk[w].run, w)
         /\ wk'[w] = [wk[w] EXCEPT !.at = at]
         /\ rows' = RecordResult(rows, wk[w].run, w, wk[w].attempt,
                                 wk[w].sha, wk[w].degraded)
  BY <1>1 DEF PersistResult, Call, Becomes
<1>5. CASE wk'[w] \in {Idle, Failed(wk[w])}
  BY <1>5, AsideKeeps, HandlersStand
<1>6. CASE /\ Owns(rows, wk[w].run, w)
           /\ wk'[w] = [wk[w] EXCEPT !.at = at]
           /\ rows' = RecordResult(rows, wk[w].run, w, wk[w].attempt,
                                   wk[w].sha, wk[w].degraded)
  <2>1. /\ wk'[w].at \in {"settle", "check"} /\ wk'[w].run = wk[w].run
        /\ wk'[w].payload = wk[w].payload /\ wk'[w].sha = wk[w].sha
    BY <1>1, <1>6 DEF Process
  <2>2. /\ rows'[wk[w].run].payload = wk[w].attempt
        /\ rows'[wk[w].run].sha = wk[w].sha
    BY <1>1, <1>3, <1>6 DEF RecordResult, Table, Row
  <2>3. wk[w].attempt \in Nat
    BY <1>1 DEF Process
  <2> QED BY <1>3, <2>1, <2>2, <2>3
          DEF Recorded, Fresh, Delivering, Posting, Reviewing
<1> QED BY <1>4, <1>5, <1>6

LEMMA MainLoopKeeps ==
    ASSUME IInv, KInv, NEW w \in Workers, MainLoop(w)
    PROVE  Recorded(w)' /\ Fresh(w)'
<1>1. wk \in [Workers -> Process]
  BY DEF IInv, Typed
<1>2. CASE \/ ReapExhausted(w) \/ Settle(w) \/ RequeueRun(w)
           \/ PutPostBack(w) \/ CloseRun(w)
  <2>1. wk'[w] \in {Idle, Down, [Idle EXCEPT !.at = "claim"], Unexpected(wk[w])}
    BY <1>1, <1>2 DEF ReapExhausted, Settle, RequeueRun, PutPostBack, CloseRun,
       Call, Becomes
  <2> QED BY <2>1, AsideKeeps, HandlersStand, ZenonT(30)
<1> QED BY <1>2, QuietLoopKeeps, ClaimKeeps, PersistKeeps DEF MainLoop

LEMMA NextKInv == IInv /\ IInv' /\ KInv /\ [Next]_vars => KInv'
<1> SUFFICES ASSUME IInv, IInv', KInv, [Next]_vars PROVE KInv'
  OBVIOUS
<1>1. /\ rows' \in Table /\ wk \in [Workers -> Process]
  BY DEF IInv, Typed
<1>2. ASSUME NEW w \in Workers, MainLoop(w) PROVE KInv'
  <2>1. \A r \in Runs : Left(r, w)
    BY <1>2, MainLoopRows, RowsLeft, OwnRowLeft
  <2>2. \A v \in Workers \ {w} : wk'[v] = wk[v]
    BY <1>1, <1>2
    DEF MainLoop, ReapExhausted, ClaimRun, ReadHead, DiffTooLarge, CloneHead,
        PassCancelCheck, FinishReview, ReviewFails, PersistResult, CheckMarker,
        PostReview, PostFails, Settle, RequeueRun, PutPostBack, CloseRun, Call,
        Becomes
  <2>3. \A v \in Workers \ {w} : Recorded(v)' /\ Fresh(v)'
    BY <1>1, <2>1, <2>2, OthersStay
  <2>4. Recorded(w)' /\ Fresh(w)'
    BY <1>2, MainLoopKeeps
  <2> QED BY <2>1, <2>3, <2>4 DEF KInv, Left
<1>3. CASE Elsewhere
  <2>1. \A r \in Runs : Left(r, NoWorker)
    BY <1>3, ElsewhereRows, RowsLeft
  <2>2. ASSUME NEW v \in Workers
        PROVE  Recorded(v)' /\ Fresh(v)'
    <3>1. v \in Workers \ {NoWorker}
      BY WorkersAssumption
    <3>2. CASE wk'[v].at \in {"down", "reap", "claim", "close"}
      BY <3>2, AsideKeeps
    <3>3. CASE /\ wk'[v].at = wk[v].at /\ wk'[v].run = wk[v].run
               /\ wk'[v].payload = wk[v].payload /\ wk'[v].sha = wk[v].sha
      BY <1>1, <2>1, <3>1, <3>3, OthersStay
    <3>4. ASSUME NEW w \in Workers, Beat(w)
          PROVE  /\ wk'[v].at = wk[v].at /\ wk'[v].run = wk[v].run
                 /\ wk'[v].payload = wk[v].payload /\ wk'[v].sha = wk[v].sha
      BY <1>1, <3>4 DEF Beat, Process
    <3>5. ASSUME NEW w \in Workers, Crash(w) \/ Restart(w)
          PROVE  wk'[v] = wk[v] \/ wk'[v] \in {Idle, Down}
      BY <1>1, <3>5 DEF Crash, Restart, Becomes
    <3>6. CASE Clock \/ Api \/ Push \/ Reopen \/ UNCHANGED vars
      BY <3>3, <3>6 DEF Clock, LeaseExpires, BackoffElapses, Api, BeginEnqueue,
         CommitEnqueue, CreateReview, CancelRun, Push, Reopen, vars
    <3> QED BY <1>3, <3>2, <3>3, <3>4, <3>5, <3>6, HandlersStand DEF Elsewhere
  <2> QED BY <2>1, <2>2 DEF KInv, Left
<1> QED BY <1>2, <1>3 DEF Next, Elsewhere

LEMMA InitKInv == Init => KInv
<1> SUFFICES ASSUME Init PROVE KInv
  OBVIOUS
<1>1. \A r \in Runs : rows[r].payload <= rows[r].attempts
  BY DEF Init, Absent
<1>2. \A w \in Workers : wk[w].at = "reap"
  BY DEF Init, Idle
<1> QED BY <1>1, <1>2 DEF KInv, Recorded, Fresh, Delivering, Posting, Reviewing

LEMMA KInductive == Spec => [](IInv /\ KInv)
<1>1. IInv /\ KInv /\ [Next]_vars => (IInv /\ KInv)'
  BY NextIInv, NextKInv
<1> QED BY <1>1, InitIInv, InitKInv, PTL DEF Spec

-----------------------------------------------------------------------------
(* The step, seen from outside. *)

LEMMA Phases ==
    /\ Phase("absent") = "none" /\ Phase("queued") = "waiting"
    /\ Phase("running") = "working" /\ Phase("post_pending") = "due"
    /\ Phase("published") = "delivered" /\ Phase("degraded") = "delivered"
    /\ Phase("failed") = "closed" /\ Phase("cancelled") = "closed"
    /\ Phase("superseded") = "closed"
  BY DEF Phase

(* RunLife's moves, of one run. *)
LifeStays(r)    == LifeOf(rows'[r]) = LifeOf(rows[r])
ShownStays(r)   == ShownOf(r)' = ShownOf(r)
CoveredStays(r) == Covered(r)' = Covered(r)

Moves(r) ==
    LET old == LifeOf(rows[r])
        new == LifeOf(rows'[r])
    IN \/ /\ old = Job!Unborn /\ new = Job!Life("waiting", 0, 0)
          /\ ShownStays(r)
       \/ /\ old.phase \in {"waiting", "working", "due"}
          /\ old.tries < MaxAttempts
          /\ new = Job!Life("working", old.tries + 1, old.review)
          /\ ShownStays(r) /\ CoveredStays(r)
       \/ /\ old.phase = "working"
          /\ new = Job!Life("due", old.tries, old.tries)
          /\ ShownStays(r)
       \/ /\ old.phase = "working"
          /\ \/ new = Job!Life("waiting", old.tries, old.review)
             \/ old.review # 0 /\ new = Job!Life("due", old.tries, old.review)
          /\ ShownStays(r) /\ CoveredStays(r)
       \/ /\ new = old
          /\ \E review \in 1..old.review :
                /\ ShownOf(r)' = ShownOf(r) \cup {review}
                /\ review = old.review => Covered(r)'
          /\ Covered(r) => Covered(r)'
       \/ /\ old.phase \in {"working", "due"}
          /\ old.review # 0 /\ Covered(r)
          /\ new = Job!Life("delivered", old.tries, old.review)
          /\ ShownStays(r) /\ CoveredStays(r)
       \/ /\ old.phase \in {"waiting", "working", "due", "delivered"}
          /\ new = Job!Life("closed", old.tries, old.review)
          /\ ShownStays(r) /\ CoveredStays(r)
       \/ /\ new = old /\ ShownStays(r)
          /\ Covered(r) => Covered(r)'

LEMMA MovesAreMoves ==
    ASSUME NEW r \in Runs, Moves(r)
    PROVE  Job!Move(r)
<1> DEFINE life    == [x \in Runs |-> LifeOf(rows[x])]
           shown   == [x \in Runs |-> ShownOf(x)]
           covered == [x \in Runs |-> Covered(x)]
           old     == LifeOf(rows[r])
           new     == LifeOf(rows'[r])
<1>1. life[r] = old /\ life'[r] = new
  OBVIOUS
<1>2. shown[r] = ShownOf(r) /\ shown'[r] = ShownOf(r)'
  BY DEF ShownOf
<1>3. covered[r] = Covered(r) /\ covered'[r] = Covered(r)'
  BY DEF Covered, Reviewed
<1>4. /\ old = Job!Life(old.phase, old.tries, old.review)
      /\ new = Job!Life(new.phase, new.tries, new.review)
  BY DEF LifeOf, Job!Life
<1> HIDE DEF life, shown, covered, old, new
<1>5. ASSUME old = Job!Unborn, new = Job!Life("waiting", 0, 0), ShownStays(r)
      PROVE  Job!Accept(r)
  BY <1>1, <1>2, <1>5 DEF Job!Accept, ShownStays, life, shown
<1>6. ASSUME old.phase \in {"waiting", "working", "due"}, old.tries < MaxAttempts,
             new = Job!Life("working", old.tries + 1, old.review),
             ShownStays(r), CoveredStays(r)
      PROVE  Job!Try(r)
  BY <1>1, <1>2, <1>3, <1>6
  DEF Job!Try, Job!In, ShownStays, CoveredStays, life, shown, covered
<1>7. ASSUME old.phase = "working", new = Job!Life("due", old.tries, old.tries),
             ShownStays(r)
      PROVE  Job!Record(r)
  BY <1>1, <1>2, <1>7 DEF Job!Record, Job!In, ShownStays, life, shown
<1>8. ASSUME old.phase = "working",
             \/ new = Job!Life("waiting", old.tries, old.review)
             \/ old.review # 0 /\ new = Job!Life("due", old.tries, old.review),
             ShownStays(r), CoveredStays(r)
      PROVE  Job!PutBack(r)
  BY <1>1, <1>2, <1>3, <1>4, <1>8
  DEF Job!PutBack, Job!In, Job!Life, ShownStays, CoveredStays, life, shown, covered
<1>9. ASSUME new = old,
             \E review \in 1..old.review :
                /\ ShownOf(r)' = ShownOf(r) \cup {review}
                /\ review = old.review => Covered(r)',
             Covered(r) => Covered(r)'
      PROVE  Job!Show(r)
  BY <1>1, <1>2, <1>3, <1>9 DEF Job!Show, life, shown, covered
<1>10. ASSUME old.phase \in {"working", "due"}, old.review # 0, Covered(r),
              new = Job!Life("delivered", old.tries, old.review),
              ShownStays(r), CoveredStays(r)
       PROVE  Job!Deliver(r)
  BY <1>1, <1>2, <1>3, <1>4, <1>10
  DEF Job!Deliver, Job!In, Job!Life, ShownStays, CoveredStays, life, shown, covered
<1>11. ASSUME old.phase \in {"waiting", "working", "due", "delivered"},
              new = Job!Life("closed", old.tries, old.review),
              ShownStays(r), CoveredStays(r)
       PROVE  Job!Close(r)
  BY <1>1, <1>2, <1>3, <1>4, <1>11
  DEF Job!Close, Job!In, Job!Life, ShownStays, CoveredStays, life, shown, covered
<1>12. ASSUME new = old, ShownStays(r), Covered(r) => Covered(r)'
       PROVE  Job!Rest(r)
  BY <1>1, <1>2, <1>3, <1>12 DEF Job!Rest, ShownStays, life, shown, covered
<1> QED
  BY <1>5, <1>6, <1>7, <1>8, <1>9, <1>10, <1>11, <1>12
  DEF Moves, Job!Move, old, new

(* A step that leaves the pull request and moves the row.                  *)
LEMMA RowMoves ==
    ASSUME IInv, KInv, NEW r \in Runs, UNCHANGED landed,
           \/ Quiet(r) \/ Retired(r) \/ Inserted(r)
           \/ \E w \in Workers : Claimed(r, w) \/ Written(r, w)
    PROVE  Moves(r)
<1>1. /\ rows[r] \in Row /\ RowOK(rows[r])
      /\ \A w \in Workers : JobOK(w) /\ HeldOK(w) /\ Fresh(w)
  BY DEF IInv, KInv, Typed, Table
<1>2. ShownStays(r)
  BY DEF ShownStays, ShownOf
<1>3. SameResult(r) => CoveredStays(r)
  BY DEF SameResult, CoveredStays, Covered, Reviewed
<1> DEFINE old == LifeOf(rows[r])
           new == LifeOf(rows'[r])
<1>4. /\ old.phase = Phase(rows[r].state) /\ old.tries = rows[r].attempts
      /\ old.review = rows[r].payload
  BY DEF LifeOf
<1>5. ASSUME NEW phase, NEW tries, NEW review, Phase(rows'[r].state) = phase,
             rows'[r].attempts = tries, rows'[r].payload = review
      PROVE  new = Job!Life(phase, tries, review)
  BY <1>5 DEF LifeOf, Job!Life
<1>6. ASSUME Phase(rows'[r].state) = old.phase,
             rows'[r].attempts = old.tries, rows'[r].payload = old.review
      PROVE  new = old
  BY <1>6 DEF LifeOf
<1> HIDE DEF old, new
<1>7. CASE Quiet(r)
  <2>1. new = old
    BY <1>4, <1>6, <1>7 DEF Quiet, SameResult
  <2> QED
    BY <1>2, <1>3, <1>7, <2>1 DEF Quiet, CoveredStays, Moves, old, new
<1>8. CASE Retired(r)
  <2>1. new = Job!Life("closed", old.tries, old.review)
    BY <1>4, <1>5, <1>8, Phases DEF Retired, SameResult
  <2>2. old.phase \in {"waiting", "working"}
    BY <1>4, <1>8, Phases DEF Retired
  <2> QED
    BY <1>2, <1>3, <1>8, <2>1, <2>2 DEF Retired, Moves, old, new
<1>9. CASE Inserted(r)
  <2>1. new = Job!Life("waiting", 0, 0)
    BY <1>5, <1>9, Phases DEF Inserted
  <2>2. old = Job!Unborn
    BY <1>9, Phases DEF Inserted, Absent, old, LifeOf, Job!Unborn, Job!Life
  <2> QED BY <1>2, <2>1, <2>2 DEF Moves, old, new
<1>10. ASSUME NEW w \in Workers, Claimed(r, w) PROVE Moves(r)
  <2>1. new = Job!Life("working", old.tries + 1, old.review)
    BY <1>4, <1>5, <1>10, Phases DEF Claimed, SameResult
  <2>2. /\ old.phase \in {"waiting", "working", "due"}
        /\ old.tries < MaxAttempts
    BY <1>4, <1>10, Phases DEF Claimed
  <2> QED
    BY <1>2, <1>3, <1>10, <2>1, <2>2 DEF Claimed, Moves, old, new
<1>11. ASSUME NEW w \in Workers, Written(r, w) PROVE Moves(r)
  <2>1. Holds(w) /\ wk[w].run = r
    BY <1>11 DEF Written, Holds, Working, Writing
  <2>2. rows[r].state \in {"running", "post_pending"} \cup Terminal
    BY <1>1, <1>11, OwnedIsPresent, WorkersAssumption
    DEF Written, Owns, RowOK, Row, States, Absent
  <2>3. /\ rows[r].attempts = wk[w].attempt
        /\ rows[r].state \in Terminal
              => wk[w].at = "close" /\ wk[w].ending = "failed"
    BY <1>1, <2>1 DEF HeldOK
  <2>4. /\ rows[r].state \notin Terminal => old.phase \in {"working", "due"}
        /\ rows[r].state \in Terminal => old.phase \in {"delivered", "closed"}
        /\ rows[r].state = "running" => old.phase = "working"
        /\ rows[r].state = "post_pending" => old.phase = "due"
    BY <1>4, <2>2, Phases DEF Terminal
  <2>5. CASE wk[w].at = "record"
    <3>1. rows[r].state = "running"
      BY <1>1, <2>1, <2>5 DEF Fresh
    <3>2. new = Job!Life("due", old.tries, old.tries)
      BY <1>4, <1>5, <1>11, <2>3, <2>5, Phases DEF Written
    <3> QED BY <1>2, <2>4, <3>1, <3>2 DEF Moves, old, new
  <2>6. CASE wk[w].at = "settle"
    <3>1. /\ SameResult(r)
          /\ new = Job!Life("delivered", old.tries, old.review)
      BY <1>4, <1>5, <1>11, <2>6, Phases DEF Written, SameResult
    <3>2. /\ wk[w].payload = rows[r].payload /\ wk[w].payload >= 1
          /\ wk[w].sha = rows[r].sha
          /\ Reviewed(wk[w].sha) \/ rows[r].dry
      BY <1>1, <2>1, <2>6 DEF HeldOK, JobOK, Delivering
    <3>3. old.review # 0 /\ Covered(r)
      BY <1>4, <3>2 DEF Covered
    <3>4. old.phase \in {"working", "due"}
      BY <2>3, <2>4, <2>6
    <3> QED BY <1>2, <1>3, <3>1, <3>3, <3>4 DEF Moves, old, new
  <2>7. CASE wk[w].at = "requeue"
    <3>1. rows[r].state = "running"
      BY <1>1, <2>1, <2>7 DEF Fresh
    <3>2. /\ SameResult(r)
          /\ new = Job!Life("waiting", old.tries, old.review)
      BY <1>4, <1>5, <1>11, <2>7, Phases DEF Written, SameResult
    <3> QED BY <1>2, <1>3, <2>4, <3>1, <3>2 DEF Moves, old, new
  <2>8. CASE wk[w].at = "requeue_post"
    <3>1. /\ SameResult(r) /\ rows'[r].state = "post_pending"
          /\ rows'[r].attempts = rows[r].attempts
      BY <1>11, <2>8 DEF Written
    <3>2. CASE rows[r].state = "running"
      <4>1. old.review # 0
        BY <1>1, <1>4, <2>1, <2>8 DEF Fresh
      <4>2. new = Job!Life("due", old.tries, old.review)
        BY <1>4, <1>5, <3>1, Phases DEF SameResult
      <4> QED BY <1>2, <1>3, <2>4, <3>1, <3>2, <4>1, <4>2 DEF Moves, old, new
    <3>3. CASE rows[r].state = "post_pending"
      <4>1. new = old
        BY <1>4, <1>6, <3>1, <3>3 DEF SameResult
      <4> QED BY <1>2, <1>3, <3>1, <4>1 DEF CoveredStays, Moves, old, new
    <3> QED BY <2>2, <2>3, <2>8, <3>2, <3>3
  <2>9. CASE wk[w].at = "close"
    <3>1. /\ SameResult(r) /\ rows'[r].state \in {"failed", "cancelled"}
          /\ rows'[r].attempts = rows[r].attempts
      BY <1>11, <2>9 DEF Written
    <3>2. CASE old.phase \in {"working", "due", "delivered"}
      <4>1. new = Job!Life("closed", old.tries, old.review)
        BY <1>4, <1>5, <3>1, Phases DEF SameResult
      <4> QED BY <1>2, <1>3, <3>1, <3>2, <4>1 DEF Moves, old, new
    <3>3. CASE old.phase = "closed"
      <4>1. new = old
        BY <1>4, <1>6, <3>1, <3>3, Phases DEF SameResult
      <4> QED BY <1>2, <1>3, <3>1, <4>1 DEF CoveredStays, Moves, old, new
    <3> QED BY <2>4, <3>2, <3>3
  <2> QED BY <1>11, <2>5, <2>6, <2>7, <2>8, <2>9 DEF Written
<1> QED BY <1>7, <1>8, <1>9, <1>10, <1>11

(* A step that may put a review on the pull request.  The process shows    *)
(* what it recorded, or what the row recorded when the process claimed it. *)
LEMMA PostMoves ==
    ASSUME IInv, KInv, NEW w \in Workers, PostReview(w) \/ PostFails(w),
           NEW r \in Runs
    PROVE  Moves(r)
<1>1. /\ rows' = rows /\ wk[w].at \in Posting
      /\ landed' \in {landed, landed \cup {Landing(wk[w])}}
  BY DEF PostReview, PostFails, Posting
<1>2. Quiet(r) /\ LifeOf(rows'[r]) = LifeOf(rows[r])
  BY <1>1, SameRow
<1>3. CASE landed' = landed
  BY <1>2, <1>3, RowMoves
<1>4. CASE landed' = landed \cup {Landing(wk[w])}
  <2> DEFINE review == Landing(wk[w])
  <2>1. /\ review.run = wk[w].run /\ review.payload = wk[w].payload
        /\ review.sha = wk[w].sha
    BY DEF Landing
  <2>2. landed' = landed \cup {review}
    BY <1>4
  <2> HIDE DEF review
  <2>3. Covered(r) => Covered(r)'
    BY <1>1, <1>4 DEF Covered, Reviewed
  <2>4. /\ wk[w].payload \in Nat /\ wk[w].payload >= 1
        /\ wk[w].payload <= rows[wk[w].run].payload
        /\ wk[w].payload = rows[wk[w].run].payload
              => wk[w].sha = rows[wk[w].run].sha
    <3>1. wk[w] \in Process
      BY DEF IInv, Typed
    <3> QED
      BY <1>1, <3>1, BoundsAssumption DEF IInv, KInv, JobOK, Recorded, Delivering, Process
  <2>5. CASE wk[w].run # r
    <3>1. ShownStays(r)
      BY <2>5, <2>1, <2>2 DEF ShownStays, ShownOf
    <3> QED BY <1>2, <2>3, <3>1 DEF Moves
  <2>6. CASE wk[w].run = r
    <3>1. ShownOf(r)' = ShownOf(r) \cup {wk[w].payload}
      BY <2>6, <2>1, <2>2 DEF ShownOf
    <3>2. wk[w].payload = rows[r].payload => Covered(r)'
      BY <1>1, <2>4, <2>6, <2>1, <2>2 DEF Covered, Reviewed
    <3>3. /\ LifeOf(rows[r]).review = rows[r].payload
          /\ wk[w].payload \in 1..LifeOf(rows[r]).review
      <4>1. rows[r].payload \in Nat
        BY DEF IInv, Typed, Table, Row
      <4>2. LifeOf(rows[r]).review = rows[r].payload
        BY DEF LifeOf
      <4> QED BY <2>4, <2>6, <4>1, <4>2
    <3> QED BY <1>2, <2>3, <3>1, <3>2, <3>3 DEF Moves
  <2> QED BY <2>5, <2>6
<1> QED BY <1>1, <1>3, <1>4

LEMMA NextRunMoves ==
    ASSUME IInv, KInv, [Next]_vars, NEW r \in Runs
    PROVE  Moves(r)
<1>1. ASSUME NEW w \in Workers, MainLoop(w) PROVE Moves(r)
  <2>1. CASE PostReview(w) \/ PostFails(w)
    BY <2>1, PostMoves
  <2>2. CASE ~(PostReview(w) \/ PostFails(w))
    <3>1. UNCHANGED landed
      BY <1>1, <2>2
      DEF MainLoop, ReapExhausted, ClaimRun, ReadHead, DiffTooLarge, CloneHead,
          PassCancelCheck, FinishReview, ReviewFails, PersistResult, CheckMarker,
          Settle, RequeueRun, PutPostBack, CloseRun
    <3> QED BY <1>1, <3>1, MainLoopRows, RowMoves
  <2> QED BY <2>1, <2>2
<1>2. CASE Elsewhere
  <2>1. UNCHANGED landed
    BY <1>2
    DEF Elsewhere, Beat, Crash, Restart, Clock, LeaseExpires, BackoffElapses, Api,
        BeginEnqueue, CommitEnqueue, CreateReview, CancelRun, Push, Reopen, vars
  <2> QED BY <1>2, <2>1, ElsewhereRows, RowMoves
<1> QED BY <1>1, <1>2 DEF Next, Elsewhere

LEMMA LifeBegins == Init => Job!Init
<1> SUFFICES ASSUME Init PROVE Job!Init
  OBVIOUS
<1>1. \A r \in Runs : LifeOf(rows[r]) = Job!Unborn
  BY Phases DEF Init, LifeOf, Absent, Job!Unborn, Job!Life
<1>2. \A r \in Runs : ShownOf(r) = {}
  BY DEF Init, ShownOf
<1>3. \A r \in Runs : Covered(r) = FALSE
  BY DEF Init, Covered, Reviewed, Absent
<1> QED BY <1>1, <1>2, <1>3 DEF Job!Init

(* Whoever works on it, dies or is taken over from, a run is one job of    *)
(* RunLife: its review is that of the try that was last when it was        *)
(* recorded (`record_result`), nothing of it is on GitHub that was not     *)
(* recorded first (`post_payload`), it is delivered when there is a review *)
(* of its head to see (`mark_posted`), and it does not come back once it   *)
(* has ended (the claim and the fenced writes).                            *)
THEOREM WorkersImplementRunLife == Spec => RunsAreJobs
<1>1. IInv /\ KInv /\ [Next]_vars => Job!Next
  <2> SUFFICES ASSUME IInv, KInv, [Next]_vars, NEW r \in Runs PROVE Job!Move(r)
    BY DEF Job!Next
  <2> QED BY NextRunMoves, MovesAreMoves
<1>2. Job!Next => [Job!Next]_(Job!vars)
  OBVIOUS
<1> QED
  BY <1>1, <1>2, LifeBegins, KInductive, PTL DEF Spec, RunsAreJobs, Job!Spec

-----------------------------------------------------------------------------
(* Coalescing: what a delivery that was accepted leaves of older work. *)

(* Work without a review, for another head, is past its first attempt or   *)
(* is flagged.  Putting a run back and claiming it again keep it so.       *)
Spent(row, sha) ==
    /\ row.state \in {"queued", "running"} /\ row.payload = 0
    /\ row.sha # sha /\ ~row.cancel
    => row.attempts > IF row.state = "queued" THEN 0 ELSE 1

(* Rows of a webhook.  An operator's row may be inserted while a delivery  *)
(* is being accepted, between its two retirements, and escape both.        *)
Webhooked(r) == ~Operator \/ rows[r].delivery # 0

CInv ==
    /\ \A r \in Runs : rows[r].delivery \in 0..Len(hooks)
    /\ \A r \in Runs : rows[r].state = "post_pending" => rows[r].payload # 0
    /\ \A r, n \in Present(rows) :
          Webhooked(r) /\ r < n /\ rows[n].delivery # 0
              => Spent(rows[r], hooks[rows[n].delivery])
    /\ retiring # 0 =>
          \A r \in Present(rows) :
              Webhooked(r) /\ rows[r].state = "queued"
                  => Spent(rows[r], hooks[retiring])

(* Neither who asked for a row nor a cancel flag is ever taken back.       *)
Marked(r) ==
    /\ rows'[r].delivery = rows[r].delivery
    /\ rows[r].cancel => rows'[r].cancel

(* The writes of a process leave the delivery and the flag of each row.    *)
LEMMA WritesKeepMarks ==
    ASSUME NEW table \in Table, NEW id, NEW w, NEW state,
           NEW attempt, NEW sha, NEW mark, NEW r \in Runs,
           NEW new \in {RecordResult(table, id, w, attempt, sha, mark),
                        MarkPosted(table, id, w, state, mark),
                        PutBack(table, id, w, state), Mark(table, id, w, state)}
    PROVE  new[r].delivery = table[r].delivery /\ new[r].cancel = table[r].cancel
<1> DEFINE row == table[r]
<1>1. row \in Row
  BY DEF Table
<1>2. CASE new[r] = row
  BY <1>2
<1>3. CASE new = RecordResult(table, id, w, attempt, sha, mark)
  <2>1. \/ new[r] = row
        \/ new[r] = [row EXCEPT !.state = "post_pending", !.sha = sha,
                                !.payload = attempt, !.degraded = mark,
                                !.flagged = FALSE]
    BY <1>3 DEF RecordResult, Table
  <2> HIDE DEF row
  <2> QED BY <1>1, <1>2, <2>1 DEF Row, row
<1>4. CASE new = MarkPosted(table, id, w, state, mark)
  <2>1. \/ new[r] = row
        \/ new[r] = [row EXCEPT !.state = state, !.parked = FALSE,
                                !.flagged = @ \/ mark]
    BY <1>4 DEF MarkPosted, Table
  <2> QED BY <1>1, <1>2, <2>1 DEF Row
<1>5. CASE new = PutBack(table, id, w, state)
  <2>1. \/ new[r] = row
        \/ new[r] = [row EXCEPT !.state = state, !.lease = "none",
                                !.worker = NoWorker, !.parked = TRUE]
    BY <1>5 DEF PutBack, Table
  <2> QED BY <1>1, <1>2, <2>1 DEF Row
<1>6. CASE new = Mark(table, id, w, state)
  <2>1. \/ new[r] = row
        \/ new[r] = [row EXCEPT !.state = state,
                                !.degraded = @ \/ state = "degraded"]
    BY <1>6 DEF Mark, Table
  <2> QED BY <1>1, <1>2, <2>1 DEF Row
<1> QED BY <1>3, <1>4, <1>5, <1>6

LEMMA MainLoopMarks ==
    ASSUME IInv, NEW w \in Workers, MainLoop(w), NEW r \in Runs
    PROVE  Marked(r)
<1>1. rows \in Table /\ rows[r] \in Row
  BY DEF IInv, Typed, Table
<1>2. CASE rows' = rows
  BY <1>2 DEF Marked
<1>3. ASSUME NEW id, rows' = Claim(rows, id, w) PROVE Marked(r)
  BY <1>1, <1>3 DEF Claim, Table, Row, Marked
<1>4. CASE ReapExhausted(w)
  <2>1. rows' = rows \/ rows' = Reap(rows)
    BY <1>4 DEF ReapExhausted, Call
  <2>2. CASE rows' = Reap(rows)
    BY <1>1, <2>2 DEF Reap, Row, Marked
  <2> QED BY <1>2, <2>1, <2>2
<1>5. CASE ClaimRun(w)
  <2>1. \E id : rows' = rows \/ rows' = Claim(rows, id, w)
    BY <1>5 DEF ClaimRun, Call
  <2> QED BY <1>2, <1>3, <2>1
<1>6. CASE \/ ReadHead(w) \/ DiffTooLarge(w) \/ CloneHead(w)
           \/ FinishReview(w) \/ ReviewFails(w) \/ PassCancelCheck(w)
           \/ CheckMarker(w) \/ PostReview(w) \/ PostFails(w)
  <2>1. rows' = rows
    BY <1>6 DEF ReadHead, DiffTooLarge, CloneHead, FinishReview, ReviewFails,
       PassCancelCheck, Call, CheckMarker, PostReview, PostFails
  <2> QED BY <1>2, <2>1
<1>7. CASE PersistResult(w)
  <2>1. rows' \in {rows, RecordResult(rows, wk[w].run, w, wk[w].attempt,
                                      wk[w].sha, wk[w].degraded)}
    BY <1>7 DEF PersistResult, Call
  <2> QED BY <1>1, <1>2, <2>1, WritesKeepMarks DEF Marked
<1>8. CASE Settle(w)
  <2>1. PICK state : rows' \in {rows, MarkPosted(rows, wk[w].run, w, state,
                                                 wk[w].posted)}
    BY <1>8 DEF Settle, Call
  <2> QED BY <1>1, <1>2, <2>1, WritesKeepMarks DEF Marked
<1>9. CASE RequeueRun(w) \/ PutPostBack(w)
  <2>1. rows' \in {rows, PutBack(rows, wk[w].run, w, "queued"),
                   PutBack(rows, wk[w].run, w, "post_pending")}
    BY <1>9 DEF RequeueRun, PutPostBack, Call, Requeue, RequeuePost
  <2> QED BY <1>1, <1>2, <2>1, WritesKeepMarks DEF Marked
<1>10. CASE CloseRun(w)
  <2>1. rows' \in {rows, Mark(rows, wk[w].run, w, wk[w].ending)}
    BY <1>10 DEF CloseRun, Call
  <2> QED BY <1>1, <1>2, <2>1, WritesKeepMarks DEF Marked
<1> QED BY <1>4, <1>5, <1>6, <1>7, <1>8, <1>9, <1>10 DEF MainLoop

LEMMA ElsewhereMarks ==
    ASSUME IInv, Elsewhere, NEW r \in Present(rows)
    PROVE  Marked(r)
<1>1. rows \in Table /\ rows[r] \in Row /\ r \in Runs /\ Contiguous
  BY DEF IInv, Typed, Table, Present
<1>2. ASSUME NEW w \in Workers, Beat(w) \/ Crash(w) \/ Restart(w)
      PROVE  Marked(r)
  <2>1. rows' = rows \/ rows' = Heartbeat(rows, wk[w].run, w)
    BY <1>2 DEF Beat, Crash, Restart
  <2> QED BY <1>1, <2>1 DEF Heartbeat, Table, Row, Marked
<1>3. CASE Clock
  BY <1>1, <1>3 DEF Clock, LeaseExpires, BackoffElapses, Table, Row, Marked
<1>4. ASSUME NEW d \in DOMAIN hooks, BeginEnqueue(d) PROVE Marked(r)
  BY <1>1, <1>4 DEF BeginEnqueue, Supersede, Row, Marked
<1>5. NextId \in Runs => r # NextId
  BY <1>1, NextIdIsFree DEF Present
<1>6. CASE CommitEnqueue
  BY <1>1, <1>5, <1>6
  DEF CommitEnqueue, Enqueue, InsertQueued, CancelRunning, Table, Row, Marked
<1>7. ASSUME NEW dry \in BOOLEAN, CreateReview(dry) PROVE Marked(r)
  BY <1>1, <1>5, <1>7 DEF CreateReview, InsertQueued, Table, Marked
<1>8. ASSUME NEW q \in Runs, CancelRun(q) PROVE Marked(r)
  BY <1>1, <1>8 DEF CancelRun, SetCancel, Table, Row, Marked
<1>9. CASE Push \/ Reopen \/ UNCHANGED vars
  BY <1>9 DEF Push, Reopen, vars, Marked
<1> QED BY <1>2, <1>3, <1>4, <1>6, <1>7, <1>8, <1>9 DEF Elsewhere, Api

LEMMA SpentStays ==
    ASSUME IInv, KInv, CInv, NEW r \in Present(rows), Marked(r),
           \/ Quiet(r) \/ Retired(r)
           \/ \E w \in Workers : Claimed(r, w) \/ Written(r, w)
    PROVE  /\ r \in Present(rows)' /\ Webhooked(r)' = Webhooked(r)
           /\ \A sha : Spent(rows[r], sha) => Spent(rows'[r], sha)
           /\ rows'[r].state = "queued" =>
                 \/ rows[r].state = "queued"
                 \/ rows'[r].attempts > 0
           /\ rows'[r].state = "post_pending" => rows'[r].payload # 0
<1>1. /\ r \in Runs /\ rows[r] \in Row /\ RowOK(rows[r])
      /\ rows[r].attempts \in Nat /\ rows[r].state # "absent"
      /\ \A w \in Workers : JobOK(w) /\ HeldOK(w) /\ Fresh(w) /\ wk[w] \in Process
  BY DEF IInv, KInv, Typed, Table, Row, Present
<1>2. Webhooked(r)' = Webhooked(r)
  BY DEF Webhooked, Marked
<1>3. CASE Quiet(r) \/ Retired(r)
  BY <1>1, <1>2, <1>3
  DEF CInv, Quiet, Retired, SameResult, Present, Marked, Spent
<1>4. ASSUME NEW w \in Workers, Claimed(r, w)
      PROVE  /\ rows'[r].state = "running"
             /\ \A sha : Spent(rows[r], sha) => Spent(rows'[r], sha)
  <2>1. rows[r].state = "post_pending" => rows[r].payload # 0
    BY <1>1 DEF CInv
  <2> QED BY <1>1, <1>4, <2>1 DEF Claimed, SameResult, Marked, Spent
<1>5. ASSUME NEW w \in Workers, Written(r, w)
      PROVE  /\ rows'[r].state # "absent"
             /\ \A sha : Spent(rows[r], sha) => Spent(rows'[r], sha)
             /\ rows'[r].state = "queued" => rows'[r].attempts > 0
             /\ rows'[r].state = "post_pending" => rows'[r].payload # 0
  <2>0. /\ Holds(w) \/ wk[w].at = "settle" \/ wk[w].at = "close"
        /\ wk[w].run = r
    BY <1>5 DEF Written, Holds, Working, Writing
  <2>1. CASE wk[w].at = "requeue" /\ rows'[r].state = "queued" /\ SameResult(r)
    <3>1. Holds(w) /\ wk[w].run = r
      BY <1>5, <2>1 DEF Written, Holds, Working, Writing
    <3>2. rows[r].state = "running"
      BY <1>1, <2>1, <3>1 DEF Fresh
    <3>3. rows[r].attempts = wk[w].attempt /\ wk[w].attempt >= 1
      BY <1>1, <3>1 DEF HeldOK, JobOK, Holds
    <3>4. rows'[r].attempts = rows[r].attempts
      BY <1>5 DEF Written
    <3> QED BY <1>1, <2>1, <3>2, <3>3, <3>4 DEF SameResult, Marked, Spent
  <2>2. CASE /\ rows'[r].state \notin {"queued", "running", "absent"}
             /\ rows'[r].state = "post_pending" => rows'[r].payload # 0
    BY <2>2 DEF Spent
  <2>3. wk[w].at = "requeue_post" => rows[r].payload # 0
    BY <1>1, <2>0 DEF Fresh
  <2>4. wk[w].at = "record" => wk[w].attempt # 0
    BY <1>1 DEF JobOK, Working, Writing
  <2> QED BY <1>5, <2>1, <2>2, <2>3, <2>4 DEF Written, SameResult
<1> QED BY <1>1, <1>2, <1>3, <1>4, <1>5 DEF Present

(* A step that inserts no row and opens no transaction.                    *)
LEMMA SpentKeeps ==
    ASSUME IInv, IInv', KInv, CInv,
           \A r \in Present(rows) : Marked(r),
           \A r \in Runs :
              \/ Quiet(r) \/ Retired(r)
              \/ \E w \in Workers : Claimed(r, w) \/ Written(r, w),
           retiring' \in {retiring, 0},
           Len(hooks) <= Len(hooks)',
           \A d \in 1..Len(hooks) : hooks'[d] = hooks[d]
    PROVE  CInv'
<1>1. ASSUME NEW r \in Runs, rows[r].state = "absent"
      PROVE  rows'[r].state = "absent" /\ rows'[r].delivery = 0
  <2>1. RowOK(rows[r])
    BY DEF IInv
  <2>2. rows[r] = Absent
    BY <1>1, <2>1 DEF RowOK
  <2>3. rows'[r].state = "absent"
    BY <2>2, WorkersAssumption DEF Absent, Quiet, Retired, Claimed, Written, Owns
  <2>4. RowOK(rows[r])'
    BY DEF IInv
  <2> QED BY <2>3, <2>4 DEF RowOK, Absent
<1>2. Present(rows)' = Present(rows)
  BY <1>1, SpentStays DEF Present
<1>3. /\ retiring \in 0..Len(hooks) /\ Len(hooks) \in Nat /\ Len(hooks)' \in Nat
      /\ \A r \in Runs : rows[r].delivery \in 0..Len(hooks)
      /\ Present(rows) \subseteq Runs
  BY DEF IInv, Typed, World, CInv, Present
<1>4. \A r \in Runs : rows'[r].delivery \in 0..Len(hooks)'
  BY <1>1, <1>3 DEF Marked, Present
<1>5. \A r \in Runs : rows'[r].state = "post_pending" => rows'[r].payload # 0
  BY <1>1, SpentStays DEF Present
<1>6. ASSUME NEW r \in Present(rows), NEW n \in Present(rows),
             Webhooked(r)', r < n, rows'[n].delivery # 0
      PROVE  Spent(rows'[r], hooks'[rows'[n].delivery])
  <2>1. Webhooked(r) /\ \A sha : Spent(rows[r], sha) => Spent(rows'[r], sha)
    BY <1>3, <1>6, SpentStays
  <2>2. rows'[n].delivery = rows[n].delivery
    BY DEF Marked
  <2>3. hooks'[rows'[n].delivery] = hooks[rows[n].delivery]
    BY <1>3, <1>6, <2>2
  <2>4. Spent(rows[r], hooks[rows[n].delivery])
    BY <1>6, <2>1, <2>2 DEF CInv
  <2> QED BY <2>1, <2>3, <2>4
<1>7. ASSUME retiring' # 0, NEW r \in Present(rows),
             Webhooked(r)', rows'[r].state = "queued"
      PROVE  Spent(rows'[r], hooks'[retiring'])
  <2>1. /\ Webhooked(r) /\ \A sha : Spent(rows[r], sha) => Spent(rows'[r], sha)
        /\ rows[r].state = "queued" \/ rows'[r].attempts > 0
    BY <1>3, <1>7, SpentStays
  <2>2. retiring' = retiring /\ hooks'[retiring'] = hooks[retiring]
    BY <1>3, <1>7
  <2>3. CASE rows[r].state = "queued"
    BY <1>7, <2>1, <2>2, <2>3 DEF CInv
  <2>4. CASE rows'[r].attempts > 0
    BY <1>7, <2>4 DEF Spent
  <2> QED BY <2>1, <2>3, <2>4
<1> QED BY <1>2, <1>4, <1>5, <1>6, <1>7 DEF CInv

(* The first retirement leaves no queued row of another head.              *)
LEMMA BeginSpends ==
    ASSUME IInv, IInv', KInv, CInv, NEW d \in DOMAIN hooks, BeginEnqueue(d)
    PROVE  CInv'
<1>1. /\ rows' = Supersede(rows, hooks[d]) /\ retiring' = d
      /\ UNCHANGED hooks /\ retiring = 0
  BY DEF BeginEnqueue
<1>2. Elsewhere
  BY DEF Elsewhere, Api
<1>3. /\ \A r \in Present(rows) : Marked(r) /\ r \in Runs
      /\ \A r \in Runs : Quiet(r) \/ Retired(r) \/ Inserted(r)
  BY <1>2, ElsewhereMarks, ElsewhereRows DEF Present
<1>4. \A r \in Runs : ~Inserted(r)
  BY <1>1 DEF Inserted, Absent, Supersede
<1>5. ASSUME NEW r \in Present(rows)
      PROVE  /\ r \in Present(rows)' /\ Webhooked(r)' = Webhooked(r)
             /\ \A sha : Spent(rows[r], sha) => Spent(rows'[r], sha)
             /\ rows'[r].state = "post_pending" => rows'[r].payload # 0
             /\ rows'[r].delivery = rows[r].delivery
  BY <1>3, <1>4, SpentStays DEF Marked
<1>6. \A r \in Runs : rows'[r].state = "queued" => rows'[r].sha = hooks[d]
  BY <1>1 DEF Supersede
<1>7. \A r \in Runs : r \notin Present(rows) => rows'[r] = rows[r]
  BY <1>1 DEF Supersede, Present
<1>8. Present(rows)' = Present(rows)
  BY <1>5, <1>7 DEF Present
<1>9. \A r \in Runs : rows'[r].delivery \in 0..Len(hooks)'
  BY <1>1, <1>5, <1>7 DEF CInv
<1>10. \A r \in Runs : rows'[r].state = "post_pending" => rows'[r].payload # 0
  BY <1>5, <1>7 DEF CInv
<1>11. ASSUME NEW r \in Present(rows), NEW n \in Present(rows),
              Webhooked(r)', r < n, rows'[n].delivery # 0
       PROVE  Spent(rows'[r], hooks'[rows'[n].delivery])
  BY <1>1, <1>5, <1>11 DEF CInv
<1>12. \A r \in Present(rows) : rows'[r].state = "queued"
          => Spent(rows'[r], hooks'[retiring'])
  BY <1>1, <1>3, <1>6 DEF Spent
<1> QED BY <1>8, <1>9, <1>10, <1>11, <1>12 DEF CInv

LEMMA NextIdIsLast ==
    ASSUME Contiguous
    PROVE  \A r \in Present(rows) : r < NextId
<1>1. PICK n \in 0..MaxRuns : Present(rows) = 1..n
  BY DEF Contiguous
<1>2. Cardinality(1..n) = n
  BY <1>1, FS_Interval, BoundsAssumption
<1>3. NextId = n + 1 /\ n \in Nat
  BY <1>1, <1>2, BoundsAssumption DEF NextId
<1> QED BY <1>1, <1>3

(* The new row: what the two statements that insert one have in common.    *)
LEMMA InsertSpends ==
    ASSUME IInv, IInv', KInv, CInv, Elsewhere, NextId \in Runs,
           NEW delivery \in 0..Len(hooks),
           UNCHANGED hooks, retiring' \in {retiring, 0},
           rows'[NextId].delivery = delivery, rows'[NextId].state = "queued",
           \A r \in Runs \ Present(rows) : r # NextId => rows'[r] = rows[r],
           \A r \in Present(rows) : ~Inserted(r),
           Operator \/ delivery # 0,
           delivery # 0 =>
              /\ retiring' = 0
              /\ \A r \in Present(rows) :
                    Webhooked(r) => Spent(rows'[r], hooks[delivery])
    PROVE  CInv'
<1> DEFINE id == NextId
<1>1. /\ id \in Runs /\ id \notin Present(rows)
      /\ \A r \in Present(rows) : r < id /\ r \in Runs
  <2>1. Contiguous
    BY DEF IInv
  <2> QED BY <2>1, NextIdIsLast, NextIdIsFree DEF Present
<1> HIDE DEF id
<1>2. ASSUME NEW r \in Present(rows)
      PROVE  /\ r \in Present(rows)' /\ Webhooked(r)' = Webhooked(r)
             /\ \A sha : Spent(rows[r], sha) => Spent(rows'[r], sha)
             /\ rows'[r].state = "queued" =>
                    rows[r].state = "queued" \/ rows'[r].attempts > 0
             /\ rows'[r].state = "post_pending" => rows'[r].payload # 0
             /\ rows'[r].delivery = rows[r].delivery
  BY <1>1, ElsewhereMarks, ElsewhereRows, SpentStays DEF Marked
<1>3. Present(rows)' = Present(rows) \cup {id}
  BY <1>1, <1>2 DEF Present, id
<1>4. \A r \in Runs : rows'[r].delivery \in 0..Len(hooks)'
  BY <1>2 DEF CInv, id
<1>5. \A r \in Runs : rows'[r].state = "post_pending" => rows'[r].payload # 0
  BY <1>2 DEF CInv, id
<1>6. ASSUME NEW r \in Present(rows)', NEW n \in Present(rows)',
             Webhooked(r)', r < n, rows'[n].delivery # 0
      PROVE  Spent(rows'[r], hooks'[rows'[n].delivery])
  <2>1. r \in Present(rows)
    BY <1>1, <1>3, <1>6 DEF Runs
  <2>2. CASE n = id
    BY <1>2, <1>6, <2>1, <2>2 DEF id
  <2>3. CASE n \in Present(rows)
    BY <1>2, <1>6, <2>1, <2>3 DEF CInv
  <2> QED BY <1>3, <2>2, <2>3
<1>7. ASSUME retiring' # 0, NEW r \in Present(rows)',
             Webhooked(r)', rows'[r].state = "queued"
      PROVE  Spent(rows'[r], hooks'[retiring'])
  <2>1. delivery = 0 /\ Operator /\ retiring' = retiring
    BY <1>7
  <2>2. r # id
    BY <1>7, <2>1 DEF Webhooked, id
  <2>3. r \in Present(rows)
    BY <1>3, <2>2
  <2>4. CASE rows[r].state = "queued"
    BY <1>2, <1>7, <2>1, <2>3, <2>4 DEF CInv
  <2>5. CASE rows'[r].attempts > 0
    BY <1>7, <2>5 DEF Spent
  <2> QED BY <1>2, <1>7, <2>3, <2>4, <2>5
<1> QED BY <1>3, <1>4, <1>5, <1>6, <1>7 DEF CInv

LEMMA CommitSpends ==
    ASSUME IInv, IInv', KInv, CInv, CommitEnqueue
    PROVE  CInv'
<1> DEFINE id == NextId
           sha == hooks[retiring]
           new == InsertQueued(rows, id, sha, retiring, FALSE)
<1>1. /\ id \in Runs /\ rows \in Table /\ retiring # 0
      /\ retiring \in 0..Len(hooks)
      /\ rows' = CancelRunning(new, sha) /\ retiring' = 0 /\ UNCHANGED hooks
  BY DEF CommitEnqueue, Enqueue, IInv, Typed, World
<1>2. Elsewhere
  BY DEF Elsewhere, Api
<1>3. id \notin Present(rows)
  BY <1>1, NextIdIsFree DEF IInv, Present
<1> HIDE DEF id, sha
<1>4. /\ new[id] = QueuedRow(sha, retiring, FALSE)
      /\ \A r \in Runs \ {id} : new[r] = rows[r]
      /\ new[id].state = "queued" /\ new[id].delivery = retiring
  BY <1>1 DEF InsertQueued, Table, QueuedRow, Absent
<1> HIDE DEF new
<1>5. rows'[id].delivery = retiring /\ rows'[id].state = "queued"
  BY <1>1, <1>4 DEF CancelRunning
<1>6. \A r \in Runs \ Present(rows) : r # id => rows'[r] = rows[r]
  BY <1>1, <1>4 DEF CancelRunning, Present
<1>7. \A r \in Present(rows) : ~Inserted(r)
  BY DEF Inserted, Absent, Present
<1>8. ASSUME NEW r \in Present(rows), Webhooked(r)
      PROVE  Spent(rows'[r], sha)
  <2>1. r \in Runs /\ new[r] = rows[r] /\ rows[r] \in Row
    BY <1>1, <1>3, <1>4 DEF Present, Table
  <2>2. CASE rows[r].state = "running" /\ rows[r].sha # sha
    BY <1>1, <2>1, <2>2 DEF CancelRunning, Row, Spent
  <2>3. CASE ~(rows[r].state = "running" /\ rows[r].sha # sha)
    <3>1. rows'[r] = rows[r]
      BY <1>1, <2>1, <2>3 DEF CancelRunning
    <3>2. rows[r].state = "queued" => Spent(rows[r], sha)
      BY <1>1, <1>8 DEF CInv, sha
    <3> QED BY <2>3, <3>1, <3>2 DEF Spent
  <2> QED BY <2>2, <2>3
<1> USE DEF id, sha
<1> QED BY <1>1, <1>2, <1>5, <1>6, <1>7, <1>8, InsertSpends

LEMMA CreateSpends ==
    ASSUME IInv, IInv', KInv, CInv, NEW dry \in BOOLEAN, CreateReview(dry)
    PROVE  CInv'
<1> DEFINE id == NextId
<1>1. /\ Operator /\ id \in Runs /\ rows \in Table
      /\ rows' = InsertQueued(rows, id, 0, 0, dry) /\ UNCHANGED <<hooks, retiring>>
  BY DEF CreateReview, IInv, Typed
<1>2. Elsewhere
  BY DEF Elsewhere, Api
<1> HIDE DEF id
<1>3. /\ rows'[id].delivery = 0 /\ rows'[id].state = "queued"
      /\ \A r \in Runs \ {id} : rows'[r] = rows[r]
  BY <1>1 DEF InsertQueued, Table, QueuedRow, Absent
<1>4. \A r \in Present(rows) : ~Inserted(r)
  BY DEF Inserted, Absent, Present
<1>5. 0 \in 0..Len(hooks)
  BY DEF IInv, Typed, World
<1> USE DEF id
<1> QED BY <1>1, <1>2, <1>3, <1>4, <1>5, InsertSpends

LEMMA NextCInv == IInv /\ IInv' /\ KInv /\ CInv /\ [Next]_vars => CInv'
<1> SUFFICES ASSUME IInv, IInv', KInv, CInv, [Next]_vars PROVE CInv'
  OBVIOUS
<1>1. hooks \in Seq(Heads) /\ Len(hooks) \in Nat
  BY DEF IInv, Typed, World
<1>2. ASSUME NEW w \in Workers, MainLoop(w) PROVE CInv'
  <2>1. UNCHANGED <<hooks, retiring>>
    BY <1>2
    DEF MainLoop, ReapExhausted, ClaimRun, ReadHead, DiffTooLarge, CloneHead,
        PassCancelCheck, FinishReview, ReviewFails, PersistResult, CheckMarker,
        PostReview, PostFails, Settle, RequeueRun, PutPostBack, CloseRun
  <2>2. /\ \A r \in Present(rows) : Marked(r)
        /\ \A r \in Runs : \/ Quiet(r) \/ Retired(r)
                           \/ \E v \in Workers : Claimed(r, v) \/ Written(r, v)
    BY <1>2, MainLoopMarks, MainLoopRows DEF Present
  <2> QED BY <1>1, <2>1, <2>2, SpentKeeps
<1>3. ASSUME Elsewhere, UNCHANGED retiring,
             \A r \in Runs : ~Inserted(r),
             Len(hooks) <= Len(hooks)',
             \A d \in 1..Len(hooks) : hooks'[d] = hooks[d]
      PROVE  CInv'
  <2>1. /\ \A r \in Present(rows) : Marked(r)
        /\ \A r \in Runs : Quiet(r) \/ Retired(r)
    BY <1>3, ElsewhereMarks, ElsewhereRows
  <2> QED BY <1>3, <2>1, SpentKeeps
<1>4. CASE \/ \E w \in Workers : Beat(w) \/ Crash(w) \/ Restart(w)
           \/ Clock \/ (\E r \in Runs : CancelRun(r)) \/ UNCHANGED vars
  <2>1. UNCHANGED <<hooks, retiring>>
    BY <1>4 DEF Beat, Crash, Restart, Clock, LeaseExpires, BackoffElapses,
       CancelRun, vars
  <2>2. Elsewhere
    BY <1>4 DEF Elsewhere, Api
  <2>3. ASSUME NEW r \in Runs PROVE ~Inserted(r)
    <3>1. rows \in Table /\ rows[r] \in Row
      BY DEF IInv, Typed, Table
    <3>2. \A w \in Workers : Heartbeat(rows, wk[w].run, w)[r].state = rows[r].state
      BY <3>1 DEF Heartbeat, Table, Row
    <3>3. \A q \in Runs : SetCancel(rows, q)[r].state = rows[r].state
      BY <3>1 DEF SetCancel, Table, Row
    <3>4. Clock => rows'[r].state = rows[r].state
      BY <3>1 DEF Clock, LeaseExpires, BackoffElapses, Table, Row
    <3>5. rows'[r].state = rows[r].state
      BY <1>4, <3>2, <3>3, <3>4 DEF Beat, Crash, Restart, CancelRun, vars
    <3> QED BY <3>5 DEF Inserted, Absent
  <2> QED BY <1>1, <1>3, <2>1, <2>2, <2>3
<1>5. CASE Push \/ Reopen
  <2>1. PICK sha : hooks' = Append(hooks, sha)
    BY <1>5 DEF Push, Reopen
  <2>2. /\ Len(hooks) <= Len(hooks)'
        /\ \A d \in 1..Len(hooks) : hooks'[d] = hooks[d]
    BY <1>1, <2>1
  <2>3. \A r \in Runs : ~Inserted(r)
    BY <1>5 DEF Push, Reopen, Inserted, Absent
  <2>4. Elsewhere /\ UNCHANGED retiring
    BY <1>5 DEF Elsewhere, Push, Reopen
  <2> QED BY <1>3, <2>2, <2>3, <2>4
<1> QED BY <1>2, <1>4, <1>5, BeginSpends, CommitSpends, CreateSpends DEF Next, Api

LEMMA InitCInv == Init => CInv
<1> SUFFICES ASSUME Init PROVE CInv
  OBVIOUS
<1>1. /\ \A r \in Runs : rows[r].state = "absent" /\ rows[r].delivery = 0
      /\ retiring = 0 /\ Len(hooks) = 1
  BY DEF Init, Absent
<1> QED BY <1>1 DEF CInv, Present

(* After a delivery was accepted, no older run of a webhook is on its      *)
(* first attempt, or waiting for it, unless it is for the head announced   *)
(* or is flagged (`enqueue_coalesced`).  Where no operator inserts rows,   *)
(* all runs are: one inserted between the two retirements escapes them.    *)
THEOREM StaleWorkStaysRetired == ~Operator => (Spec => []StaleWorkIsRetired)
<1> SUFFICES ASSUME ~Operator PROVE Spec => []StaleWorkIsRetired
  OBVIOUS
<1>1. IInv /\ CInv => StaleWorkIsRetired
  BY DEF IInv, CInv, StaleWorkIsRetired, Stale, Webhooked, Spent, Present
<1>2. IInv /\ KInv /\ CInv /\ [Next]_vars => CInv'
  BY NextIInv, NextCInv
<1> QED BY <1>1, <1>2, InitCInv, KInductive, PTL DEF Spec

-----------------------------------------------------------------------------
(* The marker, where one process looks for it and nobody else posts: what  *)
(* it is about to post was not on the page when it looked, so it is not    *)
(* there.  And once a review is beyond the page, so are all that follow.   *)
Alone == \A u, v \in Workers : u = v

PageFills ==
    /\ IsFiniteSet(landed)
    /\ \A v \in landed : v.listed \/ Cardinality(landed) >= Page

OInv ==
    /\ OneReviewPerHead
    /\ PageFills
    /\ \A w \in Workers : wk[w].at = "post" => ~MarkerListed(wk[w].sha)

(* A step that posts nothing, and does not lead to the post.               *)
LEMMA NothingPosted ==
    ASSUME OInv, UNCHANGED landed,
           \A w \in Workers :
              wk'[w].at = "post" => wk[w].at = "post" /\ wk'[w].sha = wk[w].sha
    PROVE  OInv'
  BY DEF OInv, OneReviewPerHead, PageFills, MarkerListed

(* The review that lands is the first of its head, or not on the page.     *)
LEMMA OnePosted ==
    ASSUME Alone, OInv, NEW w \in Workers, wk[w].at = "post",
           landed' = landed \cup {Landing(wk[w])}, wk'[w].at # "post"
    PROVE  OInv'
<1>1. PICK review : review = Landing(wk[w])
  OBVIOUS
<1>2. /\ review.sha = wk[w].sha
      /\ review.listed <=> Cardinality(landed) < Page
      /\ landed' = landed \cup {review}
  BY <1>1 DEF Landing
<1>3. PICK n \in Nat, page \in Nat : n = Cardinality(landed) /\ page = Page
  BY PageAssumption, FS_CardinalityType DEF OInv, PageFills
<1>4. ASSUME NEW v \in landed, v.sha = review.sha
      PROVE  ~v.listed /\ ~review.listed
  <2>1. ~v.listed
    BY <1>2, <1>4 DEF OInv, MarkerListed
  <2>2. n >= page
    BY <1>3, <2>1 DEF OInv, PageFills
  <2>3. ~(n < page)
    BY <2>2
  <2> QED BY <1>2, <1>3, <2>1, <2>3
<1>5. OneReviewPerHead'
  BY <1>2, <1>4 DEF OInv, OneReviewPerHead
<1>6. PICK more \in {n, n + 1} :
         more = Cardinality(landed') /\ IsFiniteSet(landed')
  BY <1>2, <1>3, FS_AddElement DEF OInv, PageFills
<1>7. ASSUME NEW v \in landed' PROVE v.listed \/ Cardinality(landed') >= Page
  <2>1. CASE v \in landed
    <3>1. v.listed \/ n >= page
      BY <1>3, <2>1 DEF OInv, PageFills
    <3>2. n >= page => more >= page
      BY <1>3, <1>6
    <3> QED BY <1>3, <1>6, <3>1, <3>2
  <2>2. CASE v = review
    <3>1. v.listed \/ ~(n < page)
      BY <1>2, <1>3, <2>2
    <3>2. ~(n < page) => more >= page
      BY <1>3, <1>6
    <3> QED BY <1>3, <1>6, <3>1, <3>2
  <2> QED BY <1>2, <2>1, <2>2
<1>8. \A v \in Workers : wk'[v].at # "post"
  BY DEF Alone
<1> QED BY <1>5, <1>6, <1>7, <1>8 DEF OInv, PageFills

LEMMA NextOInv ==
    Alone /\ ~ReadsRefused => (IInv /\ OInv /\ [Next]_vars => OInv')
<1> SUFFICES ASSUME Alone, ~ReadsRefused, IInv, OInv, [Next]_vars PROVE OInv'
  OBVIOUS
<1>1. /\ wk \in [Workers -> Process]
      /\ \A w \in Workers : wk[w] \in Process
  BY DEF IInv, Typed
<1>2. ASSUME NEW w \in Workers,
             \/ ReapExhausted(w) \/ ReadHead(w) \/ DiffTooLarge(w)
             \/ CloneHead(w) \/ PassCancelCheck(w) \/ FinishReview(w)
             \/ ReviewFails(w) \/ Settle(w) \/ RequeueRun(w)
             \/ PutPostBack(w) \/ CloseRun(w)
      PROVE  OInv'
  <2>1. wk'[w].at # "post"
    <3>1. CASE ReadHead(w) \/ DiffTooLarge(w) \/ FinishReview(w)
      BY <1>1, <3>1 DEF ReadHead, DiffTooLarge, FinishReview, Process
    <3>2. CASE CloneHead(w) \/ ReviewFails(w)
      <4>1. wk'[w] \in {[wk[w] EXCEPT !.at = "graph"], Failed(wk[w]),
                         TransientReview(wk[w])}
        BY <1>1, <3>2 DEF CloneHead, ReviewFails
      <4>2. [wk[w] EXCEPT !.at = "graph"].at = "graph"
        BY <1>1 DEF Process
      <4>3. TransientReview(wk[w]).at \in {"requeue", "close"}
        BY HandlersStand
      <4> QED BY <4>1, <4>2, <4>3, HandlersStand
    <3>3. CASE PassCancelCheck(w)
      <4>1. wk'[w] \in {Idle, Cancelled(wk[w]), Failed(wk[w]),
                         [wk[w] EXCEPT !.at = "finish"]}
        BY <1>1, <3>3 DEF PassCancelCheck, Call, Becomes
      <4>2. [wk[w] EXCEPT !.at = "finish"].at = "finish"
        BY <1>1 DEF Process
      <4> QED BY <4>1, <4>2, HandlersStand
    <3>4. CASE \/ ReapExhausted(w) \/ Settle(w) \/ RequeueRun(w)
               \/ PutPostBack(w) \/ CloseRun(w)
      <4>1. wk'[w] \in {Idle, Down, [Idle EXCEPT !.at = "claim"],
                         Unexpected(wk[w])}
        BY <1>1, <3>4 DEF ReapExhausted, Settle, RequeueRun, PutPostBack,
           CloseRun, Call, Becomes
      <4> QED BY <4>1, HandlersStand
    <3> QED BY <1>2, <3>1, <3>2, <3>3, <3>4
  <2>2. UNCHANGED landed
    BY <1>2 DEF ReapExhausted, ReadHead, DiffTooLarge, CloneHead,
       PassCancelCheck, FinishReview, ReviewFails, Settle, RequeueRun,
       PutPostBack, CloseRun
  <2> QED BY <2>1, <2>2, NothingPosted DEF Alone
<1>3. ASSUME NEW w \in Workers, ClaimRun(w) PROVE OInv'
  <2>1. \E row : wk'[w] \in {Idle, Take(row)}
    BY <1>1, <1>3 DEF ClaimRun, Call, Becomes
  <2>2. ASSUME NEW row PROVE Take(row).at # "post"
    <3> DEFINE claimed == [Idle EXCEPT !.run = row.id, !.attempt = row.attempts]
               repost == [claimed EXCEPT !.repost = TRUE, !.sha = row.sha,
                              !.payload = row.payload,
                              !.degraded = row.degraded]
               fresh == [claimed EXCEPT !.at = "head", !.beating = TRUE]
               due == [repost EXCEPT !.at = "check"]
    <3>1. Take(row) \in {fresh, due, Failed(repost)}
      BY DEF Take
    <3>2. fresh.at = "head" /\ due.at = "check"
      BY DEF Idle
    <3>3. Failed(repost).at = "close"
      BY HandlersStand
    <3> HIDE DEF fresh, due, repost
    <3> QED BY <3>1, <3>2, <3>3
  <2>3. wk'[w].at # "post" /\ UNCHANGED landed
    BY <1>3, <2>1, <2>2, HandlersStand DEF ClaimRun
  <2> QED BY <2>3, NothingPosted DEF Alone
<1>4. ASSUME NEW w \in Workers, PersistResult(w) PROVE OInv'
  <2> DEFINE at == IF rows[wk[w].run].dry THEN "settle" ELSE "check"
             recorded == [wk[w] EXCEPT !.at = at]
  <2>1. wk'[w] \in {Idle, Failed(wk[w]), recorded}
    BY <1>1, <1>4 DEF PersistResult, Call, Becomes
  <2>2. recorded.at \in {"settle", "check"}
    BY <1>1 DEF Process
  <2> HIDE DEF recorded
  <2>3. wk'[w].at # "post" /\ UNCHANGED landed
    BY <1>4, <2>1, <2>2, HandlersStand DEF PersistResult
  <2> QED BY <2>3, NothingPosted DEF Alone
<1>5. ASSUME NEW w \in Workers, CheckMarker(w) PROVE OInv'
  <2>1. /\ UNCHANGED landed /\ wk'[w].sha = wk[w].sha
        /\ wk'[w].at = "post" => ~MarkerListed(wk[w].sha)
    BY <1>1, <1>5 DEF CheckMarker, Process
  <2> QED BY <2>1 DEF OInv, OneReviewPerHead, PageFills, MarkerListed, Alone
<1>6. ASSUME NEW w \in Workers, PostReview(w) PROVE OInv'
  <2>1. wk'[w].at # "post"
    BY <1>1, <1>6 DEF PostReview, Process
  <2> QED BY <1>6, <2>1, OnePosted DEF PostReview
<1>7. ASSUME NEW w \in Workers, PostFails(w) PROVE OInv'
  <2>1. wk'[w] \in {TransientPost(wk[w]), Unexpected(wk[w]), Failed(wk[w])}
    BY <1>1, <1>7 DEF PostFails, Becomes
  <2>2. wk'[w].at # "post"
    BY <2>1, HandlersStand
  <2>3. CASE landed' = landed
    BY <2>2, <2>3, NothingPosted DEF Alone
  <2>4. CASE wk[w].at = "post" /\ landed' = landed \cup {Landing(wk[w])}
    BY <2>2, <2>4, OnePosted
  <2> QED BY <1>7, <2>3, <2>4 DEF PostFails
<1>8. ASSUME NEW w \in Workers, Beat(w) PROVE OInv'
  <2>1. /\ UNCHANGED landed
        /\ \A v \in Workers : wk'[v].at = wk[v].at /\ wk'[v].sha = wk[v].sha
    BY <1>1, <1>8 DEF Beat, Process
  <2> QED BY <2>1, NothingPosted
<1>9. ASSUME NEW w \in Workers, Crash(w) \/ Restart(w) PROVE OInv'
  <2>1. wk'[w] \in {Idle, Down} /\ UNCHANGED landed
    BY <1>1, <1>9 DEF Crash, Restart, Becomes
  <2> QED BY <2>1, HandlersStand, NothingPosted DEF Alone
<1>10. CASE Clock \/ Api \/ Push \/ Reopen \/ UNCHANGED vars
  <2>1. UNCHANGED <<wk, landed>>
    BY <1>10 DEF Clock, LeaseExpires, BackoffElapses, Api, BeginEnqueue,
       CommitEnqueue, CreateReview, CancelRun, Push, Reopen, vars
  <2> QED BY <2>1, NothingPosted
<1> QED BY <1>2, <1>3, <1>4, <1>5, <1>6, <1>7, <1>8, <1>9, <1>10
        DEF Next, MainLoop

LEMMA InitOInv == Init => OInv
<1> SUFFICES ASSUME Init PROVE OInv
  OBVIOUS
<1>1. landed = {} /\ IsFiniteSet({})
  BY FS_EmptySet DEF Init
<1> QED BY <1>1 DEF Init, OInv, OneReviewPerHead, PageFills, Idle

(* With one process, and reviews that can be listed, no head that has a    *)
(* review on the first page is reviewed again, and none gets there that    *)
(* has one: however often the process dies, a post fails after it has      *)
(* reached GitHub, or a run is put back (`already_reviewed`).  Two         *)
(* reviews of a head are both beyond the page.  With two processes the     *)
(* code does not promise it.                                               *)
THEOREM OneProcessPostsOnce == Alone /\ ~ReadsRefused => (Spec => []OneReviewPerHead)
<1> SUFFICES ASSUME Alone, ~ReadsRefused PROVE Spec => []OneReviewPerHead
  OBVIOUS
<1>1. IInv /\ OInv /\ [Next]_vars => OInv'
  BY NextOInv
<1>2. OInv => OneReviewPerHead
  BY DEF OInv
<1> QED BY <1>1, <1>2, InitOInv, Inductive, PTL DEF Spec
=============================================================================
