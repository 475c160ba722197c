------------------------- MODULE ReviewWorkerProofs -------------------------
(***************************************************************************)
(* The safety properties of the workers, for any number of processes,      *)
(* runs, heads, deliveries and faults.                                     *)
(***************************************************************************)
EXTENDS ReviewWorkerProps, RunStoreProofs

(* Ids are given in order, so NextId is the id of no row. *)
Contiguous == \E n \in 0..MaxRuns : Present(rows) = 1..n

(* What a process knows of its job. *)
Delivering == Posting \cup {"settle"}

JobOK(w) ==
    LET p == wk[w] IN
    /\ p.at \in Working => p.run \in Present(rows) /\ p.attempt >= 1
    /\ p.beating => p.at \in Working
    /\ p.at \in {"clone", "graph", "finish", "record"} \cup Delivering
        => p.sha \in Heads
    /\ p.at \in {"record"} \cup Delivering => p.payload >= 1
    /\ p.at = "record" => p.payload = p.attempt
    /\ p.at \in Reviewing \cup {"record"} \cup Posting => ~p.posted
    /\ p.at = "settle" => Reviewed(p.sha) \/ rows[p.run].dry
    /\ p.at = "settle" /\ p.posted
        => \E v \in landed : v.run = p.run /\ v.payload = p.payload

(* What a process that owns its row knows of the row: it has its newest    *)
(* claim, a result it is delivering is the persisted one, and it has not   *)
(* settled it, unless the answer of mark_posted was lost. *)
HeldOK(w) ==
    LET p == wk[w] row == rows[wk[w].run] IN
    Holds(w) =>
        /\ row.attempts = p.attempt
        /\ p.at \in Delivering => /\ row.sha = p.sha
                                  /\ row.payload = p.payload
                                  /\ row.degraded = p.degraded
        /\ row.state \in Terminal => /\ p.at = "close"
                                     /\ p.ending = "failed"
                                     /\ lostAcks > 0

(* What a row says is true of GitHub: the three invariants, row by row. *)
RowTrue(r) ==
    /\ rows[r].state \in {"published", "degraded"} /\ ~rows[r].dry
        => Reviewed(rows[r].sha)
    /\ rows[r].flagged =>
        \E v \in landed : v.run = r /\ v.payload = rows[r].payload
    /\ rows[r].state = "published" => ~rows[r].degraded
    /\ rows[r].state = "degraded" => rows[r].degraded

(* What no step of a process touches, and the counters of faults. *)
World ==
    /\ head \in Heads
    /\ hooks \in Seq(Heads) /\ Len(hooks) <= MaxDeliveries
    /\ retiring \in 0..Len(hooks)
    /\ deaths \in 0..MaxDeaths
    /\ lostAcks \in 0..MaxLostAcks

Typed ==
    /\ rows \in Table
    /\ wk \in [Workers -> Process]
    /\ landed \subseteq Review
    /\ World

IInv ==
    /\ Typed
    /\ Contiguous
    /\ \A r \in Runs : RowOK(rows[r]) /\ RowTrue(r)
    /\ \A w \in Workers : JobOK(w) /\ HeldOK(w)

-----------------------------------------------------------------------------
(* Frames: what a step of one process leaves of the others. *)

(* To the process that owns it, the row is what it was. *)
Same(old, new) ==
    /\ new.worker = old.worker /\ new.attempts = old.attempts
    /\ new.sha = old.sha /\ new.payload = old.payload
    /\ new.degraded = old.degraded
    /\ new.state \in Terminal => old.state \in Terminal

LEMMA OthersKeep ==
    ASSUME IInv, NEW actor,
           \A v \in Workers \ {actor} : wk'[v] = wk[v],
           landed \subseteq landed',
           lostAcks' \in Nat, lostAcks <= lostAcks',
           \A r \in Present(rows) :
                rows'[r].state # "absent" /\ rows'[r].dry = rows[r].dry,
           \A r \in Present(rows), v \in Workers \ {actor} :
                rows'[r].worker = v => Same(rows[r], rows'[r])
    PROVE  \A v \in Workers \ {actor} : JobOK(v)' /\ HeldOK(v)'
<1> SUFFICES ASSUME NEW v \in Workers, v # actor
             PROVE  JobOK(v)' /\ HeldOK(v)'
  OBVIOUS
<1>1. /\ wk'[v] = wk[v] /\ JobOK(v) /\ HeldOK(v)
      /\ wk[v] \in Process
  BY DEF IInv, Typed
<1>2. wk[v].at \in Working => wk[v].run \in Present(rows)
  BY <1>1 DEF JobOK
<1>3. wk[v].at \in Working => wk[v].run \in Present(rows)'
  BY <1>2 DEF Present
<1>4. wk[v].at \in Delivering => wk[v].at \in Working
  BY DEF Delivering, Working, Posting, Writing
<1>5. Reviewed(wk[v].sha) => Reviewed(wk[v].sha)'
  BY DEF Reviewed
<1>6. JobOK(v)'
  <2>1. wk[v].at = "settle" => rows'[wk[v].run].dry = rows[wk[v].run].dry
    BY <1>2, <1>4 DEF Delivering
  <2> QED BY <1>1, <1>3, <1>5, <2>1 DEF JobOK
<1>7. HeldOK(v)'
  <2> SUFFICES ASSUME Holds(v)' PROVE HeldOK(v)'
    BY DEF HeldOK
  <2>1. wk[v].at \in Working /\ rows'[wk[v].run].worker = v
    BY <1>1 DEF Holds, Owns
  <2>2. Same(rows[wk[v].run], rows'[wk[v].run])
    BY <1>2, <2>1
  <2>3. Holds(v)
    BY <2>1, <2>2 DEF Same, Holds, Owns
  <2>4. lostAcks \in Nat
    BY FaultsAssumption DEF IInv, Typed, World
  <2> QED BY <1>1, <2>2, <2>3, <2>4 DEF HeldOK, Same
<1> QED BY <1>6, <1>7

(* The row-wise invariants survive a kept table and a growing GitHub. *)
LEMMA KeptRowsTrue ==
    ASSUME IInv, NEW actor, KeptTable(rows, rows', actor),
           landed \subseteq landed'
    PROVE  /\ Contiguous' /\ rows' \in Table
           /\ \A r \in Runs : RowOK(rows'[r]) /\ RowTrue(r)'
<1>1. /\ rows \in Table /\ \A r \in Runs : RowOK(rows[r]) /\ RowTrue(r)
      /\ Contiguous
  BY DEF IInv, Typed
<1>2. /\ \A r \in Runs : RowOK(rows'[r])
      /\ Present(rows') = Present(rows)
  BY <1>1, KeptShapes
<1>3. Contiguous'
  BY <1>1, <1>2 DEF Contiguous
<1>4. ASSUME NEW r \in Runs PROVE RowTrue(r)'
  <2>1. RowTrue(r) /\ Kept(rows[r], rows'[r], actor)
    BY <1>1 DEF KeptTable
  <2>2. rows'[r].state \in {"published", "degraded"}
          => rows'[r].state = rows[r].state
    BY <2>1 DEF Kept
  <2> QED BY <2>1, <2>2 DEF RowTrue, Kept, Reviewed
<1> QED BY <1>2, <1>3, <1>4 DEF KeptTable

LEMMA KeepStep ==
    ASSUME IInv, NEW actor,
           KeptTable(rows, rows', actor),
           wk' \in [Workers -> Process],
           \A v \in Workers \ {actor} : wk'[v] = wk[v],
           landed \subseteq landed', landed' \subseteq Review,
           World', lostAcks <= lostAcks',
           actor \in Workers => JobOK(actor)' /\ HeldOK(actor)'
    PROVE  IInv'
<1>1. \A r \in Runs : Kept(rows[r], rows'[r], actor)
  BY DEF KeptTable
<1>2. \A r \in Runs : RowOK(rows[r])
  BY DEF IInv
<1>3. \A r \in Present(rows) :
        rows'[r].state # "absent" /\ rows'[r].dry = rows[r].dry
  BY <1>1 DEF Present, Kept
<1>4. \A r \in Present(rows), v \in Workers \ {actor} :
        rows'[r].worker = v => Same(rows[r], rows'[r])
  <2> SUFFICES ASSUME NEW r \in Runs, NEW v \in Workers, v # actor,
                      rows'[r].worker = v
               PROVE  Same(rows[r], rows'[r])
    BY DEF Present
  <2>1. Kept(rows[r], rows'[r], actor) /\ v # NoWorker
    BY <1>1, WorkersAssumption
  <2> QED BY <2>1 DEF Kept, Same
<1>5. lostAcks' \in Nat
  BY FaultsAssumption DEF World
<1>6. \A v \in Workers \ {actor} : JobOK(v)' /\ HeldOK(v)'
  BY <1>3, <1>4, <1>5, OthersKeep
<1>7. \A v \in Workers : JobOK(v)' /\ HeldOK(v)'
  BY <1>6
<1> QED BY <1>7, KeptRowsTrue DEF IInv, Typed

-----------------------------------------------------------------------------
(* Outcomes of a step of the main loop. *)

LEMMA BecomesOutcome ==
    ASSUME Typed, NEW w \in Workers, NEW p \in Process, Becomes(w, p)
    PROVE  /\ deaths' \in 0..MaxDeaths
           /\ wk' \in [Workers -> Process]
           /\ wk'[w] = p
           /\ \A v \in Workers \ {w} : wk'[v] = wk[v]
<1>1. wk' = [wk EXCEPT ![w] = p]
  BY DEF Becomes
<1>2. deaths' \in 0..MaxDeaths
  BY FaultsAssumption DEF Becomes, Typed, World
<1> QED BY <1>1, <1>2 DEF Typed

LEMMA CallOutcome ==
    ASSUME Typed, NEW w \in Workers, NEW table,
           NEW returned \in Process, NEW raised \in Process,
           Call(w, table, returned, raised),
           UNCHANGED <<head, hooks, retiring>>
    PROVE  /\ World' /\ lostAcks <= lostAcks'
           /\ wk' \in [Workers -> Process]
           /\ \A v \in Workers \ {w} : wk'[v] = wk[v]
           /\ \/ rows' = table /\ wk'[w] = returned
              \/ rows' \in {rows, table} /\ wk'[w] = raised /\ lostAcks' > 0
<1>1. CASE rows' = table /\ Becomes(w, returned) /\ UNCHANGED lostAcks
  BY <1>1, BecomesOutcome, FaultsAssumption DEF Typed, World
<1>2. CASE /\ lostAcks < MaxLostAcks /\ lostAcks' = lostAcks + 1
           /\ rows' \in {rows, table} /\ Becomes(w, raised)
  BY <1>2, BecomesOutcome, FaultsAssumption DEF Typed, World
<1> QED BY <1>1, <1>2 DEF Call

(* A process that is done with its job, or has only a handler left to run. *)
Handling == {"close", "requeue", "requeue_post"}

Released(old, p) ==
    /\ p \in Process
    /\ p.at \in {"down", "reap", "claim"} \cup Handling
    /\ p.at \in Handling => p.run = old.run /\ p.attempt = old.attempt
    /\ p.beating => p.at \in Handling

LEMMA ReleasedProcesses ==
    ASSUME NEW p \in Process
    PROVE  /\ Released(p, Idle) /\ Released(p, Down)
           /\ Released(p, [Idle EXCEPT !.at = "claim"])
           /\ \A step \in Handling : Released(p, Handler(p, step))
           /\ Released(p, Failed(p)) /\ Released(p, Cancelled(p))
           /\ Released(p, Unexpected(p)) /\ Released(p, TransientReview(p))
           /\ Released(p, TransientPost(p))
<1>1. /\ 0 \in 0..MaxRuns /\ 0 \in 0..MaxAttempts /\ 0 \in 0..MaxPushes
  BY BoundsAssumption
<1>2. /\ Idle \in Process /\ Idle.at = "reap" /\ ~Idle.beating
      /\ Down \in Process /\ Down.at = "down" /\ ~Down.beating
  BY <1>1 DEF Idle, Down, Process, Steps
<1>3. Released(p, Idle) /\ Released(p, Down)
  BY <1>2 DEF Released, Handling
<1>4. Released(p, [Idle EXCEPT !.at = "claim"])
  BY <1>1 DEF Idle, Process, Steps, Released, Handling
<1>5. ASSUME NEW step \in Handling
      PROVE  Released(p, Handler(p, step))
  <2>1. step \in Steps
    BY DEF Handling, Steps, Working, Writing
  <2> QED BY <1>1, <2>1 DEF Handler, Idle, Process, Released, Handling
<1>6. Released(p, Failed(p))
  BY <1>5 DEF Failed, Handling
<1>7. Released(p, Cancelled(p))
  <2>1. "close" \in Steps
    BY DEF Steps, Working, Writing
  <2> QED BY <1>1, <2>1 DEF Cancelled, Handler, Idle, Process, Released, Handling
<1>8. Released(p, Unexpected(p))
  BY <1>3, <1>6 DEF Unexpected
<1>9. Released(p, TransientReview(p)) /\ Released(p, TransientPost(p))
  BY <1>5, <1>6 DEF TransientReview, TransientPost, Handling
<1> QED BY <1>3, <1>4, <1>5, <1>6, <1>7, <1>8, <1>9

LEMMA ReleaseStep ==
    ASSUME IInv, NEW w \in Workers,
           KeptTable(rows, rows', w),
           wk' \in [Workers -> Process],
           \A v \in Workers \ {w} : wk'[v] = wk[v],
           Released(wk[w], wk'[w]),
           wk'[w].at \in Handling =>
                /\ wk[w].at \in Working /\ wk[w].at # "close"
                /\ \A r \in Runs : rows'[r].state \in Terminal
                                    => rows[r].state \in Terminal,
           landed \subseteq landed', landed' \subseteq Review,
           World', lostAcks <= lostAcks'
    PROVE  IInv'
<1>1. /\ JobOK(w) /\ HeldOK(w) /\ wk[w] \in Process /\ wk'[w] \in Process
      /\ \A r \in Runs : Kept(rows[r], rows'[r], w)
  BY DEF IInv, Typed, KeptTable
<1>2. wk'[w].at \in Handling =>
        /\ wk[w].run \in Present(rows) /\ wk[w].run \in Present(rows')
        /\ wk'[w].run = wk[w].run /\ wk'[w].attempt = wk[w].attempt
        /\ wk[w].attempt >= 1
  <2>1. wk'[w].at \in Handling =>
            wk[w].run \in Present(rows) /\ wk[w].attempt >= 1
    BY <1>1 DEF JobOK
  <2>2. Present(rows) \subseteq Present(rows')
    BY <1>1 DEF Present, Kept
  <2> QED BY <2>1, <2>2 DEF Released
<1>3. /\ wk'[w].at \notin Reviewing \cup Delivering \cup {"record"}
      /\ wk'[w].at \in Working <=> wk'[w].at \in Handling
  BY DEF Released, Reviewing, Delivering, Posting, Handling, Working, Writing
<1>4. JobOK(w)'
  BY <1>1, <1>2, <1>3 DEF JobOK, Released, Reviewing, Delivering, Posting
<1>5. HeldOK(w)'
  <2> SUFFICES ASSUME Holds(w)' PROVE HeldOK(w)'
    BY DEF HeldOK
  <2>1. wk'[w].at \in Handling /\ rows'[wk[w].run].worker = w
    BY <1>2, <1>3 DEF Holds, Owns
  <2>2. /\ wk[w].run \in Runs
        /\ Kept(rows[wk[w].run], rows'[wk[w].run], w)
        /\ rows'[wk[w].run].state \in Terminal
              => rows[wk[w].run].state \in Terminal
    BY <1>1, <1>2, <2>1 DEF Present
  <2>3. Holds(w)
    BY <2>1, <2>2, WorkersAssumption DEF Kept, Holds, Owns
  <2>4. rows[wk[w].run].attempts = wk[w].attempt
        /\ rows[wk[w].run].state \notin Terminal
    BY <1>1, <2>1, <2>3 DEF HeldOK, Handling
  <2> QED BY <1>2, <1>3, <2>1, <2>2, <2>4 DEF HeldOK, Kept
<1> QED BY <1>4, <1>5, KeepStep

-----------------------------------------------------------------------------
(* Steps that release the job, or have none. *)

LEMMA Kept0 ==
    ASSUME IInv, NEW actor
    PROVE  KeptTable(rows, rows, actor)
  BY SameIsKept DEF IInv, Typed

LEMMA IdleSteps ==
    ASSUME IInv, NEW w \in Workers,
           ReapExhausted(w) \/ Crash(w) \/ Restart(w)
    PROVE  IInv'
<1>1. /\ rows \in Table /\ wk[w] \in Process /\ wk \in [Workers -> Process]
      /\ landed \subseteq Review /\ World /\ Typed
      /\ lostAcks \in Nat /\ \A r \in Runs : RowOK(rows[r])
  BY FaultsAssumption DEF IInv, Typed, World
<1>2. /\ Released(wk[w], Idle) /\ Released(wk[w], Down)
      /\ Released(wk[w], [Idle EXCEPT !.at = "claim"])
      /\ Idle.at = "reap" /\ Down.at = "down"
      /\ [Idle EXCEPT !.at = "claim"].at = "claim"
  BY <1>1, ReleasedProcesses DEF Idle, Down
<1>3. Idle \in Process /\ Down \in Process /\ [Idle EXCEPT !.at = "claim"] \in Process
  BY <1>2 DEF Released
<1>4. CASE ReapExhausted(w)
  <2>1. /\ World' /\ lostAcks <= lostAcks'
        /\ wk' \in [Workers -> Process]
        /\ \A v \in Workers \ {w} : wk'[v] = wk[v]
        /\ rows' \in {rows, Reap(rows)}
        /\ wk'[w] \in {Idle, [Idle EXCEPT !.at = "claim"]}
        /\ landed' = landed
    BY <1>1, <1>3, <1>4, CallOutcome DEF ReapExhausted
  <2>2. KeptTable(rows, rows', w)
    BY <1>1, <2>1, Kept0, ReapKeeps
  <2> QED BY <1>1, <1>2, <2>1, <2>2, ReleaseStep DEF Handling
<1>5. CASE Crash(w)
  <2>1. /\ wk' \in [Workers -> Process] /\ wk'[w] = Down
        /\ \A v \in Workers \ {w} : wk'[v] = wk[v]
        /\ deaths' \in 0..MaxDeaths
    BY <1>1, <1>3, <1>5, BecomesOutcome DEF Crash
  <2>2. World' /\ lostAcks' = lostAcks /\ rows' = rows /\ landed' = landed
    BY <1>1, <1>5, <2>1 DEF Crash, World
  <2>3. KeptTable(rows, rows', w)
    BY <2>2, Kept0
  <2> QED BY <1>1, <1>2, <2>1, <2>2, <2>3, ReleaseStep DEF Handling
<1>6. CASE Restart(w)
  <2>1. /\ wk' \in [Workers -> Process] /\ wk'[w] = Idle
        /\ \A v \in Workers \ {w} : wk'[v] = wk[v]
    BY <1>1, <1>3, <1>6 DEF Restart
  <2>2. World' /\ lostAcks' = lostAcks /\ rows' = rows /\ landed' = landed
    BY <1>1, <1>6 DEF Restart, World
  <2>3. KeptTable(rows, rows', w)
    BY <2>2, Kept0
  <2> QED BY <1>1, <1>2, <2>1, <2>2, <2>3, ReleaseStep DEF Handling
<1> QED BY <1>4, <1>5, <1>6

(* The handlers' own writes. *)
LEMMA HandlerSteps ==
    ASSUME IInv, NEW w \in Workers,
           RequeueRun(w) \/ PutPostBack(w) \/ CloseRun(w)
    PROVE  IInv'
<1>1. /\ rows \in Table /\ wk[w] \in Process /\ Typed
      /\ landed \subseteq Review /\ lostAcks \in Nat
      /\ \A r \in Runs : RowOK(rows[r])
      /\ JobOK(w) /\ HeldOK(w)
  BY FaultsAssumption DEF IInv, Typed, World
<1>2. /\ Released(wk[w], Idle) /\ Released(wk[w], Down)
      /\ Released(wk[w], Unexpected(wk[w]))
      /\ Idle.at = "reap" /\ Down.at = "down"
  BY <1>1, ReleasedProcesses DEF Idle, Down
<1>3. Idle \in Process /\ Down \in Process /\ Unexpected(wk[w]) \in Process
  BY <1>2 DEF Released
<1>4. wk[w].at \in Working /\ wk[w].run \in Runs
  <2>1. wk[w].at \in Writing
    BY DEF RequeueRun, PutPostBack, CloseRun, Writing
  <2> QED BY <1>1, <2>1 DEF Working, JobOK, Present
<1>5. CASE RequeueRun(w)
  <2>1. /\ World' /\ lostAcks <= lostAcks'
        /\ wk' \in [Workers -> Process]
        /\ \A v \in Workers \ {w} : wk'[v] = wk[v]
        /\ rows' \in {rows, Requeue(rows, wk[w].run, w)}
        /\ wk'[w] \in {Idle, Down}
        /\ landed' = landed
    BY <1>1, <1>3, <1>5, CallOutcome DEF RequeueRun
  <2>2. KeptTable(rows, Requeue(rows, wk[w].run, w), w)
    BY <1>1, <1>4, PutBackKeeps DEF Requeue
  <2>3. KeptTable(rows, rows', w)
    BY <2>1, <2>2, Kept0
  <2> QED BY <1>1, <1>2, <2>1, <2>3, ReleaseStep DEF Handling
<1>6. CASE CloseRun(w)
  <2>1. /\ World' /\ lostAcks <= lostAcks'
        /\ wk' \in [Workers -> Process]
        /\ \A v \in Workers \ {w} : wk'[v] = wk[v]
        /\ rows' \in {rows, Mark(rows, wk[w].run, w, wk[w].ending)}
        /\ wk'[w] \in {Idle, Down}
        /\ landed' = landed
    BY <1>1, <1>3, <1>6, CallOutcome DEF CloseRun
  <2>2. KeptTable(rows, Mark(rows, wk[w].run, w, wk[w].ending), w)
    BY <1>1, <1>4, MarkKeeps DEF Process
  <2>3. KeptTable(rows, rows', w)
    BY <2>1, <2>2, Kept0
  <2> QED BY <1>1, <1>2, <2>1, <2>3, ReleaseStep DEF Handling
<1>7. CASE PutPostBack(w)
  <2>1. /\ World' /\ lostAcks <= lostAcks'
        /\ wk' \in [Workers -> Process]
        /\ \A v \in Workers \ {w} : wk'[v] = wk[v]
        /\ rows' \in {rows, RequeuePost(rows, wk[w].run, w)}
        /\ wk'[w] \in {Idle, Unexpected(wk[w])}
        /\ landed' = landed
    BY <1>1, <1>3, <1>7, CallOutcome DEF PutPostBack
  <2>2. KeptTable(rows, RequeuePost(rows, wk[w].run, w), w)
    BY <1>1, <1>4, PutBackKeeps DEF RequeuePost
  <2>3. KeptTable(rows, rows', w)
    BY <2>1, <2>2, Kept0
  <2>4. \A r \in Runs : rows'[r].state \in Terminal
                         => rows[r].state \in Terminal
    <3>1. ASSUME NEW r \in Runs
          PROVE  RequeuePost(rows, wk[w].run, w)[r].state
                    \in {rows[r].state, "post_pending"}
      BY <1>1 DEF RequeuePost, PutBack, Table, Row
    <3> QED BY <2>1, <3>1 DEF Terminal
  <2>5. wk[w].at = "requeue_post"
    BY <1>7 DEF PutPostBack
  <2> QED BY <1>1, <1>2, <1>4, <2>1, <2>3, <2>4, <2>5, ReleaseStep
<1> QED BY <1>5, <1>6, <1>7

-----------------------------------------------------------------------------
(* Steps that go on with the job and write nothing. *)

(* Process `old` goes on as `p` with the same claim, and, once it delivers, *)
(* with the same result. *)
Advanced(old, p) ==
    /\ p \in Process /\ old.at \in Working
    /\ p.run = old.run /\ p.attempt = old.attempt
    /\ old.at = "close" => p.at = "close" /\ p.ending = old.ending
    /\ p.at \in Delivering => /\ old.at \in Delivering
                              /\ p.sha = old.sha
                              /\ p.payload = old.payload
                              /\ p.degraded = old.degraded

LEMMA AdvanceStep ==
    ASSUME IInv, NEW w \in Workers,
           wk' \in [Workers -> Process],
           \A v \in Workers \ {w} : wk'[v] = wk[v],
           Advanced(wk[w], wk'[w]),
           rows' = rows,
           landed \subseteq landed', landed' \subseteq Review,
           World', lostAcks <= lostAcks',
           JobOK(w)'
    PROVE  IInv'
<1> DEFINE p == wk'[w]
<1>1. /\ lostAcks \in Nat /\ lostAcks' \in Nat
      /\ HeldOK(w)
  BY FaultsAssumption DEF IInv, Typed, World
<1>2. HeldOK(w)'
  <2> SUFFICES ASSUME Holds(w)' PROVE HeldOK(w)'
    BY DEF HeldOK
  <2>1. p.at \in Working /\ rows[p.run].worker = w
    BY <1>1 DEF Holds, Owns
  <2>2. Holds(w)
    BY <2>1 DEF Holds, Owns, Advanced
  <2> QED BY <1>1, <2>1, <2>2 DEF HeldOK, Advanced
<1>3. KeptTable(rows, rows', w)
  BY Kept0
<1> QED BY <1>1, <1>2, <1>3, KeepStep

LEMMA ReviewSteps ==
    ASSUME IInv, NEW w \in Workers,
           \/ ReadHead(w) \/ DiffTooLarge(w) \/ CloneHead(w)
           \/ FinishReview(w) \/ ReviewFails(w)
    PROVE  IInv'
<1>1. /\ wk[w] \in Process /\ Typed /\ wk \in [Workers -> Process]
      /\ head \in Heads /\ landed \subseteq Review /\ lostAcks \in Nat
      /\ JobOK(w)
  BY FaultsAssumption DEF IInv, Typed, World
<1>2. /\ World' /\ lostAcks' = lostAcks /\ landed' = landed /\ rows' = rows
  BY <1>1 DEF ReadHead, DiffTooLarge, CloneHead, FinishReview, ReviewFails,
     Typed, World
<1>3. wk[w].at \in Reviewing
  BY DEF ReadHead, DiffTooLarge, CloneHead, FinishReview, ReviewFails, Reviewing
<1>4. /\ wk[w].at \in Working /\ wk[w].run \in Present(rows)
      /\ wk[w].attempt \in 1..MaxAttempts /\ ~wk[w].posted
  BY <1>1, <1>3 DEF JobOK, Working, Process
<1>5. CASE ReadHead(w)
  <2> DEFINE p == [wk[w] EXCEPT !.at = "clone", !.sha = head]
  <2>1. p \in Process /\ p.at = "clone" /\ p.sha = head
        /\ p.run = wk[w].run /\ p.attempt = wk[w].attempt /\ ~p.posted
    <3>1. head \in 0..MaxPushes /\ "clone" \in Steps
      BY <1>1 DEF Heads, Steps, Working, Reviewing
    <3> QED BY <1>1, <1>4, <3>1 DEF Process
  <2>2. wk' = [wk EXCEPT ![w] = p] /\ wk[w].at = "head"
    BY <1>5 DEF ReadHead
  <2> HIDE DEF p
  <2>3. /\ wk'[w] = p /\ wk' \in [Workers -> Process]
        /\ \A v \in Workers \ {w} : wk'[v] = wk[v]
    BY <1>1, <2>1, <2>2
  <2>4. JobOK(w)'
    BY <1>1, <1>2, <1>4, <2>1, <2>3
    DEF JobOK, Delivering, Posting, Working, Reviewing
  <2>5. Advanced(wk[w], p)
    BY <1>4, <2>1, <2>2 DEF Advanced, Delivering, Posting
  <2> QED BY <1>1, <1>2, <2>3, <2>4, <2>5, AdvanceStep
<1>6. CASE DiffTooLarge(w)
  <2> DEFINE p == [wk[w] EXCEPT !.at = "record", !.payload = wk[w].attempt]
  <2>1. p \in Process /\ p.at = "record" /\ p.payload = p.attempt
        /\ p.run = wk[w].run /\ p.attempt = wk[w].attempt /\ ~p.posted
        /\ p.sha = wk[w].sha
    BY <1>1, <1>4 DEF Process, Steps, Working, Writing
  <2>2. wk' = [wk EXCEPT ![w] = p] /\ wk[w].at = "clone"
    BY <1>6 DEF DiffTooLarge
  <2> HIDE DEF p
  <2>3. /\ wk'[w] = p /\ wk' \in [Workers -> Process]
        /\ \A v \in Workers \ {w} : wk'[v] = wk[v]
    BY <1>1, <2>1, <2>2
  <2>4. JobOK(w)'
    BY <1>1, <1>2, <1>4, <2>1, <2>2, <2>3
    DEF JobOK, Delivering, Posting, Working, Writing
  <2>5. Advanced(wk[w], p)
    BY <1>4, <2>1, <2>2 DEF Advanced, Delivering, Posting
  <2> QED BY <1>1, <1>2, <2>3, <2>4, <2>5, AdvanceStep
<1>7. CASE FinishReview(w)
  <2>1. PICK degraded \in BOOLEAN :
          wk' = [wk EXCEPT ![w].at = "record", ![w].payload = wk[w].attempt,
                           ![w].degraded = degraded]
    BY <1>7 DEF FinishReview
  <2> DEFINE p == [wk[w] EXCEPT !.at = "record", !.payload = wk[w].attempt,
                                !.degraded = degraded]
  <2>2. p \in Process /\ p.at = "record" /\ p.payload = p.attempt
        /\ p.run = wk[w].run /\ p.attempt = wk[w].attempt /\ ~p.posted
        /\ p.sha = wk[w].sha
    BY <1>1, <1>4 DEF Process, Steps, Working, Writing
  <2>3. wk' = [wk EXCEPT ![w] = p] /\ wk[w].at = "finish"
    BY <1>7, <2>1 DEF FinishReview
  <2> HIDE DEF p
  <2>4. /\ wk'[w] = p /\ wk' \in [Workers -> Process]
        /\ \A v \in Workers \ {w} : wk'[v] = wk[v]
    BY <1>1, <2>2, <2>3
  <2>5. JobOK(w)'
    BY <1>1, <1>2, <1>4, <2>2, <2>3, <2>4
    DEF JobOK, Delivering, Posting, Working, Writing
  <2>6. Advanced(wk[w], p)
    BY <1>4, <2>2, <2>3 DEF Advanced, Delivering, Posting
  <2> QED BY <1>1, <1>2, <2>4, <2>5, <2>6, AdvanceStep
<1>8. ASSUME NEW p, Released(wk[w], p), wk' = [wk EXCEPT ![w] = p]
      PROVE  IInv'
  <2>1. /\ wk' \in [Workers -> Process] /\ wk'[w] = p
        /\ \A v \in Workers \ {w} : wk'[v] = wk[v]
    BY <1>1, <1>8 DEF Released
  <2>2. KeptTable(rows, rows', w)
    BY <1>2, Kept0
  <2> QED BY <1>1, <1>2, <1>3, <1>4, <1>8, <2>1, <2>2, ReleaseStep DEF Reviewing
<1>9. CASE CloneHead(w)
  <2>1. CASE wk[w].sha = head
    <3> DEFINE p == [wk[w] EXCEPT !.at = "graph"]
    <3>1. p \in Process /\ p.at = "graph"
          /\ p.run = wk[w].run /\ p.attempt = wk[w].attempt /\ ~p.posted
          /\ p.sha = wk[w].sha
      BY <1>1, <1>4 DEF Process, Steps, Working, Reviewing
    <3>2. wk' = [wk EXCEPT ![w] = p]
      BY <1>9, <2>1 DEF CloneHead
    <3> HIDE DEF p
    <3>3. /\ wk'[w] = p /\ wk' \in [Workers -> Process]
          /\ \A v \in Workers \ {w} : wk'[v] = wk[v]
      BY <1>1, <3>1, <3>2
    <3>4. JobOK(w)'
      BY <1>1, <1>2, <1>4, <2>1, <3>1, <3>3
      DEF JobOK, Delivering, Posting, Working, Reviewing
    <3>5. Advanced(wk[w], p)
      BY <1>3, <1>4, <3>1 DEF Advanced, Delivering, Posting, Reviewing
    <3> QED BY <1>1, <1>2, <3>3, <3>4, <3>5, AdvanceStep
  <2>2. CASE wk[w].sha # head
    <3>1. wk' = [wk EXCEPT ![w] = Failed(wk[w])]
      BY <1>9, <2>2 DEF CloneHead
    <3> QED BY <1>1, <1>8, <3>1, ReleasedProcesses
  <2> QED BY <2>1, <2>2
<1>10. CASE ReviewFails(w)
  <2>1. PICK handled \in {TransientReview(wk[w]), Failed(wk[w])} :
          wk' = [wk EXCEPT ![w] = handled]
    BY <1>10 DEF ReviewFails
  <2>2. Released(wk[w], handled)
    BY <1>1, ReleasedProcesses
  <2> QED BY <1>8, <2>1, <2>2
<1> QED BY <1>5, <1>6, <1>7, <1>9, <1>10

(* A step that leaves the table alone and releases the job. *)
LEMMA LetGo ==
    ASSUME IInv, NEW w \in Workers, wk[w].at \in Reviewing \cup Posting,
           wk' \in [Workers -> Process],
           \A v \in Workers \ {w} : wk'[v] = wk[v],
           Released(wk[w], wk'[w]),
           rows' = rows,
           landed \subseteq landed', landed' \subseteq Review,
           World', lostAcks <= lostAcks'
    PROVE  IInv'
<1>1. KeptTable(rows, rows', w)
  BY Kept0
<1>2. wk[w].at \in Working /\ wk[w].at # "close"
  BY DEF Working, Reviewing, Posting
<1> QED BY <1>1, <1>2, ReleaseStep

LEMMA CancelCheckStep ==
    ASSUME IInv, NEW w \in Workers, PassCancelCheck(w)
    PROVE  IInv'
<1>1. /\ wk[w] \in Process /\ Typed /\ landed \subseteq Review /\ JobOK(w)
      /\ wk[w].at = "graph"
  BY DEF IInv, Typed, PassCancelCheck
<1> DEFINE p == [wk[w] EXCEPT !.at = "finish"]
           returned == IF wk[w].lost THEN Idle
                       ELSE IF rows[wk[w].run].cancel THEN Cancelled(wk[w])
                            ELSE p
<1>2. /\ wk[w].at \in Working /\ wk[w].at \in Reviewing
      /\ wk[w].run \in Present(rows) /\ wk[w].attempt >= 1 /\ ~wk[w].posted
      /\ wk[w].sha \in Heads
  BY <1>1 DEF JobOK, Working, Reviewing
<1>3. p \in Process /\ p.at = "finish" /\ p.run = wk[w].run
      /\ p.attempt = wk[w].attempt /\ ~p.posted /\ p.sha = wk[w].sha
  BY <1>1, <1>2 DEF Process, Steps, Working, Reviewing
<1> HIDE DEF p
<1>4. /\ Released(wk[w], Idle) /\ Released(wk[w], Cancelled(wk[w]))
      /\ Released(wk[w], Failed(wk[w]))
  BY <1>1, ReleasedProcesses
<1>5. returned \in Process /\ Failed(wk[w]) \in Process
  BY <1>3, <1>4 DEF Released
<1>6. /\ Call(w, rows, returned, Failed(wk[w]))
      /\ UNCHANGED <<head, hooks, retiring, landed>>
  BY DEF PassCancelCheck, p
<1>7. returned \in {Idle, Cancelled(wk[w]), p}
  OBVIOUS
<1> HIDE DEF returned
<1>8. /\ World' /\ lostAcks <= lostAcks' /\ rows' = rows
      /\ wk' \in [Workers -> Process] /\ landed' = landed
      /\ \A v \in Workers \ {w} : wk'[v] = wk[v]
      /\ wk'[w] \in {returned, Failed(wk[w])}
  BY <1>1, <1>5, <1>6, CallOutcome
<1>9. CASE Released(wk[w], wk'[w])
  BY <1>1, <1>2, <1>8, <1>9, LetGo
<1>10. CASE wk'[w] = p
  <2>1. JobOK(w)'
    BY <1>2, <1>3, <1>8, <1>10
    DEF JobOK, Delivering, Posting, Working, Reviewing
  <2>2. Advanced(wk[w], wk'[w])
    BY <1>1, <1>2, <1>3, <1>10 DEF Advanced, Delivering, Posting
  <2> QED BY <1>1, <1>8, <2>1, <2>2, AdvanceStep
<1> QED BY <1>4, <1>7, <1>8, <1>9, <1>10

LEMMA PostSteps ==
    ASSUME IInv, NEW w \in Workers,
           CheckMarker(w) \/ PostReview(w) \/ PostFails(w)
    PROVE  IInv'
<1>1. /\ wk[w] \in Process /\ wk \in [Workers -> Process] /\ Typed
      /\ landed \subseteq Review /\ lostAcks \in Nat /\ JobOK(w)
      /\ wk[w].at \in Posting
  BY FaultsAssumption
  DEF IInv, Typed, World, CheckMarker, PostReview, PostFails, Posting
<1>2. /\ wk[w].at \in Working /\ wk[w].at \in Delivering
      /\ wk[w].run \in Present(rows) /\ wk[w].attempt \in 1..MaxAttempts
      /\ ~wk[w].posted /\ wk[w].sha \in Heads /\ wk[w].payload \in 1..MaxAttempts
  BY <1>1 DEF JobOK, Working, Delivering, Process
<1>3. rows' = rows /\ lostAcks' = lostAcks /\ UNCHANGED <<head, hooks, retiring>>
  BY DEF CheckMarker, PostReview, PostFails
<1>4. Landing(wk[w]) \in Review
  BY <1>2 DEF Landing, Review, Present
<1>5. CASE CheckMarker(w)
  <2>1. World' /\ landed' = landed
    BY <1>1, <1>5 DEF CheckMarker, Typed, World
  <2>2. CASE /\ MarkerListed(wk[w].sha)
             /\ wk' = [wk EXCEPT ![w].at = "settle", ![w].posted = FALSE]
    <3> DEFINE p == [wk[w] EXCEPT !.at = "settle", !.posted = FALSE]
    <3>1. /\ p \in Process /\ p.at = "settle" /\ ~p.posted
          /\ Advanced(wk[w], p)
          /\ p.run = wk[w].run /\ p.attempt = wk[w].attempt
          /\ p.sha = wk[w].sha /\ p.payload = wk[w].payload
      <4>1. "settle" \in Steps
        BY DEF Steps, Working, Writing
      <4> QED BY <1>1, <1>2, <4>1 DEF Process, Advanced, Posting
    <3>2. wk' = [wk EXCEPT ![w] = p]
      BY <2>2
    <3> HIDE DEF p
    <3>3. /\ wk'[w] = p /\ wk' \in [Workers -> Process]
          /\ \A v \in Workers \ {w} : wk'[v] = wk[v]
      BY <1>1, <3>1, <3>2
    <3>4. JobOK(w)'
      BY <1>2, <1>3, <2>1, <2>2, <3>1, <3>3
      DEF JobOK, Delivering, Posting, Working, Writing, Reviewing, Reviewed,
          MarkerListed
    <3> QED BY <1>1, <1>3, <2>1, <3>1, <3>3, <3>4, AdvanceStep
  <2>3. CASE wk' = [wk EXCEPT ![w].at = "post"]
    <3> DEFINE p == [wk[w] EXCEPT !.at = "post"]
    <3>1. /\ p \in Process /\ p.at = "post" /\ ~p.posted
          /\ Advanced(wk[w], p)
          /\ p.run = wk[w].run /\ p.attempt = wk[w].attempt
          /\ p.sha = wk[w].sha /\ p.payload = wk[w].payload
      <4>1. "post" \in Steps
        BY DEF Steps, Working, Posting
      <4> QED BY <1>1, <1>2, <4>1 DEF Process, Advanced, Posting
    <3>2. wk' = [wk EXCEPT ![w] = p]
      BY <2>3
    <3> HIDE DEF p
    <3>3. /\ wk'[w] = p /\ wk' \in [Workers -> Process]
          /\ \A v \in Workers \ {w} : wk'[v] = wk[v]
      BY <1>1, <3>1, <3>2
    <3>4. JobOK(w)'
      BY <1>2, <1>3, <3>1, <3>3
      DEF JobOK, Delivering, Posting, Working, Reviewing
    <3> QED BY <1>1, <1>3, <2>1, <3>1, <3>3, <3>4, AdvanceStep
  <2> QED BY <1>5, <2>2, <2>3 DEF CheckMarker
<1>6. CASE PostReview(w)
  <2>1. /\ World' /\ landed' = landed \cup {Landing(wk[w])}
        /\ wk' = [wk EXCEPT ![w].at = "settle", ![w].posted = TRUE]
    BY <1>1, <1>6 DEF PostReview, Typed, World
  <2> DEFINE p == [wk[w] EXCEPT !.at = "settle", !.posted = TRUE]
  <2>2. /\ p \in Process /\ p.at = "settle"
        /\ Advanced(wk[w], p)
        /\ p.run = wk[w].run /\ p.attempt = wk[w].attempt
        /\ p.sha = wk[w].sha /\ p.payload = wk[w].payload
    <3>1. "settle" \in Steps
      BY DEF Steps, Working, Writing
    <3> QED BY <1>1, <1>2, <3>1 DEF Process, Advanced, Posting
  <2>3. wk' = [wk EXCEPT ![w] = p]
    BY <2>1
  <2> HIDE DEF p
  <2>4. /\ wk'[w] = p /\ wk' \in [Workers -> Process]
        /\ \A v \in Workers \ {w} : wk'[v] = wk[v]
    BY <1>1, <2>2, <2>3
  <2>5. \E v \in landed' : v.run = wk[w].run /\ v.payload = wk[w].payload
                            /\ v.sha = wk[w].sha
    <3>1. Landing(wk[w]) \in landed'
      BY <2>1
    <3>2. /\ Landing(wk[w]).run = wk[w].run
          /\ Landing(wk[w]).payload = wk[w].payload
          /\ Landing(wk[w]).sha = wk[w].sha
      BY DEF Landing
    <3> QED BY <3>1, <3>2
  <2>6. JobOK(w)'
    BY <1>2, <1>3, <2>2, <2>4, <2>5
    DEF JobOK, Delivering, Posting, Working, Writing, Reviewing, Reviewed
  <2>7. landed \subseteq landed' /\ landed' \subseteq Review
    BY <1>1, <1>4, <2>1
  <2> QED BY <1>1, <1>3, <2>1, <2>2, <2>4, <2>6, <2>7, AdvanceStep
<1>7. CASE PostFails(w)
  <2>1. PICK handled \in {TransientPost(wk[w]), Unexpected(wk[w]), Failed(wk[w])} :
          Becomes(w, handled)
    BY <1>7 DEF PostFails
  <2>2. landed \subseteq landed' /\ landed' \subseteq Review
    BY <1>1, <1>4, <1>7 DEF PostFails
  <2>3. Released(wk[w], handled)
    BY <1>1, ReleasedProcesses
  <2>4. /\ wk' \in [Workers -> Process] /\ wk'[w] = handled
        /\ \A v \in Workers \ {w} : wk'[v] = wk[v]
        /\ deaths' \in 0..MaxDeaths
    BY <1>1, <2>1, <2>3, BecomesOutcome DEF Released
  <2>5. World'
    BY <1>1, <1>3, <2>4 DEF Typed, World
  <2> QED BY <1>1, <1>3, <2>2, <2>3, <2>4, <2>5, LetGo
<1> QED BY <1>5, <1>6, <1>7

LEMMA BeatStep ==
    ASSUME IInv, NEW w \in Workers, Beat(w)
    PROVE  IInv'
<1>1. /\ wk[w] \in Process /\ wk \in [Workers -> Process] /\ Typed
      /\ rows \in Table /\ landed \subseteq Review /\ lostAcks \in Nat
      /\ JobOK(w) /\ HeldOK(w) /\ \A r \in Runs : RowOK(rows[r])
      /\ wk[w].run \in Runs /\ wk[w].at \in Working
      /\ lostAcks' \in Nat
  BY FaultsAssumption DEF IInv, Typed, World, Beat, JobOK, Present
<1>2. /\ KeptTable(rows, rows', w)
      /\ \A r \in Runs : /\ rows'[r].state = rows[r].state
                         /\ rows'[r].worker = rows[r].worker
  <2>1. rows' \in {rows, Heartbeat(rows, wk[w].run, w)}
    BY DEF Beat
  <2>2. \A r \in Runs :
            LET new == Heartbeat(rows, wk[w].run, w) IN
            new[r].state = rows[r].state /\ new[r].worker = rows[r].worker
    BY <1>1 DEF Heartbeat, Table, Row
  <2> QED BY <1>1, <2>1, <2>2, Kept0, HeartbeatKeeps
<1>3. /\ wk' \in [Workers -> Process]
      /\ \A v \in Workers \ {w} : wk'[v] = wk[v]
      /\ wk'[w] \in Process
      /\ wk'[w].at = wk[w].at
      /\ wk'[w].run = wk[w].run /\ wk'[w].attempt = wk[w].attempt
      /\ wk'[w].sha = wk[w].sha /\ wk'[w].payload = wk[w].payload
      /\ wk'[w].degraded = wk[w].degraded /\ wk'[w].posted = wk[w].posted
      /\ wk'[w].ending = wk[w].ending
  <2> DEFINE p == [wk[w] EXCEPT !.beating = FALSE]
             q == [wk[w] EXCEPT !.beating = FALSE, !.lost = TRUE]
  <2>1. \/ wk' = wk
        \/ wk' = [wk EXCEPT ![w] = p]
        \/ wk' = [wk EXCEPT ![w] = q]
    BY DEF Beat
  <2>2. /\ p \in Process /\ p.at = wk[w].at
        /\ p.run = wk[w].run /\ p.attempt = wk[w].attempt
        /\ p.sha = wk[w].sha /\ p.payload = wk[w].payload
        /\ p.degraded = wk[w].degraded /\ p.posted = wk[w].posted
        /\ p.ending = wk[w].ending
    BY <1>1 DEF Process
  <2>3. /\ q \in Process /\ q.at = wk[w].at
        /\ q.run = wk[w].run /\ q.attempt = wk[w].attempt
        /\ q.sha = wk[w].sha /\ q.payload = wk[w].payload
        /\ q.degraded = wk[w].degraded /\ q.posted = wk[w].posted
        /\ q.ending = wk[w].ending
    BY <1>1 DEF Process
  <2> HIDE DEF p, q
  <2> QED BY <1>1, <2>1, <2>2, <2>3
<1>4. World' /\ lostAcks <= lostAcks' /\ landed' = landed
  BY <1>1, FaultsAssumption DEF Beat, Typed, World
<1>5. JobOK(w)'
  <2>1. wk[w].run \in Present(rows')
    BY <1>1, <1>2 DEF JobOK, Present
  <2>2. rows'[wk[w].run].dry = rows[wk[w].run].dry
    BY <1>1, <1>2 DEF KeptTable, Kept
  <2> QED BY <1>1, <1>3, <1>4, <2>1, <2>2 DEF JobOK, Reviewed
<1>6. HeldOK(w)'
  <2>1. Kept(rows[wk[w].run], rows'[wk[w].run], w)
        /\ rows'[wk[w].run].state = rows[wk[w].run].state
        /\ rows'[wk[w].run].worker = rows[wk[w].run].worker
    BY <1>1, <1>2 DEF KeptTable
  <2> QED BY <1>1, <1>3, <1>4, <2>1 DEF HeldOK, Holds, Owns, Kept
<1> QED BY <1>1, <1>2, <1>3, <1>4, <1>5, <1>6, KeepStep

-----------------------------------------------------------------------------
(* Steps that change what a row says. *)

(* A write to one row, which is the actor's from then on. *)
LEMMA OwnRowStep ==
    ASSUME IInv, NEW w \in Workers, NEW id \in Present(rows),
           rows' \in Table,
           \A r \in Runs \ {id} : rows'[r] = rows[r],
           rows'[id].worker = w, rows'[id].state # "absent",
           rows'[id].dry = rows[id].dry,
           RowOK(rows'[id]), RowTrue(id)',
           wk' \in [Workers -> Process],
           \A v \in Workers \ {w} : wk'[v] = wk[v],
           landed' = landed, World', lostAcks <= lostAcks',
           JobOK(w)', HeldOK(w)'
    PROVE  IInv'
<1>1. /\ landed \subseteq Review /\ Contiguous
      /\ \A r \in Runs : RowOK(rows[r]) /\ RowTrue(r)
      /\ id \in Runs /\ rows[id].state # "absent"
  BY DEF IInv, Typed, Present
<1>2. Contiguous'
  <2>1. Present(rows') = Present(rows)
    BY <1>1 DEF Present
  <2> QED BY <1>1, <2>1 DEF Contiguous
<1>3. ASSUME NEW r \in Runs PROVE RowOK(rows'[r]) /\ RowTrue(r)'
  <2>1. RowOK(rows[r]) /\ RowTrue(r)
    BY <1>1
  <2>2. CASE r # id
    BY <2>1, <2>2 DEF RowTrue, Reviewed
  <2> QED BY <2>2
<1>4. \A r \in Present(rows) :
        rows'[r].state # "absent" /\ rows'[r].dry = rows[r].dry
  BY DEF Present
<1>5. \A r \in Present(rows), v \in Workers \ {w} :
        rows'[r].worker = v => Same(rows[r], rows'[r])
  BY DEF Present, Same
<1>6. lostAcks' \in Nat
  BY FaultsAssumption DEF World
<1>7. \A v \in Workers \ {w} : JobOK(v)' /\ HeldOK(v)'
  BY <1>4, <1>5, <1>6, OthersKeep
<1> QED BY <1>1, <1>2, <1>3, <1>7 DEF IInv, Typed

(* A claim takes the row from whoever had it. *)
LEMMA TakenOver ==
    ASSUME IInv, NEW w \in Workers, NEW id \in Claimable(rows),
           rows' = Claim(rows, id, w),
           wk' \in [Workers -> Process],
           \A v \in Workers \ {w} : wk'[v] = wk[v],
           landed' = landed, World', lostAcks <= lostAcks',
           JobOK(w)', HeldOK(w)'
    PROVE  IInv'
<1>1. rows \in Table
  BY DEF IInv, Typed
<1>2. /\ id \in Runs /\ rows' \in Table
      /\ \A r \in Runs \ {id} : rows'[r] = rows[r]
      /\ rows[id].state \in {"queued", "post_pending", "running"}
      /\ rows'[id].state = "running" /\ rows'[id].worker = w
      /\ rows'[id].payload = rows[id].payload
      /\ rows'[id].sha = rows[id].sha /\ rows'[id].dry = rows[id].dry
      /\ rows'[id].degraded = rows[id].degraded
      /\ rows'[id].flagged = rows[id].flagged
  BY <1>1, ClaimRow
<1>3. id \in Present(rows) /\ RowOK(rows[id]) /\ RowTrue(id)
  BY <1>2 DEF IInv, Present
<1>4. RowOK(rows'[id]) /\ RowTrue(id)'
  BY <1>2, <1>3 DEF RowOK, RowTrue
<1> QED BY <1>2, <1>3, <1>4, OwnRowStep

LEMMA ClaimStep ==
    ASSUME IInv, NEW w \in Workers, ClaimRun(w)
    PROVE  IInv'
<1>1. /\ rows \in Table /\ wk[w] \in Process /\ Typed
      /\ landed \subseteq Review /\ lostAcks \in Nat
      /\ \A r \in Runs : RowOK(rows[r])
  BY FaultsAssumption DEF IInv, Typed, World
<1>2. PICK skipped \in SUBSET LockedByOthers(w) :
        LET eligible == Claimable(rows) \ skipped
            r == Oldest(eligible)
            row == [id |-> r, prior |-> rows[r].state, sha |-> rows[r].sha,
                    attempts |-> rows[r].attempts + 1,
                    payload |-> rows[r].payload,
                    degraded |-> rows[r].degraded]
        IN IF eligible = {} THEN Call(w, rows, Idle, Idle)
           ELSE Call(w, Claim(rows, r, w), Take(row), Idle)
  BY DEF ClaimRun
<1> DEFINE eligible == Claimable(rows) \ skipped
           id == Oldest(eligible)
           row == [id |-> id, prior |-> rows[id].state, sha |-> rows[id].sha,
                   attempts |-> rows[id].attempts + 1,
                   payload |-> rows[id].payload,
                   degraded |-> rows[id].degraded]
<1>3. UNCHANGED <<head, hooks, retiring, landed>>
  BY DEF ClaimRun
<1>4. Released(wk[w], Idle) /\ Idle.at = "reap" /\ Idle \in Process
  BY <1>1, ReleasedProcesses DEF Idle, Released
<1>5. ASSUME rows' = rows, wk'[w] = Idle, World', lostAcks <= lostAcks',
             wk' \in [Workers -> Process],
             \A v \in Workers \ {w} : wk'[v] = wk[v]
      PROVE  IInv'
  <2>1. KeptTable(rows, rows', w)
    BY <1>5, Kept0
  <2> QED BY <1>1, <1>3, <1>4, <1>5, <2>1, ReleaseStep DEF Handling
<1>6. CASE eligible = {}
  <2>1. Call(w, rows, Idle, Idle)
    BY <1>2, <1>6
  <2>2. /\ World' /\ lostAcks <= lostAcks' /\ rows' = rows
        /\ wk' \in [Workers -> Process] /\ wk'[w] = Idle
        /\ \A v \in Workers \ {w} : wk'[v] = wk[v]
    BY <1>1, <1>3, <1>4, <2>1, CallOutcome
  <2> QED BY <1>5, <2>2
<1>7. CASE eligible # {}
  <2>1. Call(w, Claim(rows, id, w), Take(row), Idle)
    BY <1>2, <1>7
  <2>2. id \in Claimable(rows)
    <3>1. eligible \subseteq Nat
      BY DEF Claimable, Runs
    <3> QED BY <1>7, <3>1, OldestIsOne
  <2> DEFINE new == Claim(rows, id, w)
  <2>3. /\ id \in Runs /\ new \in Table
        /\ rows[id] \in Row /\ RowOK(rows[id])
        /\ rows[id].state \in {"queued", "post_pending", "running"}
        /\ new[id].state = "running" /\ new[id].worker = w
        /\ new[id].attempts = rows[id].attempts + 1
        /\ new[id].attempts \in 1..MaxAttempts
        /\ new[id].payload = rows[id].payload
        /\ new[id].sha = rows[id].sha
        /\ new[id].degraded = rows[id].degraded
    BY <1>1, <2>2, ClaimRow, ZenonT(30) DEF Table
  <2> HIDE DEF new, id
  <2> DEFINE claimed == [Idle EXCEPT !.run = id,
                                     !.attempt = rows[id].attempts + 1]
             fresh  == [claimed EXCEPT !.at = "head", !.beating = TRUE]
             repost == [claimed EXCEPT !.repost = TRUE, !.sha = rows[id].sha,
                            !.payload = rows[id].payload,
                            !.degraded = rows[id].degraded]
             due    == [repost EXCEPT !.at = "check"]
  <2>4. /\ 0 \in 0..MaxRuns /\ id \in 0..MaxRuns
        /\ rows[id].attempts + 1 \in 0..MaxAttempts /\ 0 \in 0..MaxAttempts
        /\ rows[id].attempts + 1 >= 1
        /\ rows[id].sha \in 0..MaxPushes /\ 0 \in 0..MaxPushes
        /\ rows[id].payload \in 0..MaxAttempts
        /\ rows[id].degraded \in BOOLEAN
        /\ "head" \in Steps /\ "check" \in Steps /\ "reap" \in Steps
    BY <2>3, BoundsAssumption
    DEF Row, Runs, Steps, Working, Reviewing, Posting
  <2>5. /\ fresh \in Process /\ fresh.at = "head" /\ fresh.run = id
        /\ fresh.attempt = rows[id].attempts + 1 /\ ~fresh.posted
    BY <2>4 DEF Idle, Process
  <2>6. /\ repost \in Process /\ repost.run = id /\ ~repost.beating
        /\ repost.attempt = rows[id].attempts + 1
    BY <2>4 DEF Idle, Process
  <2>7. /\ due \in Process /\ due.at = "check" /\ due.run = id
        /\ due.attempt = rows[id].attempts + 1 /\ ~due.posted /\ ~due.beating
        /\ due.sha = rows[id].sha /\ due.payload = rows[id].payload
        /\ due.degraded = rows[id].degraded
    BY <2>4 DEF Idle, Process
  <2>8. /\ Failed(repost) \in Process /\ Failed(repost).at = "close"
        /\ Failed(repost).run = id /\ ~Failed(repost).beating
        /\ Failed(repost).attempt = rows[id].attempts + 1
    <3>1. Released(repost, Failed(repost))
      BY <2>6, ReleasedProcesses
    <3>2. Failed(repost).at = "close" /\ ~Failed(repost).beating
      BY <2>6 DEF Failed, Handler, Idle
    <3> QED BY <2>6, <3>1, <3>2 DEF Released, Handling
  <2>9. Take(row) = IF rows[id].state = "post_pending"
                    THEN IF rows[id].payload = 0 THEN Failed(repost) ELSE due
                    ELSE fresh
    BY DEF Take
  <2> HIDE DEF claimed, fresh, repost, due, row
  <2>10. Take(row) \in Process
    BY <2>5, <2>7, <2>8, <2>9
  <2>11. /\ World' /\ lostAcks <= lostAcks'
         /\ wk' \in [Workers -> Process]
         /\ \A v \in Workers \ {w} : wk'[v] = wk[v]
         /\ \/ rows' = new /\ wk'[w] = Take(row)
            \/ rows' \in {rows, new} /\ wk'[w] = Idle
    BY <1>1, <1>3, <1>4, <2>1, <2>10, CallOutcome DEF new
  <2>12. CASE rows' = new /\ wk'[w] = Idle
    <3>1. JobOK(w)' /\ HeldOK(w)'
      BY <2>12 DEF Idle, JobOK, HeldOK, Holds, Working, Reviewing, Posting,
         Writing, Delivering
    <3> QED BY <1>3, <2>2, <2>11, <2>12, <3>1, TakenOver DEF new
  <2>13. CASE rows' = new /\ wk'[w] = Take(row)
    <3>1. id \in Present(rows')
      BY <2>3, <2>13 DEF Present
    <3>2. JobOK(w)' /\ HeldOK(w)'
      <4>1. CASE wk'[w] = fresh
        BY <2>3, <2>4, <2>5, <2>13, <3>1, <4>1
        DEF JobOK, HeldOK, Working, Reviewing, Posting, Writing, Delivering,
            Terminal
      <4>2. CASE wk'[w] = Failed(repost)
        BY <2>3, <2>4, <2>8, <2>13, <3>1, <4>2
        DEF JobOK, HeldOK, Working, Reviewing, Posting, Writing, Delivering,
            Terminal
      <4>3. CASE wk'[w] = due /\ rows[id].payload # 0
        <5>1. rows[id].sha \in Heads /\ rows[id].payload >= 1
          BY <2>3, <2>4, <4>3 DEF RowOK
        <5> QED
          BY <2>3, <2>4, <2>7, <2>13, <3>1, <4>3, <5>1
          DEF JobOK, HeldOK, Working, Reviewing, Posting, Writing, Delivering,
              Terminal
      <4> QED BY <2>9, <2>13, <4>1, <4>2, <4>3
    <3> QED BY <1>3, <2>2, <2>11, <2>13, <3>2, TakenOver DEF new
  <2> QED BY <1>5, <2>11, <2>12, <2>13
<1> QED BY <1>6, <1>7

LEMMA PersistStep ==
    ASSUME IInv, NEW w \in Workers, PersistResult(w)
    PROVE  IInv'
<1>0. PICK p : p = wk[w]
  OBVIOUS
<1> DEFINE new == RecordResult(rows, p.run, w, p.attempt, p.sha, p.degraded)
           next == [p EXCEPT !.at = IF rows[p.run].dry THEN "settle"
                                    ELSE "check"]
           returned == IF Owns(rows, p.run, w) THEN next ELSE Idle
<1>1. /\ rows \in Table /\ p \in Process /\ p = wk[w] /\ Typed
      /\ landed \subseteq Review /\ JobOK(w) /\ HeldOK(w)
      /\ \A r \in Runs : RowOK(rows[r])
  BY <1>0 DEF IInv, Typed
<1>2. /\ p.at = "record" /\ UNCHANGED <<head, hooks, retiring, landed>>
      /\ Call(w, new, returned, Failed(p))
  BY <1>0 DEF PersistResult
<1>3. /\ p.at \in Working /\ p.at # "close" /\ p.run \in Present(rows)
      /\ p.run \in Runs /\ p.attempt \in 1..MaxAttempts
      /\ p.payload = p.attempt /\ p.sha \in Heads /\ ~p.posted
      /\ p.sha \in 0..MaxPushes /\ p.degraded \in BOOLEAN
  BY <1>1, <1>2 DEF JobOK, Working, Writing, Present, Process
<1>4. /\ Released(p, Idle) /\ Released(p, Failed(p))
      /\ Idle \in Process /\ Failed(p) \in Process
      /\ Failed(p).at = "close" /\ Failed(p).run = p.run
      /\ Failed(p).attempt = p.attempt
  <2>1. Failed(p).at = "close" /\ Failed(p).run = p.run
        /\ Failed(p).attempt = p.attempt
    BY DEF Failed, Handler, Idle
  <2> QED BY <1>1, <2>1, ReleasedProcesses DEF Released
<1>5. /\ next \in Process /\ next.at \in {"settle", "check"}
      /\ next.at = "settle" => rows[p.run].dry
      /\ next.run = p.run /\ next.attempt = p.attempt /\ ~next.posted
      /\ next.sha = p.sha /\ next.payload = p.payload
      /\ next.degraded = p.degraded
  <2>1. "settle" \in Steps /\ "check" \in Steps
    BY DEF Steps, Working, Writing, Posting
  <2> QED BY <1>1, <1>3, <2>1 DEF Process
<1>6. /\ returned \in Process
      /\ ~Owns(rows, p.run, w) => returned = Idle
      /\ Owns(rows, p.run, w) => returned = next
  BY <1>4, <1>5
<1> HIDE DEF next, new, returned
<1>7. /\ World' /\ lostAcks <= lostAcks'
      /\ wk' \in [Workers -> Process]
      /\ \A v \in Workers \ {w} : wk'[v] = wk[v]
      /\ \/ rows' = new /\ wk'[w] = returned
         \/ rows' \in {rows, new} /\ wk'[w] = Failed(p)
  BY <1>1, <1>2, <1>4, <1>6, CallOutcome, ZenonT(30)
<1>8. ASSUME rows' = rows, Released(p, wk'[w])
      PROVE  IInv'
  <2>1. KeptTable(rows, rows', w)
    BY <1>8, Kept0
  <2> QED BY <1>1, <1>2, <1>3, <1>7, <1>8, <2>1, ReleaseStep
<1>9. CASE ~Owns(rows, p.run, w)
  <2>1. new = rows
    BY <1>9 DEF new, RecordResult
  <2> QED BY <1>4, <1>6, <1>7, <1>8, <1>9, <2>1
<1>10. CASE Owns(rows, p.run, w) /\ rows' = new
  <2>1. /\ new \in Table
        /\ \A r \in Runs \ {p.run} : new[r] = rows[r]
        /\ new[p.run].state = "post_pending" /\ new[p.run].worker = w
        /\ new[p.run].attempts = rows[p.run].attempts
        /\ new[p.run].payload = p.payload /\ new[p.run].sha = p.sha
        /\ new[p.run].degraded = p.degraded /\ ~new[p.run].flagged
        /\ new[p.run].dry = rows[p.run].dry
    <3>1. p.attempt \in 0..MaxAttempts
      BY <1>3
    <3> QED BY <1>1, <1>3, <1>10, <3>1, RecordedRow DEF new
  <2>2. rows[p.run].attempts = p.attempt
    BY <1>1, <1>3, <1>10 DEF HeldOK, Holds
  <2>3. RowOK(rows'[p.run]) /\ RowTrue(p.run)'
    BY <1>3, <1>10, <2>1 DEF RowOK, RowTrue
  <2>4. p.run \in Present(rows')
    BY <1>3, <1>10, <2>1 DEF Present
  <2>5. CASE wk'[w] = next
    <3>1. JobOK(w)' /\ HeldOK(w)'
      <4>1. next.at \in Working
        BY <1>5 DEF Working, Posting, Writing
      <4>2. JobOK(w)'
        BY <1>2, <1>3, <1>5, <1>10, <2>1, <2>4, <2>5, <4>1
        DEF JobOK, Reviewing, Posting, Delivering
      <4>3. HeldOK(w)'
        BY <1>3, <1>5, <1>10, <2>1, <2>2, <2>5 DEF HeldOK, Terminal
      <4> QED BY <4>2, <4>3
    <3> QED BY <1>2, <1>3, <1>7, <1>10, <2>1, <2>3, <3>1, OwnRowStep
  <2>6. CASE wk'[w] = Failed(p)
    <3>1. JobOK(w)' /\ HeldOK(w)'
      BY <1>3, <1>4, <1>10, <2>1, <2>2, <2>4, <2>6
      DEF JobOK, HeldOK, Working, Reviewing, Posting, Writing, Delivering,
          Terminal
    <3> QED BY <1>2, <1>3, <1>7, <1>10, <2>1, <2>3, <3>1, OwnRowStep
  <2> QED BY <1>6, <1>7, <1>10, <2>5, <2>6
<1>11. CASE Owns(rows, p.run, w) /\ rows' # new
  BY <1>4, <1>7, <1>8, <1>11
<1> QED BY <1>9, <1>10, <1>11

LEMMA SettleStep ==
    ASSUME IInv, NEW w \in Workers, Settle(w)
    PROVE  IInv'
<1>0. PICK p : p = wk[w]
  OBVIOUS
<1> DEFINE state == IF p.degraded THEN "degraded" ELSE "published"
           new == MarkPosted(rows, p.run, w, state, p.posted)
<1>1. /\ rows \in Table /\ p \in Process /\ p = wk[w] /\ Typed
      /\ landed \subseteq Review /\ JobOK(w) /\ HeldOK(w)
      /\ \A r \in Runs : RowOK(rows[r]) /\ RowTrue(r)
  BY <1>0 DEF IInv, Typed
<1>2. /\ p.at = "settle" /\ UNCHANGED <<head, hooks, retiring, landed>>
      /\ Call(w, new, Idle, Unexpected(p))
  BY <1>0 DEF Settle
<1>3. /\ p.at \in Working /\ p.at \in Delivering /\ p.at # "close"
      /\ p.run \in Present(rows) /\ p.run \in Runs /\ p.attempt >= 1
      /\ p.posted \in BOOLEAN /\ p.degraded \in BOOLEAN
      /\ p.sha \in Heads
      /\ Reviewed(p.sha) \/ rows[p.run].dry
      /\ p.posted => \E v \in landed : v.run = p.run /\ v.payload = p.payload
  BY <1>1, <1>2 DEF JobOK, Working, Writing, Delivering, Present, Process
<1>4. /\ Released(p, Idle) /\ Released(p, Unexpected(p))
      /\ Idle \in Process /\ Unexpected(p) \in Process
      /\ Idle.at = "reap"
  BY <1>1, ReleasedProcesses DEF Released, Idle
<1>5. \/ Unexpected(p).at = "down" /\ ~Unexpected(p).beating
      \/ /\ Unexpected(p).at = "close" /\ Unexpected(p).ending = "failed"
         /\ Unexpected(p).run = p.run /\ Unexpected(p).attempt = p.attempt
  BY DEF Unexpected, Down, Failed, Handler, Idle
<1> HIDE DEF new, state
<1>6. /\ World' /\ lostAcks <= lostAcks'
      /\ wk' \in [Workers -> Process]
      /\ \A v \in Workers \ {w} : wk'[v] = wk[v]
      /\ \/ rows' = new /\ wk'[w] = Idle
         \/ rows' \in {rows, new} /\ wk'[w] = Unexpected(p) /\ lostAcks' > 0
  BY <1>1, <1>2, <1>4, CallOutcome
<1>7. ASSUME rows' = rows, Released(p, wk'[w])
      PROVE  IInv'
  <2>1. KeptTable(rows, rows', w)
    BY <1>7, Kept0
  <2> QED BY <1>1, <1>2, <1>3, <1>6, <1>7, <2>1, ReleaseStep
<1>8. CASE ~Owns(rows, p.run, w)
  <2>1. new = rows
    BY <1>8 DEF new, MarkPosted
  <2> QED BY <1>4, <1>6, <1>7, <2>1
<1>9. CASE Owns(rows, p.run, w) /\ rows' = new
  <2>1. /\ new \in Table
        /\ \A r \in Runs \ {p.run} : new[r] = rows[r]
        /\ new[p.run].state = state /\ new[p.run].worker = w
        /\ new[p.run].attempts = rows[p.run].attempts
        /\ new[p.run].payload = rows[p.run].payload
        /\ new[p.run].sha = rows[p.run].sha
        /\ new[p.run].degraded = rows[p.run].degraded
        /\ new[p.run].dry = rows[p.run].dry
        /\ new[p.run].flagged = (rows[p.run].flagged \/ p.posted)
    <3>1. state \in {"published", "degraded"}
      BY DEF state
    <3> QED BY <1>1, <1>3, <1>9, <3>1, PostedRow DEF new
  <2>2. /\ rows[p.run].attempts = p.attempt
        /\ rows[p.run].sha = p.sha /\ rows[p.run].payload = p.payload
        /\ rows[p.run].degraded = p.degraded
    BY <1>1, <1>3, <1>9 DEF HeldOK, Holds
  <2>3. RowOK(rows'[p.run])
    BY <1>1, <1>3, <1>9, <2>1 DEF RowOK, state
  <2>4. RowTrue(p.run)'
    <3>1. \/ \E v \in landed' : v.sha = rows'[p.run].sha
          \/ rows'[p.run].dry
      BY <1>2, <1>3, <1>9, <2>1, <2>2 DEF Reviewed
    <3>2. rows'[p.run].flagged =>
            \E v \in landed' : v.run = p.run /\ v.payload = rows'[p.run].payload
      BY <1>1, <1>2, <1>3, <1>9, <2>1, <2>2 DEF RowTrue
    <3>3. /\ rows'[p.run].state = "published" => ~rows'[p.run].degraded
          /\ rows'[p.run].state = "degraded" => rows'[p.run].degraded
      BY <1>9, <2>1, <2>2 DEF state
    <3> QED BY <3>1, <3>2, <3>3 DEF RowTrue, Reviewed
  <2>5. p.run \in Present(rows')
    BY <1>3, <1>9, <2>1 DEF Present, state
  <2>6. rows'[p.run].state # "absent"
    BY <2>5 DEF Present
  <2>7. CASE wk'[w].at \in {"reap", "down"} /\ ~wk'[w].beating
    <3>1. JobOK(w)' /\ HeldOK(w)'
      BY <2>7 DEF JobOK, HeldOK, Holds, Working, Reviewing, Posting, Writing,
         Delivering
    <3> QED BY <1>2, <1>3, <1>6, <1>9, <2>1, <2>3, <2>4, <2>6, <3>1, OwnRowStep
  <2>8. CASE /\ wk'[w].at = "close" /\ wk'[w].ending = "failed"
             /\ wk'[w].run = p.run /\ wk'[w].attempt = p.attempt
             /\ lostAcks' > 0
    <3>1. JobOK(w)' /\ HeldOK(w)'
      BY <1>3, <1>9, <2>1, <2>2, <2>5, <2>8
      DEF JobOK, HeldOK, Working, Reviewing, Posting, Writing, Delivering
    <3> QED BY <1>2, <1>3, <1>6, <1>9, <2>1, <2>3, <2>4, <2>6, <3>1, OwnRowStep
  <2>9. ~Idle.beating
    BY DEF Idle
  <2> QED BY <1>4, <1>5, <1>6, <2>7, <2>8, <2>9
<1>10. CASE Owns(rows, p.run, w) /\ rows' # new
  BY <1>4, <1>6, <1>7, <1>10
<1> QED BY <1>8, <1>9, <1>10

-----------------------------------------------------------------------------
(* The clock, the API and GitHub. *)

LEMMA NextIdIsFree ==
    ASSUME Contiguous, NextId \in Runs
    PROVE  /\ rows[NextId].state = "absent"
           /\ \E n \in 0..MaxRuns : /\ Present(rows) \cup {NextId} = 1..n
<1>1. PICK n \in 0..MaxRuns : Present(rows) = 1..n
  BY DEF Contiguous
<1>2. Cardinality(1..n) = n
  BY <1>1, FS_Interval, BoundsAssumption
<1>3. NextId = n + 1 /\ n + 1 \in 1..MaxRuns /\ n \in Nat
  BY <1>1, <1>2, BoundsAssumption DEF NextId, Runs
<1>4. NextId \notin Present(rows)
  BY <1>1, <1>3
<1>5. Present(rows) \cup {NextId} = 1..(n + 1)
  BY <1>1, <1>3
<1>6. n + 1 \in 0..MaxRuns
  BY <1>3
<1> QED BY <1>4, <1>5, <1>6 DEF Present

(* A new row, and what the cancelling then does to the others. *)
LEMMA InsertStep ==
    ASSUME IInv, NextId \in Runs,
           NEW sha \in 0..MaxPushes, NEW delivery \in 0..MaxDeliveries,
           NEW dry \in BOOLEAN,
           KeptTable(InsertQueued(rows, NextId, sha, delivery, dry), rows',
                     NoWorker),
           UNCHANGED <<wk, landed, lostAcks>>, World'
    PROVE  IInv'
<1>0. PICK id \in Runs : id = NextId
  OBVIOUS
<1> DEFINE new == InsertQueued(rows, id, sha, delivery, dry)
<1>1. /\ rows \in Table /\ landed \subseteq Review /\ Contiguous /\ World
      /\ wk \in [Workers -> Process] /\ lostAcks \in Nat
      /\ \A r \in Runs : RowOK(rows[r]) /\ RowTrue(r)
  BY FaultsAssumption DEF IInv, Typed, World
<1>2. /\ new \in Table /\ \A r \in Runs : RowOK(new[r])
      /\ \A r \in Runs \ {id} : new[r] = rows[r]
      /\ new[id].state = "queued" /\ new[id].worker = NoWorker
      /\ new[id].payload = 0 /\ ~new[id].flagged
  BY <1>1, InsertedRow
<1>3. KeptTable(new, rows', NoWorker)
  BY <1>0
<1> HIDE DEF new
<1>4. /\ \A r \in Runs : RowOK(rows'[r])
      /\ Present(rows') = Present(new)
      /\ rows' \in Table
      /\ \A r \in Runs : Kept(new[r], rows'[r], NoWorker)
  BY <1>2, <1>3, KeptShapes DEF KeptTable
<1>5. rows[id].state = "absent" /\ \E n \in 0..MaxRuns : Present(rows) \cup {id} = 1..n
  BY <1>0, <1>1, NextIdIsFree
<1>6. Contiguous'
  <2>1. Present(new) = Present(rows) \cup {id}
    BY <1>2 DEF Present
  <2> QED BY <1>4, <1>5, <2>1 DEF Contiguous
<1>7. ASSUME NEW r \in Runs PROVE RowTrue(r)'
  <2>1. Kept(new[r], rows'[r], NoWorker) /\ RowTrue(r) /\ landed' = landed
    BY <1>1, <1>4
  <2>2. rows'[r].state \in {"published", "degraded"}
          => rows'[r].state = new[r].state
    BY <2>1 DEF Kept
  <2>3. CASE r = id
    BY <1>2, <2>1, <2>2, <2>3 DEF RowTrue, Kept
  <2>4. CASE r # id
    <3>1. new[r] = rows[r]
      BY <1>2, <2>4
    <3> QED BY <2>1, <2>2, <3>1 DEF RowTrue, Kept, Reviewed
  <2> QED BY <2>3, <2>4
<1>8. ASSUME NEW r \in Present(rows)
      PROVE  r \in Runs /\ new[r] = rows[r] /\ Kept(rows[r], rows'[r], NoWorker)
  <2>1. r \in Runs /\ r # id
    BY <1>5 DEF Present
  <2>2. new[r] = rows[r] /\ Kept(new[r], rows'[r], NoWorker)
    BY <1>2, <1>4, <2>1
  <2> QED BY <2>1, <2>2
<1>9. \A r \in Present(rows) :
        rows'[r].state # "absent" /\ rows'[r].dry = rows[r].dry
  BY <1>8 DEF Present, Kept
<1>10. \A r \in Present(rows), v \in Workers \ {NoWorker} :
        rows'[r].worker = v => Same(rows[r], rows'[r])
  <2> SUFFICES ASSUME NEW r \in Present(rows), NEW v \in Workers, v # NoWorker,
                      rows'[r].worker = v
               PROVE  Same(rows[r], rows'[r])
    OBVIOUS
  <2>1. Kept(rows[r], rows'[r], NoWorker) /\ v # NoWorker
    BY <1>8
  <2> QED BY <2>1, WorkersAssumption DEF Kept, Same
<1>11. \A v \in Workers \ {NoWorker} : wk'[v] = wk[v]
  OBVIOUS
<1>12. landed \subseteq landed' /\ lostAcks' \in Nat /\ lostAcks <= lostAcks'
  BY <1>1, FaultsAssumption
<1>13. \A v \in Workers \ {NoWorker} : JobOK(v)' /\ HeldOK(v)'
  BY <1>9, <1>10, <1>11, <1>12, OthersKeep
<1>14. \A v \in Workers : JobOK(v)' /\ HeldOK(v)'
  BY <1>13, WorkersAssumption
<1>15. wk' \in [Workers -> Process] /\ landed' \subseteq Review
  BY <1>1 DEF World
<1> QED BY <1>4, <1>6, <1>7, <1>14, <1>15 DEF IInv, Typed

(* Steps of nobody's that keep the table. *)
LEMMA NobodysStep ==
    ASSUME IInv, KeptTable(rows, rows', NoWorker),
           UNCHANGED <<wk, landed, lostAcks>>, World'
    PROVE  IInv'
<1>1. /\ wk' \in [Workers -> Process] /\ \A v \in Workers \ {NoWorker} : wk'[v] = wk[v]
      /\ landed \subseteq landed' /\ landed' \subseteq Review
      /\ lostAcks <= lostAcks'
  BY FaultsAssumption DEF IInv, Typed, World
<1>2. NoWorker \notin Workers
  BY WorkersAssumption
<1> QED BY <1>1, <1>2, KeepStep

LEMMA OutsideSteps ==
    ASSUME IInv,
           \/ Clock \/ Api \/ Push \/ Reopen \/ UNCHANGED vars
    PROVE  IInv'
<1>1. /\ rows \in Table /\ World /\ \A r \in Runs : RowOK(rows[r])
  BY DEF IInv, Typed
<1>2. KeptTable(rows, rows, NoWorker)
  BY Kept0
<1>3. ASSUME NEW r \in Runs, LeaseExpires(r) PROVE IInv'
  <2> DEFINE row == [rows[r] EXCEPT !.lease = "expired"]
  <2>1. rows[r] \in Row /\ RowOK(rows[r]) /\ rows[r].state = "running"
    BY <1>1, <1>3 DEF Table, LeaseExpires
  <2>2. row \in Row /\ Kept(rows[r], row, NoWorker)
    BY <2>1 DEF Row, Kept
  <2>3. rows' = [rows EXCEPT ![r] = row]
    BY <1>3 DEF LeaseExpires
  <2> HIDE DEF row
  <2>4. KeptTable(rows, rows', NoWorker)
    BY <1>1, <2>2, <2>3, OneRowKept
  <2> QED BY <1>1, <1>3, <2>4, NobodysStep DEF LeaseExpires, World
<1>4. ASSUME NEW r \in Runs, BackoffElapses(r) PROVE IInv'
  <2> DEFINE row == [rows[r] EXCEPT !.parked = FALSE]
  <2>1. /\ rows[r] \in Row /\ RowOK(rows[r]) /\ rows[r].state # "absent"
    BY <1>1, <1>4 DEF Table, BackoffElapses, RowOK, Absent
  <2>2. row \in Row /\ Kept(rows[r], row, NoWorker)
    BY <2>1 DEF Row, Kept, RowOK
  <2>3. rows' = [rows EXCEPT ![r] = row]
    BY <1>4 DEF BackoffElapses
  <2> HIDE DEF row
  <2>4. KeptTable(rows, rows', NoWorker)
    BY <1>1, <2>2, <2>3, OneRowKept
  <2> QED BY <1>1, <1>4, <2>4, NobodysStep DEF BackoffElapses, World
<1>5. ASSUME NEW d \in DOMAIN hooks, BeginEnqueue(d) PROVE IInv'
  <2>1. d \in 0..Len(hooks)
    BY <1>1 DEF World
  <2>2. World' /\ UNCHANGED <<wk, landed, lostAcks>>
    BY <1>1, <1>5, <2>1 DEF BeginEnqueue, World
  <2>3. KeptTable(rows, rows', NoWorker)
    BY <1>1, <1>5, SupersedeKeeps DEF BeginEnqueue
  <2> QED BY <2>2, <2>3, NobodysStep
<1>11. CASE CommitEnqueue
  <2>1. /\ retiring \in DOMAIN hooks /\ NextId \in Runs
        /\ rows' = Enqueue(rows, NextId, hooks[retiring], retiring)
    BY <1>1, <1>11 DEF CommitEnqueue, World
  <2>2. hooks[retiring] \in 0..MaxPushes /\ retiring \in 0..MaxDeliveries
    BY <1>1, <2>1, BoundsAssumption DEF World, Heads
  <2> DEFINE new == InsertQueued(rows, NextId, hooks[retiring], retiring, FALSE)
  <2>3. new \in Table /\ \A r \in Runs : RowOK(new[r])
    BY <1>1, <2>1, <2>2, InsertedRow
  <2>4. rows' = CancelRunning(new, hooks[retiring])
    BY <2>1 DEF Enqueue
  <2> HIDE DEF new
  <2>5. KeptTable(new, rows', NoWorker)
    BY <2>3, <2>4, CancelRunningKeeps
  <2>6. World' /\ UNCHANGED <<wk, landed, lostAcks>>
    BY <1>1, <1>11 DEF CommitEnqueue, World
  <2> QED BY <2>1, <2>2, <2>5, <2>6, InsertStep DEF new
<1>6. ASSUME NEW dry \in BOOLEAN, CreateReview(dry) PROVE IInv'
  <2>1. /\ NextId \in Runs /\ rows' = InsertQueued(rows, NextId, 0, 0, dry)
        /\ UNCHANGED <<wk, landed, lostAcks>> /\ World'
    BY <1>1, <1>6 DEF CreateReview, World
  <2>2. 0 \in 0..MaxPushes /\ 0 \in 0..MaxDeliveries
    BY BoundsAssumption
  <2>3. rows' \in Table /\ \A r \in Runs : RowOK(rows'[r])
    BY <1>1, <2>1, <2>2, InsertedRow
  <2>4. KeptTable(rows', rows', NoWorker)
    BY <2>3, SameIsKept
  <2> QED BY <2>1, <2>2, <2>4, InsertStep
<1>7. ASSUME NEW r \in Runs, CancelRun(r) PROVE IInv'
  <2>1. KeptTable(rows, rows', NoWorker)
    BY <1>1, <1>7, SetCancelKeeps DEF CancelRun
  <2> QED BY <1>1, <1>7, <2>1, NobodysStep DEF CancelRun, World
<1>8. CASE Push
  <2>1. head + 1 \in Heads /\ Len(hooks) < MaxDeliveries /\ hooks \in Seq(Heads)
    BY <1>1, <1>8, BoundsAssumption DEF Push, World, Heads
  <2>2. /\ Append(hooks, head + 1) \in Seq(Heads)
        /\ Len(Append(hooks, head + 1)) = Len(hooks) + 1
    BY <2>1
  <2>3. World'
    BY <1>1, <1>8, <2>1, <2>2, BoundsAssumption DEF Push, World
  <2> QED BY <1>2, <1>8, <2>3, NobodysStep DEF Push
<1>9. CASE Reopen
  <2>1. head \in Heads /\ Len(hooks) < MaxDeliveries /\ hooks \in Seq(Heads)
    BY <1>1, <1>9 DEF Reopen, World
  <2>2. /\ Append(hooks, head) \in Seq(Heads)
        /\ Len(Append(hooks, head)) = Len(hooks) + 1
    BY <2>1
  <2>3. World'
    BY <1>1, <1>9, <2>1, <2>2, BoundsAssumption DEF Reopen, World
  <2> QED BY <1>2, <1>9, <2>3, NobodysStep DEF Reopen
<1>10. CASE UNCHANGED vars
  BY <1>1, <1>2, <1>10, NobodysStep DEF vars, World
<1> QED BY <1>3, <1>4, <1>5, <1>6, <1>7, <1>8, <1>9, <1>10, <1>11 DEF Clock, Api

-----------------------------------------------------------------------------
(* The invariant is inductive. *)

LEMMA InitIInv == Init => IInv
<1> SUFFICES ASSUME Init PROVE IInv
  OBVIOUS
<1>1. \A r \in Runs : rows[r] = Absent
  BY DEF Init
<1>2. Idle \in Process
  <2>1. /\ 0 \in 0..MaxRuns /\ 0 \in 0..MaxAttempts /\ 0 \in 0..MaxPushes
    BY BoundsAssumption
  <2> QED BY <2>1 DEF Idle, Process, Steps
<1>3. Typed
  <2>1. head \in Heads /\ deaths \in 0..MaxDeaths /\ lostAcks \in 0..MaxLostAcks
    BY BoundsAssumption, FaultsAssumption DEF Init, Heads
  <2>2. hooks \in Seq(Heads) /\ Len(hooks) <= MaxDeliveries
    <3>1. <<1>> \in Seq(Heads) /\ Len(<<1>>) = 1
      BY BoundsAssumption DEF Heads
    <3> QED BY <3>1, BoundsAssumption DEF Init
  <2>3. rows \in Table
    BY AbsentIsRow DEF Init, Table
  <2>4. wk \in [Workers -> Process] /\ landed \subseteq Review
    BY <1>2 DEF Init
  <2>5. retiring \in 0..Len(hooks)
    BY DEF Init
  <2> QED BY <2>1, <2>2, <2>3, <2>4, <2>5 DEF Typed, World
<1>4. Contiguous
  <2>1. Present(rows) = {}
    BY <1>1 DEF Present, Absent
  <2>2. 1..0 = {} /\ 0 \in 0..MaxRuns
    BY BoundsAssumption
  <2> QED BY <2>1, <2>2 DEF Contiguous
<1>5. ASSUME NEW r \in Runs PROVE RowOK(rows[r]) /\ RowTrue(r)
  BY <1>1, AbsentIsRow DEF RowTrue, Absent
<1>6. ASSUME NEW w \in Workers PROVE JobOK(w) /\ HeldOK(w)
  <2>1. wk[w] = Idle
    BY DEF Init
  <2> QED BY <2>1 DEF Idle, JobOK, HeldOK, Holds, Working, Reviewing, Posting,
      Writing, Delivering
<1> QED BY <1>3, <1>4, <1>5, <1>6 DEF IInv

LEMMA NextIInv == IInv /\ [Next]_vars => IInv'
<1> SUFFICES ASSUME IInv, [Next]_vars PROVE IInv'
  OBVIOUS
<1>1. ASSUME NEW w \in Workers, MainLoop(w) PROVE IInv'
  <2>1. CASE ReapExhausted(w)
    BY <2>1, IdleSteps
  <2>2. CASE ClaimRun(w)
    BY <2>2, ClaimStep
  <2>3. CASE \/ ReadHead(w) \/ DiffTooLarge(w) \/ CloneHead(w)
             \/ FinishReview(w) \/ ReviewFails(w)
    BY <2>3, ReviewSteps
  <2>4. CASE PassCancelCheck(w)
    BY <2>4, CancelCheckStep
  <2>5. CASE PersistResult(w)
    BY <2>5, PersistStep
  <2>6. CASE CheckMarker(w) \/ PostReview(w) \/ PostFails(w)
    BY <2>6, PostSteps
  <2>7. CASE Settle(w)
    BY <2>7, SettleStep
  <2>8. CASE RequeueRun(w) \/ PutPostBack(w) \/ CloseRun(w)
    BY <2>8, HandlerSteps
  <2> QED BY <1>1, <2>1, <2>2, <2>3, <2>4, <2>5, <2>6, <2>7, <2>8 DEF MainLoop
<1>2. ASSUME NEW w \in Workers, Beat(w) PROVE IInv'
  BY <1>2, BeatStep
<1>3. ASSUME NEW w \in Workers, Crash(w) \/ Restart(w) PROVE IInv'
  BY <1>3, IdleSteps
<1>4. CASE Clock \/ Api \/ Push \/ Reopen \/ UNCHANGED vars
  BY <1>4, OutsideSteps
<1> QED BY <1>1, <1>2, <1>3, <1>4 DEF Next

LEMMA Inductive == Spec => []IInv
  BY InitIInv, NextIInv, PTL DEF Spec

-----------------------------------------------------------------------------
(* What follows from it. *)

(* Every column and every process stays in its domain, for any number of   *)
(* processes, runs, deliveries and faults; claims never count past the     *)
(* ceiling of CLAIM_SQL. *)
THEOREM WorkersTyped == Spec => []TypeOK
<1>1. IInv => TypeOK
  BY DEF IInv, Typed, World, Table, TypeOK
<1> QED BY <1>1, Inductive, PTL

(* A process whose fenced writes would match works on the row's newest     *)
(* claim, though the fence of _fenced compares only worker ids. *)
THEOREM FenceIsEnough == Spec => []FenceMeansNewestClaim
<1>1. IInv => FenceMeansNewestClaim
  BY DEF IInv, HeldOK, FenceMeansNewestClaim
<1> QED BY <1>1, Inductive, PTL

(* A run that mark_posted closed, and that was no dry run, has a review of *)
(* its head on the pull request. *)
THEOREM PublishedRunsArePosted == Spec => []PublishedIsOnGitHub
<1>1. IInv => PublishedIsOnGitHub
  BY DEF IInv, RowTrue, PublishedIsOnGitHub
<1> QED BY <1>1, Inductive, PTL

(* A finding flagged posted is one of a payload that reached GitHub. *)
THEOREM PostedFlagsAreTrue == Spec => []FlagsAreTrue
<1>1. IInv => FlagsAreTrue
  BY DEF IInv, RowTrue, FlagsAreTrue
<1> QED BY <1>1, Inductive, PTL

(* A review cut short is not closed as published, and one closed as        *)
(* degraded has a reason, whoever settled it after however many retries. *)
THEOREM DegradedStaysDegraded == Spec => []DegradationSurvives
<1>1. IInv => DegradationSurvives
  BY DEF IInv, RowTrue, DegradationSurvives
<1> QED BY <1>1, Inductive, PTL

-----------------------------------------------------------------------------
(* What a step may do to a row. *)

(* The two action properties, for one row. *)
ResultIsNewest(r) ==
    rows'[r].payload # rows[r].payload => rows'[r].payload = rows[r].attempts

SettledIsKept(r) ==
    rows[r].state \in Terminal /\ rows'[r].state # rows[r].state
        => /\ rows'[r].state = "failed"
           /\ lostAcks > 0
           /\ \E w \in Workers : wk[w].run = r /\ wk[w].at = "close"
                                  /\ Holds(w) /\ wk'[w].run # r

RowMove(r) == ResultIsNewest(r) /\ SettledIsKept(r)

LEMMA QuietRow ==
    ASSUME NEW r \in Runs, rows'[r].state = rows[r].state,
           rows'[r].payload = rows[r].payload
    PROVE  RowMove(r)
  BY DEF RowMove, ResultIsNewest, SettledIsKept

LEMMA ClaimMoves ==
    ASSUME IInv, NEW w \in Workers, ClaimRun(w), NEW r \in Runs
    PROVE  RowMove(r)
<1>1. rows \in Table
  BY DEF IInv, Typed
<1>2. PICK skipped \in SUBSET LockedByOthers(w) :
        LET eligible == Claimable(rows) \ skipped
            id == Oldest(eligible)
        IN rows' = rows \/ (eligible # {} /\ rows' = Claim(rows, id, w))
  BY DEF ClaimRun, Call
<1> DEFINE eligible == Claimable(rows) \ skipped
           id == Oldest(eligible)
<1>3. CASE rows' = rows
  BY <1>3, QuietRow
<1>4. CASE eligible # {} /\ rows' = Claim(rows, id, w)
  <2>1. id \in Claimable(rows)
    <3>1. eligible \subseteq Nat
      BY DEF Claimable, Runs
    <3> QED BY <1>4, <3>1, OldestIsOne
  <2> HIDE DEF id
  <2>2. /\ \A q \in Runs \ {id} : rows'[q] = rows[q]
        /\ rows[id].state \in {"queued", "post_pending", "running"}
        /\ rows'[id].payload = rows[id].payload
    BY <1>1, <1>4, <2>1, ClaimRow
  <2> QED BY <2>2 DEF RowMove, ResultIsNewest, SettledIsKept, Terminal
<1> QED BY <1>2, <1>3, <1>4

(* The write of a process that owns its row; any other leaves the table.   *)
LEMMA WriteMoves ==
    ASSUME IInv, NEW w \in Workers, NEW r \in Runs,
           \/ PersistResult(w) \/ Settle(w) \/ RequeueRun(w)
           \/ PutPostBack(w) \/ CloseRun(w)
    PROVE  RowMove(r)
<1>1. /\ rows \in Table /\ wk[w] \in Process /\ JobOK(w) /\ HeldOK(w)
      /\ rows[r] \in Row
  BY DEF IInv, Typed, Table
<1>2. wk[w].at \in Writing /\ wk[w].at \in Working
  BY DEF PersistResult, Settle, RequeueRun, PutPostBack, CloseRun, Writing,
     Working
<1>3. CASE rows'[r] = rows[r]
  BY <1>3, QuietRow
<1>4. CASE wk[w].run = r /\ Owns(rows, r, w)
  <2>1. /\ Holds(w) /\ rows[r].attempts = wk[w].attempt
        /\ wk[w].at # "close" => rows[r].state \notin Terminal
    BY <1>1, <1>2, <1>4 DEF HeldOK, Holds
  <2>2. CASE PersistResult(w)
    <3>1. rows'[r].payload \in {rows[r].payload, wk[w].attempt}
      <4>1. rows' \in {rows, RecordResult(rows, r, w, wk[w].attempt,
                                          wk[w].sha, wk[w].degraded)}
        BY <1>4, <2>2 DEF PersistResult, Call
      <4>2. \/ rows'[r] = rows[r]
            \/ rows'[r] = [rows[r] EXCEPT !.state = "post_pending",
                                          !.sha = wk[w].sha,
                                          !.payload = wk[w].attempt,
                                          !.degraded = wk[w].degraded,
                                          !.flagged = FALSE]
        BY <1>1, <4>1 DEF RecordResult, Table
      <4> QED BY <1>1, <4>2 DEF Row
    <3>2. wk[w].at # "close"
      BY <2>2 DEF PersistResult
    <3> QED
      BY <2>1, <3>1, <3>2 DEF RowMove, ResultIsNewest, SettledIsKept
  <2>3. CASE Settle(w)
    <3>1. wk[w].at # "close" /\ rows'[r].payload = rows[r].payload
      BY <1>1, <1>4, <2>3 DEF Settle, Call, MarkPosted, Table, Row
    <3> QED BY <2>1, <3>1 DEF RowMove, ResultIsNewest, SettledIsKept
  <2>4. CASE RequeueRun(w) \/ PutPostBack(w)
    <3>1. wk[w].at # "close" /\ rows'[r].payload = rows[r].payload
      BY <1>1, <1>4, <2>4
      DEF RequeueRun, PutPostBack, Call, Requeue, RequeuePost, PutBack, Table, Row
    <3> QED BY <2>1, <3>1 DEF RowMove, ResultIsNewest, SettledIsKept
  <2>5. CASE CloseRun(w)
    <3>1. /\ wk[w].at = "close" /\ rows'[r].payload = rows[r].payload
          /\ rows'[r].state \in {rows[r].state, wk[w].ending}
      BY <1>1, <1>4, <2>5 DEF CloseRun, Call, Mark, Table, Row
    <3>2. wk'[w].run = 0
      <4>1. wk' \in {[wk EXCEPT ![w] = Idle], [wk EXCEPT ![w] = Down]}
        BY <2>5 DEF CloseRun, Call, Becomes
      <4>2. Idle.run = 0 /\ Down.run = 0 /\ wk \in [Workers -> Process]
        BY DEF Idle, Down, IInv, Typed
      <4> QED BY <4>1, <4>2
    <3>3. wk'[w].run # r
      BY <3>2 DEF Runs
    <3>4. rows[r].state \in Terminal => wk[w].ending = "failed" /\ lostAcks > 0
      BY <1>1, <1>4, <2>1 DEF HeldOK
    <3> QED
      BY <1>4, <2>1, <3>1, <3>3, <3>4
      DEF RowMove, ResultIsNewest, SettledIsKept
  <2> QED BY <2>2, <2>3, <2>4, <2>5
<1>5. rows'[r] = rows[r] \/ (wk[w].run = r /\ Owns(rows, r, w))
  <2>1. PICK id \in Runs : id = wk[w].run
    BY <1>1, <1>2 DEF JobOK, Present
  <2>2. \/ rows' = rows
        \/ \E row : rows' = [rows EXCEPT ![id] = row] /\ Owns(rows, id, w)
    BY <2>1 DEF PersistResult, Settle, RequeueRun, PutPostBack, CloseRun, Call,
       RecordResult, MarkPosted, Requeue, RequeuePost, PutBack, Mark
  <2> QED BY <1>1, <2>1, <2>2 DEF Table
<1> QED BY <1>3, <1>4, <1>5

LEMMA InsertMoves ==
    ASSUME IInv, NEW r \in Runs, Api
    PROVE  RowMove(r)
<1>1. /\ rows \in Table /\ rows[r] \in Row /\ RowOK(rows[r]) /\ Contiguous
  BY DEF IInv, Typed, Table
<1>2. ASSUME NEW new \in [Runs -> Row], NEW sha, NEW delivery, NEW dry,
             NextId \in Runs,
             new = InsertQueued(rows, NextId, sha, delivery, dry),
             rows' = new \/ rows' = CancelRunning(new, sha)
      PROVE  RowMove(r)
  <2>0. /\ rows'[r].payload = new[r].payload /\ rows'[r].state = new[r].state
    BY <1>2 DEF CancelRunning, Row
  <2>1. CASE r = NextId
    <3>1. rows[r].state \notin Terminal /\ rows[r].payload = 0
      BY <1>1, <1>2, <2>1, NextIdIsFree DEF RowOK, Absent, Terminal
    <3>2. new[r].payload = 0
      BY <1>1, <1>2, <2>1 DEF InsertQueued, QueuedRow, Absent, Table
    <3> QED BY <2>0, <3>1, <3>2 DEF RowMove, ResultIsNewest, SettledIsKept
  <2>2. CASE r # NextId
    <3>1. new[r] = rows[r]
      BY <1>1, <1>2, <2>2 DEF InsertQueued, Table
    <3> QED BY <2>0, <3>1, QuietRow
  <2> QED BY <2>1, <2>2
<1>3. ASSUME NEW d \in DOMAIN hooks, BeginEnqueue(d) PROVE RowMove(r)
  <2>1. /\ rows'[r].payload = rows[r].payload
        /\ rows'[r].state # rows[r].state => rows[r].state = "queued"
    BY <1>1, <1>3 DEF BeginEnqueue, Supersede, Row
  <2> QED BY <2>1 DEF RowMove, ResultIsNewest, SettledIsKept, Terminal
<1>6. CASE CommitEnqueue
  <2> DEFINE sha == hooks[retiring]
             new == InsertQueued(rows, NextId, sha, retiring, FALSE)
  <2>1. NextId \in Runs /\ rows' = CancelRunning(new, sha)
    BY <1>6 DEF CommitEnqueue, Enqueue
  <2>2. retiring \in DOMAIN hooks /\ hooks \in Seq(Heads)
        /\ Len(hooks) <= MaxDeliveries
    BY <1>6 DEF CommitEnqueue, IInv, Typed, World
  <2>3. sha \in 0..MaxPushes /\ retiring \in 0..MaxDeliveries
    BY <2>2, BoundsAssumption DEF Heads
  <2>4. new \in [Runs -> Row]
    BY <1>1, <2>1, <2>3, InsertedRow DEF Table, IInv
  <2> HIDE DEF new, sha
  <2> QED BY <1>2, <2>1, <2>4 DEF new
<1>4. ASSUME NEW dry \in BOOLEAN, CreateReview(dry) PROVE RowMove(r)
  <2>1. NextId \in Runs /\ rows' = InsertQueued(rows, NextId, 0, 0, dry)
    BY <1>4 DEF CreateReview
  <2>2. rows' \in [Runs -> Row]
    <3>1. 0 \in 0..MaxPushes /\ 0 \in 0..MaxDeliveries
      BY BoundsAssumption
    <3> QED BY <1>1, <2>1, <3>1, InsertedRow DEF Table, IInv
  <2> QED BY <1>2, <2>1, <2>2
<1>5. ASSUME NEW q \in Runs, CancelRun(q) PROVE RowMove(r)
  BY <1>1, <1>5, QuietRow DEF CancelRun, SetCancel, Table, Row
<1> QED BY <1>3, <1>4, <1>5, <1>6 DEF Api

LEMMA NextMoves ==
    ASSUME IInv, [Next]_vars, NEW r \in Runs
    PROVE  RowMove(r)
<1>1. rows \in Table /\ rows[r] \in Row
  BY DEF IInv, Typed, Table
<1>2. CASE rows'[r] = rows[r]
  BY <1>2, QuietRow
<1>3. ASSUME NEW w \in Workers, MainLoop(w) PROVE RowMove(r)
  <2>1. CASE ReapExhausted(w)
    <3>1. rows' = rows \/ rows' = Reap(rows)
      BY <2>1 DEF ReapExhausted, Call
    <3>2. CASE rows' = Reap(rows)
      <4>1. /\ rows'[r].payload = rows[r].payload
            /\ rows'[r].state # rows[r].state => rows[r].state = "running"
        BY <1>1, <3>2 DEF Reap, Row
      <4> QED BY <4>1 DEF RowMove, ResultIsNewest, SettledIsKept, Terminal
    <3> QED BY <1>2, <3>1, <3>2
  <2>2. CASE ClaimRun(w)
    BY <2>2, ClaimMoves
  <2>3. CASE \/ ReadHead(w) \/ DiffTooLarge(w) \/ CloneHead(w)
             \/ FinishReview(w) \/ ReviewFails(w) \/ PassCancelCheck(w)
             \/ CheckMarker(w) \/ PostReview(w) \/ PostFails(w)
    <3>1. rows' = rows
      BY <2>3 DEF ReadHead, DiffTooLarge, CloneHead, FinishReview, ReviewFails,
         PassCancelCheck, Call, CheckMarker, PostReview, PostFails
    <3> QED BY <1>2, <3>1
  <2>4. CASE \/ PersistResult(w) \/ Settle(w) \/ RequeueRun(w)
             \/ PutPostBack(w) \/ CloseRun(w)
    BY <2>4, WriteMoves
  <2> QED BY <1>3, <2>1, <2>2, <2>3, <2>4 DEF MainLoop
<1>4. ASSUME NEW w \in Workers, Beat(w) PROVE RowMove(r)
  <2>1. rows' = rows \/ rows' = Heartbeat(rows, wk[w].run, w)
    BY <1>4 DEF Beat
  <2> QED BY <1>1, <1>2, <2>1, QuietRow DEF Heartbeat, Table, Row
<1>5. ASSUME NEW w \in Workers, Crash(w) \/ Restart(w) PROVE RowMove(r)
  BY <1>2, <1>5 DEF Crash, Restart
<1>6. CASE Clock
  BY <1>1, <1>6, QuietRow DEF Clock, LeaseExpires, BackoffElapses, Table, Row
<1>7. CASE Api
  BY <1>7, InsertMoves
<1>8. CASE Push \/ Reopen \/ UNCHANGED vars
  BY <1>2, <1>8 DEF Push, Reopen, vars
<1> QED BY <1>3, <1>4, <1>5, <1>6, <1>7, <1>8 DEF Next

(* A persisted payload is replaced only by the newest claim's: the fence   *)
(* of record_result, for any number of processes that work on the run. *)
THEOREM OnlyTheNewestClaimRecords == Spec => ResultsComeFromTheNewestClaim
<1>1. IInv /\ [Next]_vars =>
        [\A r \in Runs : rows'[r].payload # rows[r].payload
            => rows'[r].payload = rows[r].attempts]_vars
  BY NextMoves DEF RowMove, ResultIsNewest
<1> QED BY <1>1, Inductive, PTL DEF Spec, ResultsComeFromTheNewestClaim

(* A settled run stays settled, but for a process whose connection broke   *)
(* under mark_posted and that marks its own run failed. *)
THEOREM SettledRunsStaySettled == Spec => SettledStays
<1>1. IInv /\ [Next]_vars =>
        [\A r \in Runs :
            rows[r].state \in Terminal /\ rows'[r].state # rows[r].state
                => /\ rows'[r].state = "failed"
                   /\ lostAcks > 0
                   /\ \E w \in Workers : wk[w].run = r /\ wk[w].at = "close"
                                          /\ Holds(w) /\ wk'[w].run # r]_vars
  BY NextMoves DEF RowMove, SettledIsKept
<1> QED BY <1>1, Inductive, PTL DEF Spec, SettledStays
=============================================================================
