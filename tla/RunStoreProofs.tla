--------------------------- MODULE RunStoreProofs ---------------------------
(***************************************************************************)
(* What the statements of the run store do to a row, for any table.        *)
(***************************************************************************)
EXTENDS RunStore, FiniteSetTheorems, WellFoundedInduction, TLAPS

Table == [Runs -> Row]

(* Shapes of rows that no statement destroys. *)
RowOK(row) ==
    /\ row.state = "absent" => row = Absent
    /\ row.payload # 0 => row.sha \in Heads
    /\ row.state = "queued" => row.worker = NoWorker

(* A row that a statement run for `actor` leaves with its claim count, its *)
(* result and its flags, owned by the same process or by none.  Such a     *)
(* statement settles rows of the actor only, and publishes none. *)
Kept(old, new, actor) ==
    /\ new.attempts = old.attempts /\ new.payload = old.payload
    /\ new.sha = old.sha /\ new.dry = old.dry
    /\ new.degraded = old.degraded /\ new.flagged = old.flagged
    /\ new.worker \in {old.worker, NoWorker}
    /\ old.state = "absent" <=> new.state = "absent"
    /\ new.state = "absent" => new = old
    /\ new.state = "queued" => new.worker = NoWorker
    /\ new.state # old.state =>
        /\ new.state \in {"queued", "post_pending", "failed", "cancelled",
                          "superseded"}
        /\ new.state \in Terminal => new.worker \in {NoWorker, actor}

KeptTable(old, new, actor) ==
    /\ new \in Table
    /\ \A r \in Runs : Kept(old[r], new[r], actor)

-----------------------------------------------------------------------------
LEMMA OldestIsOne ==
    ASSUME NEW ids \in SUBSET Nat, ids # {}
    PROVE  Oldest(ids) \in ids
<1>1. PICK Less : Less = OpToRel(<, Nat)
  OBVIOUS
<1>2. Less = {pair \in Nat \X Nat : pair[1] < pair[2]}
  BY <1>1, Zenon DEF OpToRel
<1>3. PICK r \in ids : \A q \in ids : ~ (<<q, r>> \in Less)
  BY <1>1, NatLessThanWellFounded, WFMin
<1>4. \A q, p \in Nat : q < p => <<q, p>> \in Less
  BY <1>2
<1>5. \A q \in ids : ~ (q < r)
  BY <1>3, <1>4
<1>6. \A q \in ids : r <= q
  BY <1>5
<1> QED BY <1>6 DEF Oldest

LEMMA AbsentIsRow == Absent \in Row /\ RowOK(Absent)
  BY BoundsAssumption DEF Absent, Row, RowOK, States, Terminal

LEMMA SameIsKept ==
    ASSUME NEW table \in Table, NEW actor, \A r \in Runs : RowOK(table[r])
    PROVE  KeptTable(table, table, actor)
  BY DEF KeptTable, Kept, RowOK

LEMMA ReapKeeps ==
    ASSUME NEW table \in Table, NEW actor, \A r \in Runs : RowOK(table[r])
    PROVE  KeptTable(table, Reap(table), actor)
<1>1. ASSUME NEW r \in Runs
      PROVE  Reap(table)[r] \in Row /\ Kept(table[r], Reap(table)[r], actor)
  <2>1. table[r] \in Row /\ RowOK(table[r])
    BY DEF Table
  <2>2. CASE Reap(table)[r] = table[r]
    BY <2>1, <2>2 DEF Kept, RowOK
  <2>3. CASE /\ table[r].state = "running"
             /\ Reap(table)[r] = [table[r] EXCEPT !.state = "failed",
                                    !.lease = "none", !.worker = NoWorker]
    BY <2>1, <2>3 DEF Kept, Row, States, Terminal
  <2> QED BY <2>2, <2>3 DEF Reap
<1>2. DOMAIN Reap(table) = Runs /\ Reap(table) = [r \in Runs |-> Reap(table)[r]]
  BY DEF Reap
<1> QED BY <1>1, <1>2 DEF KeptTable, Table

LEMMA SupersedeKeeps ==
    ASSUME NEW table \in Table, NEW actor, NEW sha,
           \A r \in Runs : RowOK(table[r])
    PROVE  KeptTable(table, Supersede(table, sha), actor)
<1> DEFINE new == Supersede(table, sha)
<1>1. ASSUME NEW r \in Runs
      PROVE  new[r] \in Row /\ Kept(table[r], new[r], actor)
  <2>1. table[r] \in Row /\ RowOK(table[r])
    BY DEF Table
  <2>2. CASE new[r] = table[r]
    BY <2>1, <2>2 DEF Kept, RowOK
  <2>3. CASE /\ table[r].state = "queued"
             /\ new[r] = [table[r] EXCEPT !.state = "superseded"]
    BY <2>1, <2>3 DEF Kept, RowOK, Row, States, Terminal
  <2> QED BY <2>2, <2>3 DEF Supersede
<1>2. new = [r \in Runs |-> new[r]]
  BY DEF Supersede
<1> QED BY <1>1, <1>2 DEF KeptTable, Table

LEMMA CancelRunningKeeps ==
    ASSUME NEW table \in Table, NEW actor, NEW sha,
           \A r \in Runs : RowOK(table[r])
    PROVE  KeptTable(table, CancelRunning(table, sha), actor)
<1> DEFINE new == CancelRunning(table, sha)
<1>1. ASSUME NEW r \in Runs
      PROVE  new[r] \in Row /\ Kept(table[r], new[r], actor)
  <2>1. table[r] \in Row /\ RowOK(table[r])
    BY DEF Table
  <2>2. CASE new[r] = table[r]
    BY <2>1, <2>2 DEF Kept, RowOK
  <2>3. CASE /\ table[r].state = "running"
             /\ new[r] = [table[r] EXCEPT !.cancel = TRUE]
    BY <2>1, <2>3 DEF Kept, RowOK, Row
  <2> QED BY <2>2, <2>3 DEF CancelRunning
<1>2. new = [r \in Runs |-> new[r]]
  BY DEF CancelRunning
<1> QED BY <1>1, <1>2 DEF KeptTable, Table

(* A statement that touches one row keeps the table if it keeps the row. *)
LEMMA OneRowKept ==
    ASSUME NEW table \in Table, NEW actor, NEW id \in Runs, NEW row \in Row,
           \A r \in Runs : RowOK(table[r]), Kept(table[id], row, actor)
    PROVE  KeptTable(table, [table EXCEPT ![id] = row], actor)
  BY SameIsKept DEF KeptTable, Table

LEMMA OwnedIsPresent ==
    ASSUME NEW table \in Table, NEW w \in Workers, NEW id \in Runs,
           RowOK(table[id]), Owns(table, id, w)
    PROVE  table[id].state \notin {"absent", "queued"}
  BY WorkersAssumption DEF Owns, RowOK, Absent

LEMMA HeartbeatKeeps ==
    ASSUME NEW table \in Table, NEW w \in Workers, NEW id \in Runs,
           \A r \in Runs : RowOK(table[r])
    PROVE  KeptTable(table, Heartbeat(table, id, w), w)
<1>1. CASE Owns(table, id, w)
  <2> DEFINE row == [table[id] EXCEPT !.lease = "live"]
  <2>1. table[id].state \notin {"absent", "queued"} /\ table[id] \in Row
    BY <1>1, OwnedIsPresent DEF Table
  <2>2. row \in Row /\ Kept(table[id], row, w)
    BY <2>1 DEF Kept, Row
  <2>3. Heartbeat(table, id, w) = [table EXCEPT ![id] = row]
    BY <1>1 DEF Heartbeat
  <2> HIDE DEF row
  <2> QED BY <2>2, <2>3, OneRowKept
<1>2. CASE ~Owns(table, id, w)
  BY <1>2, SameIsKept DEF Heartbeat
<1> QED BY <1>1, <1>2

LEMMA MarkKeeps ==
    ASSUME NEW table \in Table, NEW w \in Workers, NEW id \in Runs,
           NEW state \in {"failed", "cancelled"},
           \A r \in Runs : RowOK(table[r])
    PROVE  KeptTable(table, Mark(table, id, w, state), w)
<1>1. CASE Owns(table, id, w)
  <2> DEFINE row == [table[id] EXCEPT !.state = state,
                                      !.degraded = @ \/ state = "degraded"]
  <2>1. /\ table[id].state \notin {"absent", "queued"} /\ table[id] \in Row
        /\ table[id].worker = w
    BY <1>1, OwnedIsPresent DEF Table, Owns
  <2>2. row = [table[id] EXCEPT !.state = state]
    BY <2>1 DEF Row
  <2>3. row \in Row /\ Kept(table[id], row, w)
    BY <2>1, <2>2 DEF Kept, Row, States, Terminal
  <2>4. Mark(table, id, w, state) = [table EXCEPT ![id] = row]
    BY <1>1 DEF Mark
  <2> HIDE DEF row
  <2> QED BY <2>3, <2>4, OneRowKept, ZenonT(30)
<1>2. CASE ~Owns(table, id, w)
  BY <1>2, SameIsKept DEF Mark
<1> QED BY <1>1, <1>2

LEMMA PutBackKeeps ==
    ASSUME NEW table \in Table, NEW w \in Workers, NEW id \in Runs,
           NEW state \in {"queued", "post_pending"},
           \A r \in Runs : RowOK(table[r])
    PROVE  KeptTable(table, PutBack(table, id, w, state), w)
<1>1. CASE Owns(table, id, w)
  <2> DEFINE row == [table[id] EXCEPT !.state = state, !.lease = "none",
                                      !.worker = NoWorker, !.parked = TRUE]
  <2>1. table[id].state \notin {"absent", "queued"} /\ table[id] \in Row
    BY <1>1, OwnedIsPresent DEF Table
  <2>2. row \in Row /\ Kept(table[id], row, w)
    BY <2>1 DEF Kept, Row, States, Terminal
  <2>3. PutBack(table, id, w, state) = [table EXCEPT ![id] = row]
    BY <1>1 DEF PutBack
  <2> HIDE DEF row
  <2> QED BY <2>2, <2>3, OneRowKept, ZenonT(30)
<1>2. CASE ~Owns(table, id, w)
  BY <1>2, SameIsKept DEF PutBack
<1> QED BY <1>1, <1>2

LEMMA SetCancelKeeps ==
    ASSUME NEW table \in Table, NEW actor, NEW id \in Present(table),
           \A r \in Runs : RowOK(table[r])
    PROVE  KeptTable(table, SetCancel(table, id), actor)
<1> DEFINE row == [table[id] EXCEPT !.cancel = TRUE]
<1>0. id \in Runs
  BY DEF Present
<1>1. id \in Runs /\ table[id] \in Row /\ table[id].state # "absent"
      /\ RowOK(table[id])
  BY DEF Present, Table
<1>2. row \in Row /\ Kept(table[id], row, actor)
  BY <1>1 DEF Kept, RowOK, Row
<1>3. SetCancel(table, id) = [table EXCEPT ![id] = row]
  BY DEF SetCancel
<1> HIDE DEF row
<1> QED BY <1>0, <1>2, <1>3, OneRowKept

(* A kept table has the same rows, of the same shapes. *)
LEMMA KeptShapes ==
    ASSUME NEW old \in Table, NEW new, NEW actor, KeptTable(old, new, actor),
           \A r \in Runs : RowOK(old[r])
    PROVE  /\ \A r \in Runs : RowOK(new[r])
           /\ Present(new) = Present(old)
<1>1. \A r \in Runs : Kept(old[r], new[r], actor)
  BY DEF KeptTable
<1> QED BY <1>1 DEF Kept, RowOK, Present

-----------------------------------------------------------------------------
(* The statements that do more than keep. *)

LEMMA ClaimRow ==
    ASSUME NEW table \in Table, NEW w \in Workers,
           NEW id \in Claimable(table)
    PROVE  LET new == Claim(table, id, w) IN
           /\ id \in Runs /\ new \in Table
           /\ \A r \in Runs \ {id} : new[r] = table[r]
           /\ table[id].state \in {"queued", "post_pending", "running"}
           /\ new[id].state = "running" /\ new[id].worker = w
           /\ new[id].attempts = table[id].attempts + 1
           /\ new[id].attempts \in 1..MaxAttempts
           /\ new[id].payload = table[id].payload
           /\ new[id].sha = table[id].sha /\ new[id].dry = table[id].dry
           /\ new[id].degraded = table[id].degraded
           /\ new[id].flagged = table[id].flagged
<1> DEFINE row == [table[id] EXCEPT !.state = "running", !.lease = "live",
                                    !.worker = w, !.attempts = @ + 1]
<1>1. /\ id \in Runs /\ table[id] \in Row
      /\ table[id].attempts < MaxAttempts
      /\ table[id].state \in {"queued", "post_pending", "running"}
  BY DEF Claimable, Table
<1>2. table[id].attempts + 1 \in 1..MaxAttempts
  BY <1>1, BoundsAssumption DEF Row
<1>3. row \in Row
  <2>1. table[id].attempts + 1 \in 0..MaxAttempts
    BY <1>2
  <2>2. "running" \in States
    BY DEF States
  <2> QED BY <1>1, <2>1, <2>2 DEF Row
<1>4. /\ row.state = "running" /\ row.worker = w
      /\ row.attempts = table[id].attempts + 1
      /\ row.payload = table[id].payload
      /\ row.sha = table[id].sha /\ row.dry = table[id].dry
      /\ row.degraded = table[id].degraded
      /\ row.flagged = table[id].flagged
  BY <1>1 DEF Row
<1>5. Claim(table, id, w) = [table EXCEPT ![id] = row]
  BY DEF Claim
<1> HIDE DEF row
<1> QED BY <1>1, <1>2, <1>3, <1>4, <1>5 DEF Table

LEMMA RecordedRow ==
    ASSUME NEW table \in Table, NEW w \in Workers, NEW id \in Runs,
           NEW attempt \in 0..MaxAttempts, NEW sha \in 0..MaxPushes,
           NEW degraded \in BOOLEAN, Owns(table, id, w)
    PROVE  LET new == RecordResult(table, id, w, attempt, sha, degraded) IN
           /\ new \in Table
           /\ \A r \in Runs \ {id} : new[r] = table[r]
           /\ new[id].state = "post_pending" /\ new[id].worker = w
           /\ new[id].attempts = table[id].attempts
           /\ new[id].payload = attempt /\ new[id].sha = sha
           /\ new[id].degraded = degraded /\ ~new[id].flagged
           /\ new[id].dry = table[id].dry
<1> DEFINE row == [table[id] EXCEPT !.state = "post_pending", !.sha = sha,
                       !.payload = attempt, !.degraded = degraded,
                       !.flagged = FALSE]
<1>1. table[id] \in Row /\ table[id].worker = w
  BY DEF Table, Owns
<1>2. row \in Row
  BY <1>1 DEF Row, States
<1>3. /\ row.state = "post_pending" /\ row.worker = w
      /\ row.attempts = table[id].attempts
      /\ row.payload = attempt /\ row.sha = sha
      /\ row.degraded = degraded /\ ~row.flagged
      /\ row.dry = table[id].dry
  BY <1>1 DEF Row
<1>4. RecordResult(table, id, w, attempt, sha, degraded)
        = [table EXCEPT ![id] = row]
  BY DEF RecordResult
<1> HIDE DEF row
<1> QED BY <1>2, <1>3, <1>4 DEF Table

LEMMA PostedRow ==
    ASSUME NEW table \in Table, NEW w \in Workers, NEW id \in Runs,
           NEW state \in {"published", "degraded"}, NEW posted \in BOOLEAN,
           Owns(table, id, w)
    PROVE  LET new == MarkPosted(table, id, w, state, posted) IN
           /\ new \in Table
           /\ \A r \in Runs \ {id} : new[r] = table[r]
           /\ new[id].state = state /\ new[id].worker = w
           /\ new[id].attempts = table[id].attempts
           /\ new[id].payload = table[id].payload
           /\ new[id].sha = table[id].sha
           /\ new[id].degraded = table[id].degraded
           /\ new[id].dry = table[id].dry
           /\ new[id].flagged = (table[id].flagged \/ posted)
<1> DEFINE row == [table[id] EXCEPT !.state = state, !.parked = FALSE,
                                    !.flagged = @ \/ posted]
<1>1. table[id] \in Row /\ table[id].worker = w
  BY DEF Table, Owns
<1>2. row \in Row
  <2>1. (table[id].flagged \/ posted) \in BOOLEAN
    OBVIOUS
  <2> QED BY <1>1, <2>1 DEF Row, States, Terminal
<1>3. /\ row.state = state /\ row.worker = w
      /\ row.attempts = table[id].attempts
      /\ row.payload = table[id].payload /\ row.sha = table[id].sha
      /\ row.degraded = table[id].degraded /\ row.dry = table[id].dry
      /\ row.flagged = (table[id].flagged \/ posted)
  BY <1>1 DEF Row
<1>4. MarkPosted(table, id, w, state, posted) = [table EXCEPT ![id] = row]
  BY DEF MarkPosted
<1> HIDE DEF row
<1> QED BY <1>2, <1>3, <1>4 DEF Table

(* A new row takes an id without one.  What the retirement does to the     *)
(* others keeps them. *)
LEMMA InsertedRow ==
    ASSUME NEW table \in Table, NEW id \in Runs, NEW sha \in 0..MaxPushes,
           NEW delivery \in 0..MaxDeliveries, NEW dry \in BOOLEAN,
           \A r \in Runs : RowOK(table[r])
    PROVE  LET new == InsertQueued(table, id, sha, delivery, dry) IN
           /\ new \in Table
           /\ \A r \in Runs : RowOK(new[r])
           /\ \A r \in Runs \ {id} : new[r] = table[r]
           /\ new[id].state = "queued" /\ new[id].worker = NoWorker
           /\ new[id].payload = 0 /\ ~new[id].flagged
<1> DEFINE row == QueuedRow(sha, delivery, dry)
<1>1. row \in Row /\ RowOK(row)
  BY AbsentIsRow DEF QueuedRow, Absent, Row, RowOK, States
<1>2. /\ row.state = "queued" /\ row.worker = NoWorker
      /\ row.payload = 0 /\ ~row.flagged
  BY DEF QueuedRow, Absent
<1>3. InsertQueued(table, id, sha, delivery, dry) = [table EXCEPT ![id] = row]
  BY DEF InsertQueued
<1> HIDE DEF row
<1> QED BY <1>1, <1>2, <1>3 DEF Table
=============================================================================
