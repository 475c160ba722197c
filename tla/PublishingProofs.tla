-------------------------- MODULE PublishingProofs --------------------------
(***************************************************************************)
(* What the runs of a pull request put on it, for any number of runs,      *)
(* commits, pushes, reviews, findings and minutes: what a review is of,    *)
(* that what is flagged or published is to be seen, that nothing seen is   *)
(* repeated, and that a token outlives its use.                            *)
(*                                                                         *)
(* The invariant is a formula over one run, the head and the reviews,      *)
(* which no step of another run disturbs, and one over pairs of reviews.   *)
(***************************************************************************)
EXTENDS Publishing, SequenceTheorems, TLAPS

(* A token in hand lives through what it is still used for.                *)
TokenOK(job) ==
    /\ job.at = "fetch" => job.left > Git
    /\ job.at = "post" => job.left > Margin
    /\ job.at \in {"comments", "fallback"} => job.left > Request

(* How often the head, now h, has moved since the run read it.  Up to the  *)
(* fetch one move may be unnoticed; the fetch lets a run pass only if the  *)
(* head is what it was when the run began.                                 *)
HeadOK(job, h) ==
    /\ job.at = "diff" /\ job.sha # h => job.moved >= 1
    /\ job.at \in {"init", "fetch"} /\ job.sha # job.diff
        => job.moved >= 1 /\ (h # job.diff => job.moved >= 2)
    /\ job.at \in {"graph", "reviews", "comments", "record", "parked", "published"}
                  \cup Posting
        => job.sha = job.diff \/ job.notice \/ job.moved >= 2

(* A run that is under way is an attempt, of a commit, with its diff.      *)
UnderWay(job) ==
    /\ job.at \notin {"queued", "failed"} => job.attempt >= 1 /\ job.sha \in Shas
    /\ job.at \notin {"queued", "failed", "diff"} => job.diff \in Shas
    /\ job.at \in Posting \cup {"parked", "published"}
        => 1 <= job.madeBy /\ job.madeBy <= job.attempt

JobOK(job, h) ==
    job \in Job /\ TokenOK(job) /\ HeadOK(job, h) /\ UnderWay(job)

ReviewOK(v) == v.diff # v.sha => v.notice \/ v.moved >= 2

-----------------------------------------------------------------------------
(* What a run knows of the reviews rv that are on the pull request.        *)

VisibleIn(rv) == UNION {ShownBy(rv[i]) : i \in DOMAIN rv}

(* The keys a payload shows, inline or in its body.                        *)
Payload(job) == job.body \cup KeysOf(job.comments)

Grounded(job) == {i \in DOMAIN job.findings : job.findings[i].grounded}

Persisted == Posting \cup {"parked", "published"}

(* A payload repeats nothing that was read, and shows every grounded       *)
(* finding that is not a repetition.                                       *)
PayloadOK(job, rv) ==
    /\ job.at \in {"queued", "diff"} =>
        /\ job.findings = <<>> /\ job.known = {} /\ job.seen = {}
        /\ job.body = {} /\ job.comments = {}
    /\ job.at = "comments" => \A i \in job.seen : rv[i].body \subseteq job.known
    /\ job.at \in Persisted \cup {"record"} =>
        /\ \A i \in job.seen : ShownBy(rv[i]) \subseteq job.known
        /\ Payload(job) \cap job.known = {}
        /\ \A i \in Grounded(job) :
              job.findings[i].key \in job.known \cup Payload(job)

(* A review of the run shows what its payload has, and no attempt that is  *)
(* still to make its payload has one.                                      *)
OwnOK(j, job, v) ==
    v.run = j =>
        /\ v.attempt <= job.attempt
        /\ job.at \in Reviewing => v.attempt < job.attempt
        /\ job.at \in Persisted /\ v.attempt = job.madeBy
              => Payload(job) \subseteq ShownBy(v)

(* Where a run is about to close, or has closed, as published.             *)
ClosedOK(j, job, rv) ==
    /\ job.at = "settle" =>
          IF job.posted THEN Payload(job) \subseteq VisibleIn(rv)
          ELSE \E i \in DOMAIN rv : rv[i].sha = job.sha
    /\ job.at = "published" =>
          \/ \A i \in Grounded(job) : job.findings[i].key \in VisibleIn(rv)
          \/ \E i \in DOMAIN rv : /\ rv[i].sha = job.sha
                                  /\ <<rv[i].run, rv[i].attempt>> # <<j, job.madeBy>>

RunOK(j, job, rv) ==
    /\ job.flagged \cup job.known \subseteq VisibleIn(rv)
    /\ job.seen \subseteq DOMAIN rv
    /\ PayloadOK(job, rv)
    /\ \A i \in DOMAIN rv : OwnOK(j, job, rv[i])
    /\ ClosedOK(j, job, rv)

(* A review shows nothing of the reviews that its run had read in whole.   *)
NothingTwice(rv) ==
    \A k \in DOMAIN rv :
        /\ rv[k].seen \subseteq DOMAIN rv
        /\ \A i \in rv[k].seen : ShownBy(rv[i]) \cap ShownBy(rv[k]) = {}

PInv ==
    /\ TypeOK
    /\ \A j \in Runs : JobOK(jobs[j], head) /\ RunOK(j, jobs[j], reviews)
    /\ \A i \in DOMAIN reviews : ReviewOK(reviews[i])
    /\ NothingTwice(reviews)

-----------------------------------------------------------------------------
LEMMA TokensLast ==
    ASSUME NEW token \in Token, NEW minutes \in {Request, Git},
           NEW left \in After(token, minutes)
    PROVE  token > Margin /\ left \in 0..Lifetime /\ left > Git
<1>1. Lifetime \in Nat /\ Margin \in Nat /\ Margin >= 4 /\ token \in Margin + 1..Lifetime
  BY BoundsAssumption, MarginAssumption DEF Token, Git
<1> QED BY <1>1 DEF After, Request, Git

(* The reviews that are there stay, and one more is seen.                  *)
LEMMA OneMore ==
    ASSUME NEW rv \in Seq(Review), NEW v \in Review
    PROVE  LET more == Append(rv, v) IN
           /\ more \in Seq(Review)
           /\ DOMAIN more = DOMAIN rv \cup {Len(rv) + 1}
           /\ Len(rv) + 1 \notin DOMAIN rv
           /\ \A i \in DOMAIN rv : more[i] = rv[i]
           /\ more[Len(rv) + 1] = v
           /\ VisibleIn(more) = VisibleIn(rv) \cup ShownBy(v)
<1> DEFINE more == Append(rv, v)
<1>1. /\ more \in Seq(Review)
      /\ DOMAIN more = DOMAIN rv \cup {Len(rv) + 1}
      /\ Len(rv) + 1 \notin DOMAIN rv
      /\ \A i \in DOMAIN rv : more[i] = rv[i]
      /\ more[Len(rv) + 1] = v
  OBVIOUS
<1> HIDE DEF more
<1>2. VisibleIn(more) = VisibleIn(rv) \cup ShownBy(v)
  BY <1>1 DEF VisibleIn
<1> USE DEF more
<1> QED BY <1>1, <1>2

(* The review of another run takes nothing from what a run knows.          *)
LEMMA OthersReview ==
    ASSUME NEW rv \in Seq(Review), NEW v \in Review,
           NEW j, NEW job, RunOK(j, job, rv), v.run # j
    PROVE  RunOK(j, job, Append(rv, v))
<1> DEFINE more == Append(rv, v)
<1>1. /\ DOMAIN more = DOMAIN rv \cup {Len(rv) + 1}
      /\ \A i \in DOMAIN rv : more[i] = rv[i]
      /\ more[Len(rv) + 1] = v
      /\ VisibleIn(rv) \subseteq VisibleIn(more)
  BY OneMore
<1> HIDE DEF more
<1>2. job.seen \subseteq DOMAIN rv
  BY DEF RunOK
<1>3. PayloadOK(job, more)
  BY <1>1, <1>2 DEF RunOK, PayloadOK
<1>4. \A i \in DOMAIN more : OwnOK(j, job, more[i])
  BY <1>1 DEF RunOK, OwnOK
<1>5. ClosedOK(j, job, more)
  BY <1>1 DEF RunOK, ClosedOK
<1>6. RunOK(j, job, more)
  BY <1>1, <1>2, <1>3, <1>4, <1>5 DEF RunOK
<1> QED BY <1>6 DEF more

LEMMA NoFindings == <<>> \in Results
<1>1. 0 \in 0..MaxFindings /\ <<>> \in [1..0 -> Finding]
  BY BoundsAssumption
<1>2. [1..0 -> Finding] \in {[1..n -> Finding] : n \in 0..MaxFindings}
  BY <1>1
<1> QED BY <1>1, <1>2, Zenon DEF Results

(* A run that rests without a result, or is queued anew. *)
LEMMA RestsWell ==
    ASSUME NEW j, NEW old, NEW rest \in {"queued", "failed"}, NEW h,
           NEW rv, JobOK(old, h),
           old.flagged \subseteq VisibleIn(rv),
           \A i \in DOMAIN rv : rv[i].run = j => rv[i].attempt <= old.attempt
    PROVE  JobOK(Without(old, rest), h) /\ RunOK(j, Without(old, rest), rv)
<1> DEFINE job == Without(old, rest)
<1>1. /\ job.at = rest /\ job.attempt = old.attempt /\ job.flagged = old.flagged
      /\ job.findings = <<>> /\ job.known = {} /\ job.seen = {}
      /\ job.body = {} /\ job.comments = {}
  BY DEF Without, Queued
<1>2. job \in Job
  <2>1. old.attempt \in 0..MaxAttempts /\ old.flagged \in SUBSET Keys
    BY DEF JobOK, Job
  <2>2. 0 \in 0..Lifetime /\ 0 \in 0..MaxAttempts /\ <<>> \in Results
    BY NoFindings, BoundsAssumption
  <2> QED BY <2>1, <2>2 DEF Without, Queued, Job, Resting
<1> HIDE DEF job
<1>3. JobOK(job, h)
  BY <1>1, <1>2 DEF JobOK, TokenOK, HeadOK, UnderWay, Posting
<1>4. RunOK(j, job, rv)
  BY <1>1 DEF RunOK, PayloadOK, OwnOK, ClosedOK, Persisted, Posting, Reviewing, Cloning
<1> QED BY <1>3, <1>4 DEF job

(* A step of one run that shows nothing.                                   *)
LEMMA GoesWell ==
    ASSUME PInv, NEW j \in Runs, NEW job, Goes(j, job),
           JobOK(job, head), RunOK(j, job, reviews)
    PROVE  PInv'
<1>1. /\ jobs \in [Runs -> Job] /\ job \in Job
      /\ jobs' = [jobs EXCEPT ![j] = job] /\ UNCHANGED <<head, pushes, reviews>>
  BY DEF PInv, TypeOK, Goes, JobOK
<1>2. TypeOK'
  BY <1>1 DEF PInv, TypeOK
<1>3. \A i \in Runs : jobs'[i] = IF i = j THEN job ELSE jobs[i]
  BY <1>1
<1> QED BY <1>1, <1>2, <1>3 DEF PInv

(* What lands is the payload, from the attempt that made it.               *)
Lands(v, old) ==
    /\ v.attempt = old.madeBy /\ v.sha = old.sha /\ v.diff = old.diff
    /\ v.moved = old.moved /\ v.notice = old.notice /\ v.seen = old.seen
    /\ ShownBy(v) = Payload(old)

LEMMA PostLands ==
    ASSUME PInv, NEW j \in Runs, NEW job, Post(j, job)
    PROVE  /\ jobs[j].at \in {"post", "fallback"}
           /\ \E v \in Review : /\ reviews' = Append(reviews, v)
                               /\ v.run = j /\ Lands(v, jobs[j])
<1> DEFINE old == jobs[j]
<1>1. old.at \in {"post", "fallback"}
  BY DEF Post
<1>2. old \in Job /\ UnderWay(old)
  BY DEF PInv, JobOK
<1>3. /\ old.madeBy \in 1..MaxAttempts /\ old.sha \in Shas /\ old.diff \in Shas
  <2>1. /\ old.madeBy \in 0..MaxAttempts /\ MaxAttempts \in Nat
        /\ old.sha \in Shas /\ old.diff \in Shas /\ 1 <= old.madeBy
    BY <1>1, <1>2, BoundsAssumption DEF UnderWay, Posting, Job
  <2> QED BY <2>1
<1>4. PICK body, comments :
        /\ reviews' = Append(reviews, Landing(j, body, comments))
        /\ \/ body = old.body /\ comments = old.comments
           \/ body = old.body \cup KeysOf(old.comments) /\ comments = {}
  BY DEF Post
<1> DEFINE v == Landing(j, body, comments)
<1>5. body \in SUBSET Keys /\ comments \in SUBSET Comment
  BY <1>2, <1>4 DEF Job, KeysOf, Comment
<1>6. v \in Review
  BY <1>2, <1>3, <1>5 DEF Landing, Review, Job
<1>7. /\ v.run = j /\ v.body = body /\ v.comments = comments
      /\ v.attempt = old.madeBy /\ v.sha = old.sha /\ v.diff = old.diff
      /\ v.moved = old.moved /\ v.notice = old.notice /\ v.seen = old.seen
  BY DEF Landing
<1> HIDE DEF v
<1>8. ShownBy(v) = Payload(old)
  BY <1>4, <1>7 DEF ShownBy, Payload, KeysOf
<1> USE DEF v
<1> QED BY <1>1, <1>4, <1>6, <1>7, <1>8 DEF Lands

(* A step of one run that puts a review on the pull request.               *)
LEMMA PostsWell ==
    ASSUME PInv, NEW j \in Runs, NEW job, Post(j, job),
           JobOK(job, head), RunOK(j, job, reviews')
    PROVE  PInv'
<1> DEFINE old == jobs[j]
           new == Len(reviews) + 1
<1>1. /\ jobs \in [Runs -> Job] /\ job \in Job /\ reviews \in Seq(Review)
      /\ jobs' = [jobs EXCEPT ![j] = job] /\ UNCHANGED <<head, pushes>>
  BY DEF PInv, TypeOK, Post, JobOK
<1>2. PICK v \in Review : /\ reviews' = Append(reviews, v)
                          /\ v.run = j /\ Lands(v, old)
  BY PostLands
<1>3. old.at \in {"post", "fallback"}
  BY PostLands
<1>4. /\ reviews' \in Seq(Review)
      /\ DOMAIN reviews' = DOMAIN reviews \cup {new} /\ new \notin DOMAIN reviews
      /\ \A i \in DOMAIN reviews : reviews'[i] = reviews[i]
      /\ reviews'[new] = v
  BY <1>1, <1>2, OneMore
<1> HIDE DEF new
<1>5. \A i \in Runs : jobs'[i] = IF i = j THEN job ELSE jobs[i]
  BY <1>1
<1>6. TypeOK'
  BY <1>1, <1>4 DEF PInv, TypeOK
<1>7. ASSUME NEW i \in Runs PROVE JobOK(jobs'[i], head') /\ RunOK(i, jobs'[i], reviews')
  <2>1. i # j => RunOK(i, jobs[i], reviews')
    BY <1>1, <1>2, OthersReview DEF PInv
  <2> QED BY <1>1, <1>5, <2>1 DEF PInv
<1>8. ReviewOK(v)
  BY <1>2, <1>3 DEF PInv, JobOK, HeadOK, ReviewOK, Lands, Posting
<1>9. \A i \in DOMAIN reviews' : ReviewOK(reviews'[i])
  BY <1>1, <1>4, <1>8 DEF PInv
<1>10. /\ v.seen \subseteq DOMAIN reviews
       /\ \A i \in v.seen : ShownBy(reviews[i]) \cap ShownBy(v) = {}
  <2>1. RunOK(j, old, reviews)
    BY DEF PInv
  <2> QED BY <1>2, <1>3, <2>1 DEF RunOK, PayloadOK, Lands, Persisted, Posting
<1>11. NothingTwice(reviews')
  <2>1. NothingTwice(reviews)
    BY DEF PInv
  <2> QED BY <1>4, <1>10, <2>1 DEF NothingTwice
<1> QED BY <1>6, <1>7, <1>9, <1>11 DEF PInv

(* A run that carries a review on, with the payload it has.                *)
SameReview(job, old) ==
    /\ job.madeBy = old.madeBy /\ job.known = old.known /\ job.seen = old.seen
    /\ job.findings = old.findings
    /\ job.body = old.body /\ job.comments = old.comments

(* The run whose payload landed, once it stands where it may persist.      *)
LEMMA OwnReview ==
    ASSUME NEW rv \in Seq(Review), NEW v \in Review, NEW j, NEW old, NEW h,
           JobOK(old, h), RunOK(j, old, rv), old.at \in {"post", "fallback"},
           v.run = j, Lands(v, old)
    PROVE  LET more == Append(rv, v) IN
           /\ old.flagged \subseteq VisibleIn(more)
           /\ \A i \in DOMAIN more :
                  more[i].run = j => more[i].attempt <= old.attempt
           /\ \A job : /\ job.at \in {"parked", "settle"}
                       /\ job.at = "settle" => job.posted
                       /\ job.attempt = old.attempt /\ job.flagged = old.flagged
                       /\ SameReview(job, old)
                      => RunOK(j, job, more)
<1> DEFINE more == Append(rv, v)
<1>1. /\ DOMAIN more = DOMAIN rv \cup {Len(rv) + 1}
      /\ \A i \in DOMAIN rv : more[i] = rv[i]
      /\ more[Len(rv) + 1] = v
      /\ VisibleIn(more) = VisibleIn(rv) \cup ShownBy(v)
  BY OneMore
<1>2. old.madeBy <= old.attempt
  BY DEF JobOK, UnderWay, Posting
<1> HIDE DEF more
<1>3. /\ old.flagged \cup old.known \subseteq VisibleIn(more)
      /\ old.seen \subseteq DOMAIN rv /\ Payload(old) \subseteq VisibleIn(more)
  BY <1>1 DEF RunOK, Lands
<1>4. ASSUME NEW i \in DOMAIN more, more[i].run = j
      PROVE  /\ more[i].attempt <= old.attempt
             /\ more[i].attempt = old.madeBy => Payload(old) \subseteq ShownBy(more[i])
  <2>1. CASE i \in DOMAIN rv
    BY <1>1, <1>4, <2>1 DEF RunOK, OwnOK, Persisted, Posting
  <2>2. CASE more[i] = v
    BY <1>2, <2>2 DEF Lands
  <2> QED BY <1>1, <2>1, <2>2
<1>5. /\ \A i \in old.seen : ShownBy(more[i]) \subseteq old.known
      /\ Payload(old) \cap old.known = {}
      /\ \A i \in Grounded(old) : old.findings[i].key \in old.known \cup Payload(old)
  BY <1>1, <1>3 DEF RunOK, PayloadOK, Persisted, Posting
<1>6. \A job : /\ job.at \in {"parked", "settle"}
               /\ job.at = "settle" => job.posted
               /\ job.attempt = old.attempt /\ job.flagged = old.flagged
               /\ SameReview(job, old)
              => RunOK(j, job, more)
  <2> SUFFICES ASSUME NEW job, job.at \in {"parked", "settle"},
                      job.at = "settle" => job.posted,
                      job.attempt = old.attempt, job.flagged = old.flagged,
                      SameReview(job, old)
               PROVE  RunOK(j, job, more)
    OBVIOUS
  <2> USE DEF SameReview
  <2>1. Payload(job) = Payload(old) /\ Grounded(job) = Grounded(old)
    BY DEF Payload, Grounded
  <2>2. PayloadOK(job, more)
    BY <1>5, <2>1 DEF PayloadOK
  <2>3. \A i \in DOMAIN more : OwnOK(j, job, more[i])
    BY <1>4, <2>1 DEF OwnOK, Reviewing, Cloning
  <2>4. ClosedOK(j, job, more)
    BY <1>3, <2>1 DEF ClosedOK
  <2>5. job.seen \subseteq DOMAIN more
    BY <1>1, <1>3
  <2> QED BY <1>3, <2>2, <2>3, <2>4, <2>5 DEF RunOK
<1> USE DEF more
<1> QED BY <1>3, <1>4, <1>6, Zenon

LEMMA ReviewTravels ==
    ASSUME NEW j, NEW old, NEW job, NEW rv, RunOK(j, old, rv), SameReview(job, old),
           old.at \in Persisted, job.at \in Persisted,
           old.attempt \in Nat, job.attempt \in {old.attempt, old.attempt + 1},
           \A i \in DOMAIN rv : rv[i].attempt \in Nat,
           job.flagged \subseteq VisibleIn(rv), ClosedOK(j, job, rv)
    PROVE  RunOK(j, job, rv)
<1>1. Payload(job) = Payload(old) /\ Grounded(job) = Grounded(old)
  BY DEF SameReview, Payload, Grounded
<1>2. PayloadOK(job, rv)
  BY <1>1 DEF RunOK, PayloadOK, SameReview, Persisted, Posting
<1>3. ASSUME NEW i \in DOMAIN rv PROVE OwnOK(j, job, rv[i])
  BY <1>1, <1>3 DEF RunOK, OwnOK, SameReview, Persisted, Posting, Reviewing, Cloning
<1> QED BY <1>2, <1>3 DEF RunOK, SameReview

(* Where an interruption leaves a run that shows nothing by it.            *)
LEMMA InterruptedWell ==
    ASSUME NEW j, NEW old, NEW h, NEW rv,
           JobOK(old, h), RunOK(j, old, rv),
           \A i \in DOMAIN rv : rv[i].attempt \in Nat,
           old.at \in Reviewing \cup Posting, NEW job \in Interrupted(old)
    PROVE  JobOK(job, h) /\ RunOK(j, job, rv)
<1>1. CASE job \in {Without(old, "queued"), Without(old, "failed")}
  <2>1. /\ old.flagged \subseteq VisibleIn(rv)
        /\ \A i \in DOMAIN rv : rv[i].run = j => rv[i].attempt <= old.attempt
    BY DEF RunOK, OwnOK
  <2>2. \A rest \in {"queued", "failed"} :
           JobOK(Without(old, rest), h) /\ RunOK(j, Without(old, rest), rv)
    BY <2>1, RestsWell
  <2> QED BY <1>1, <2>2
<1>2. CASE /\ old.at \in Posting
           /\ job = [old EXCEPT !.at = "parked", !.left = 0, !.posted = FALSE]
  <2>1. job \in Job
    <3>1. 0 \in 0..Lifetime /\ old \in Job
      BY BoundsAssumption DEF JobOK
    <3> QED BY <1>2, <3>1 DEF Job, Resting
  <2>2. JobOK(job, h)
    BY <1>2, <2>1 DEF JobOK, Job, TokenOK, HeadOK, UnderWay, Posting
  <2>3. /\ job.at = "parked" /\ job.attempt = old.attempt
        /\ job.flagged = old.flagged /\ SameReview(job, old)
    BY <1>2 DEF JobOK, Job, SameReview
  <2>4. ClosedOK(j, job, rv)
    BY <2>3 DEF ClosedOK
  <2>5. old.attempt \in Nat
    BY BoundsAssumption DEF JobOK, Job
  <2>6. job.flagged \subseteq VisibleIn(rv)
    BY <2>3 DEF RunOK
  <2>7. old.at \in Persisted /\ job.at \in Persisted
    BY <1>2, <2>3 DEF Persisted
  <2>8. RunOK(j, job, rv)
    BY <2>3, <2>4, <2>5, <2>6, <2>7, ReviewTravels
  <2> QED BY <2>2, <2>8
<1> QED BY <1>1, <1>2 DEF Interrupted, Reviewing, Cloning, Posting

-----------------------------------------------------------------------------
(* The steps of a review *)

(* A step that leaves the result as it was, away from the posting.         *)
SameResult(job, old) ==
    /\ job.flagged = old.flagged /\ job.known = old.known /\ job.seen = old.seen
    /\ job.body = old.body /\ job.comments = old.comments
    /\ job.findings = old.findings \/ job.at = "reviews"
    /\ \/ job.at = "diff" /\ old.at = "queued" /\ job.attempt = old.attempt + 1
       \/ /\ job.at \in {"init", "fetch", "graph", "reviews", "record"}
          /\ job.at = "record" => old.at = "diff"
          /\ old.at \in Reviewing /\ job.attempt = old.attempt

LEMMA SameResultWell ==
    ASSUME NEW j, NEW old \in Job, NEW job, NEW rv, RunOK(j, old, rv),
           SameResult(job, old),
           \A i \in DOMAIN rv : rv[i].attempt \in Nat
    PROVE  RunOK(j, job, rv)
<1>1. PayloadOK(job, rv)
  <2>1. CASE job.at = "record" /\ old.at = "diff"
    <3>1. /\ job.findings = <<>> /\ job.known = {} /\ job.seen = {}
          /\ job.body = {} /\ job.comments = {}
      BY <2>1 DEF RunOK, PayloadOK, SameResult
    <3> QED BY <2>1, <3>1 DEF PayloadOK, Payload, KeysOf, Grounded
  <2>2. CASE job.at # "record"
    BY <2>2 DEF RunOK, PayloadOK, SameResult, Persisted, Posting
  <2> QED BY <2>1, <2>2 DEF SameResult
<1>2. \A i \in DOMAIN rv : OwnOK(j, job, rv[i])
  <2>1. old.attempt \in Nat
    BY BoundsAssumption DEF Job
  <2> QED
    BY <2>1 DEF RunOK, OwnOK, SameResult, Persisted, Posting, Reviewing, Cloning
<1>3. ClosedOK(j, job, rv)
  BY DEF ClosedOK, SameResult
<1> QED BY <1>1, <1>2, <1>3 DEF RunOK, SameResult

LEMMA ReviewsAreNumbered ==
    ASSUME PInv
    PROVE  \A i \in DOMAIN reviews : reviews[i].attempt \in Nat
<1> SUFFICES ASSUME NEW i \in DOMAIN reviews PROVE reviews[i].attempt \in Nat
  OBVIOUS
<1>1. reviews[i] \in Review
  BY DEF PInv, TypeOK
<1> QED BY <1>1, BoundsAssumption DEF Review

LEMMA FindingsHaveKeys ==
    ASSUME NEW job \in Job
    PROVE  /\ DOMAIN job.findings \subseteq 1..MaxFindings
           /\ \A i \in DOMAIN job.findings : job.findings[i].key \in Keys
<1>1. PICK n \in 0..MaxFindings : job.findings \in [1..n -> Finding]
  BY DEF Job, Results
<1>2. 1..n \subseteq 1..MaxFindings
  BY BoundsAssumption
<1> QED BY <1>1, <1>2 DEF Finding

LEMMA ReviewingKeeps ==
    ASSUME PInv, NEW j \in Runs,
           \/ ReadHead(j) \/ ReadDiff(j) \/ InitClone(j) \/ FetchHead(j) \/ Analyse(j)
    PROVE  PInv'
<1> DEFINE old == jobs[j]
<1>1. /\ JobOK(old, head) /\ RunOK(j, old, reviews)
      /\ old \in Job /\ pushes \in Nat /\ head \in Shas
  BY BoundsAssumption DEF PInv, TypeOK, JobOK
<1>2. \A i \in DOMAIN reviews : reviews[i].attempt \in Nat
  BY ReviewsAreNumbered
<1>3. old.attempt \in Nat /\ old.attempt <= MaxAttempts /\ MaxAttempts \in Nat
  BY <1>1, BoundsAssumption DEF Job
<1>4. 0 \in 0..Lifetime
  BY BoundsAssumption
<1>5. CASE ReadHead(j)
  <2> DEFINE job == [old EXCEPT !.at = "diff", !.attempt = @ + 1, !.sha = head]
  <2>1. old.at = "queued" /\ old.attempt < MaxAttempts /\ Goes(j, job)
    BY <1>5 DEF ReadHead
  <2>2. job \in Job
    <3>1. old.attempt + 1 \in 0..MaxAttempts
      BY <1>3, <2>1
    <3> QED BY <1>1, <3>1 DEF Job, Reviewing, Cloning
  <2>3. JobOK(job, head)
    BY <1>1, <1>3, <2>2 DEF JobOK, Job, TokenOK, HeadOK, UnderWay, Posting
  <2>4. RunOK(j, job, reviews)
    <3>1. SameResult(job, old)
      BY <1>1, <1>3, <2>1 DEF SameResult, Job, Reviewing, Cloning
    <3> HIDE DEF job
    <3> QED BY <1>1, <1>2, <3>1, SameResultWell
  <2> QED BY <2>1, <2>3, <2>4, GoesWell
<1>6. CASE ReadDiff(j)
  <2> DEFINE job == [old EXCEPT !.at = IF head \in Large THEN "record" ELSE "init",
                                !.diff = head, !.notice = head \in Large]
  <2>1. old.at = "diff" /\ Goes(j, job)
    BY <1>6 DEF ReadDiff
  <2>2. job \in Job
    <3>1. ASSUME NEW large \in BOOLEAN
          PROVE  [old EXCEPT !.at = IF large THEN "record" ELSE "init",
                             !.diff = head, !.notice = large] \in Job
      BY <1>1 DEF Job, Reviewing, Cloning
    <3>2. (head \in Large) \in BOOLEAN
      OBVIOUS
    <3> QED BY <3>1, <3>2, Zenon
  <2>3. JobOK(job, head)
    BY <1>1, <2>1, <2>2, ZenonT(30) DEF JobOK, Job, TokenOK, HeadOK, UnderWay, Posting
  <2>4. RunOK(j, job, reviews)
    <3>1. SameResult(job, old)
      BY <1>1, <2>1 DEF SameResult, Job, Reviewing, Cloning
    <3> HIDE DEF job
    <3> QED BY <1>1, <1>2, <3>1, SameResultWell
  <2> QED BY <2>1, <2>3, <2>4, GoesWell
<1>7. CASE InitClone(j)
  <2>1. PICK token \in Token : \E left \in After(token, Git) :
            Goes(j, [old EXCEPT !.at = "fetch", !.left = left])
    BY <1>7 DEF InitClone
  <2>2. PICK left \in After(token, Git) :
            Goes(j, [old EXCEPT !.at = "fetch", !.left = left])
    BY <2>1
  <2> DEFINE job == [old EXCEPT !.at = "fetch", !.left = left]
  <2>3. left \in 0..Lifetime /\ left > Git /\ old.at = "init"
    BY <1>7, TokensLast DEF InitClone
  <2>4. job \in Job
    BY <1>1, <2>3 DEF Job, Reviewing, Cloning
  <2>5. JobOK(job, head)
    BY <1>1, <2>3, <2>4 DEF JobOK, Job, TokenOK, HeadOK, UnderWay, Posting
  <2>6. RunOK(j, job, reviews)
    <3>1. SameResult(job, old)
      BY <1>1, <2>3 DEF SameResult, Job, Reviewing, Cloning
    <3> HIDE DEF job
    <3> QED BY <1>1, <1>2, <3>1, SameResultWell
  <2> QED BY <2>2, <2>5, <2>6, GoesWell
<1>8. CASE FetchHead(j)
  <2> DEFINE job == [old EXCEPT !.left = 0, !.at = "graph"]
  <2>0. old.at = "fetch"
    BY <1>8 DEF FetchHead
  <2>1. CASE head = old.sha
    <3>1. Goes(j, job)
      BY <1>8, <2>1 DEF FetchHead
    <3>2. job \in Job
      BY <1>1, <1>4 DEF Job, Reviewing, Cloning
    <3>3. JobOK(job, head)
      BY <1>1, <2>0, <2>1, <3>2 DEF JobOK, Job, TokenOK, HeadOK, UnderWay, Posting
    <3>4. RunOK(j, job, reviews)
      <4>1. SameResult(job, old)
        BY <1>1, <2>0 DEF SameResult, Job, Reviewing, Cloning
      <4> HIDE DEF job
      <4> QED BY <1>1, <1>2, <4>1, SameResultWell
    <3> QED BY <3>1, <3>3, <3>4, GoesWell
  <2>2. CASE head # old.sha
    <3>1. JobOK(Without(old, "failed"), head)
          /\ RunOK(j, Without(old, "failed"), reviews)
      BY <1>1, <1>2, <2>0, InterruptedWell DEF Interrupted, Reviewing, Cloning
    <3> QED BY <1>8, <2>2, <3>1, GoesWell DEF FetchHead
  <2> QED BY <2>1, <2>2
<1>9. CASE Analyse(j)
  <2>1. PICK findings \in Found(old.diff) :
            Goes(j, [old EXCEPT !.at = "reviews", !.findings = findings])
    BY <1>9 DEF Analyse
  <2> DEFINE job == [old EXCEPT !.at = "reviews", !.findings = findings]
  <2>2. old.at = "graph" /\ findings \in Results
    BY <1>9 DEF Analyse, Found
  <2>3. job \in Job
    BY <1>1, <2>2 DEF Job, Reviewing, Cloning
  <2>4. JobOK(job, head)
    BY <1>1, <2>2, <2>3 DEF JobOK, Job, TokenOK, HeadOK, UnderWay, Posting
  <2>5. RunOK(j, job, reviews)
    <3>1. SameResult(job, old)
      BY <1>1, <2>2 DEF SameResult, Job, Reviewing, Cloning
    <3> HIDE DEF job
    <3> QED BY <1>1, <1>2, <3>1, SameResultWell
  <2> QED BY <2>1, <2>4, <2>5, GoesWell
<1> QED BY <1>5, <1>6, <1>7, <1>8, <1>9


(* The listing of comments holds exactly those that reviews show.          *)
LEMMA CommentsShown ==
    ASSUME NEW c \in Comments
    PROVE  c.review \in DOMAIN reviews /\ c.key \in KeysOf(reviews[c.review].comments)
<1> DEFINE d == [place |-> c.place, key |-> c.key]
<1>1. c.review \in DOMAIN reviews /\ d \in reviews[c.review].comments
  BY DEF Comments
<1>2. d.key = c.key
  OBVIOUS
<1> QED BY <1>1, <1>2 DEF KeysOf

LEMMA ShownCommented ==
    ASSUME NEW i \in DOMAIN reviews, reviews[i] \in Review,
           NEW key \in KeysOf(reviews[i].comments)
    PROVE  \E c \in Comments : c.review = i /\ c.key = key
<1>1. PICK d \in reviews[i].comments : d.key = key
  BY DEF KeysOf
<1>2. d \in Comment
  BY DEF Review
<1> DEFINE c == [review |-> i, place |-> d.place, key |-> d.key]
<1>3. /\ c \in [review : DOMAIN reviews, place : 1..MaxFindings, key : Keys]
      /\ [place |-> c.place, key |-> c.key] = d
  BY <1>2 DEF Comment
<1>4. c \in Comments /\ c.review = i /\ c.key = key
  BY <1>1, <1>3 DEF Comments
<1> QED BY <1>4

LEMMA InlineKeys ==
    ASSUME NEW findings, NEW places
    PROVE  KeysOf(Inline(findings, places)) = {findings[i].key : i \in places}
<1> DEFINE comment(i) == [place |-> i, key |-> findings[i].key]
<1>1. \A i : comment(i).key = findings[i].key
  OBVIOUS
<1>2. Inline(findings, places) = {comment(i) : i \in places}
  BY DEF Inline
<1> HIDE DEF comment
<1> QED BY <1>1, <1>2 DEF KeysOf

LEMMA ListingKeeps ==
    ASSUME PInv, NEW j \in Runs, ReadReviews(j) \/ ReadComments(j) \/ Record(j)
    PROVE  PInv'
<1> DEFINE old == jobs[j]
<1>1. /\ JobOK(old, head) /\ RunOK(j, old, reviews) /\ old \in Job
      /\ reviews \in Seq(Review)
  BY DEF PInv, TypeOK, JobOK
<1>2. 0 \in 0..Lifetime /\ Page \in Nat
  BY BoundsAssumption
<1>3. \A i \in DOMAIN reviews : reviews[i] \in Review /\ ShownBy(reviews[i]) \subseteq Keys
  <2> SUFFICES ASSUME NEW i \in DOMAIN reviews
               PROVE  reviews[i] \in Review /\ ShownBy(reviews[i]) \subseteq Keys
    OBVIOUS
  <2>1. reviews[i] \in Review
    BY <1>1
  <2> QED BY <2>1 DEF Review, ShownBy, KeysOf, Comment
<1>4. DOMAIN reviews \subseteq Nat
  BY <1>1
<1>5. CASE ReadReviews(j)
  <2>1. PICK token \in Token : \E left \in After(token, Request) :
            \E listed \in {Listed, {}} :
                Goes(j, [old EXCEPT
                            !.at = "comments", !.left = left,
                            !.known = UNION {reviews[i].body : i \in listed},
                            !.seen = listed])
    BY <1>5 DEF ReadReviews
  <2>2. PICK left \in After(token, Request) : \E listed \in {Listed, {}} :
                Goes(j, [old EXCEPT
                            !.at = "comments", !.left = left,
                            !.known = UNION {reviews[i].body : i \in listed},
                            !.seen = listed])
    BY <2>1
  <2>3. PICK listed \in {Listed, {}} :
                Goes(j, [old EXCEPT
                            !.at = "comments", !.left = left,
                            !.known = UNION {reviews[i].body : i \in listed},
                            !.seen = listed])
    BY <2>2
  <2>4. left \in 0..Lifetime /\ left > Request /\ old.at = "reviews"
    <3>1. Request = 1 /\ Git = 2 /\ left \in 0..Lifetime /\ left > Git
      BY TokensLast DEF Request, Git
    <3>2. left \in Int
      BY <3>1, BoundsAssumption
    <3>3. left > Request
      BY <3>1, <3>2
    <3> QED BY <1>5, <3>1, <3>3 DEF ReadReviews
  <2> DEFINE known == UNION {reviews[i].body : i \in listed}
             job == [old EXCEPT !.at = "comments", !.left = left,
                                !.known = known, !.seen = listed]
  <2>5. listed \subseteq DOMAIN reviews
    BY DEF Listed
  <2>6. /\ known \subseteq VisibleIn(reviews)
        /\ known \in SUBSET Keys /\ listed \in SUBSET Nat
        /\ \A i \in listed : reviews[i].body \subseteq known
    BY <1>3, <1>4, <2>5 DEF VisibleIn, ShownBy
  <2> HIDE DEF known
  <2>7. job \in Job
    BY <1>1, <2>4, <2>6 DEF Job, Reviewing, Cloning
  <2>8. JobOK(job, head)
    BY <1>1, <2>4, <2>7 DEF JobOK, Job, TokenOK, HeadOK, UnderWay, Posting
  <2>9. /\ job.at = "comments" /\ job.flagged = old.flagged /\ job.known = known
        /\ job.seen = listed /\ job.attempt = old.attempt
    BY <1>1 DEF Job
  <2>10. Goes(j, job)
    BY <2>3 DEF known
  <2> HIDE DEF job
  <2>11. PayloadOK(job, reviews)
    BY <2>6, <2>9 DEF PayloadOK, Persisted, Posting
  <2>12. \A i \in DOMAIN reviews : OwnOK(j, job, reviews[i])
    BY <1>1, <2>4, <2>9 DEF RunOK, OwnOK, Persisted, Posting, Reviewing, Cloning
  <2>13. ClosedOK(j, job, reviews)
    BY <2>9 DEF ClosedOK
  <2>14. RunOK(j, job, reviews)
    BY <1>1, <2>5, <2>6, <2>9, <2>11, <2>12, <2>13 DEF RunOK
  <2> QED BY <2>8, <2>10, <2>14, GoesWell
<1>6. CASE ReadComments(j)
  <2>1. PICK limit \in {0, Page} :
          LET listed == FirstComments(limit)
              whole == {n \in old.seen :
                           \A c \in Comments : c.review = n => c \in listed}
          IN Goes(j, [BuildReview(old, old.known \cup KeysOf(listed))
                        EXCEPT !.seen = whole])
    BY <1>6 DEF ReadComments
  <2> DEFINE listed == FirstComments(limit)
             whole == {n \in old.seen :
                           \A c \in Comments : c.review = n => c \in listed}
             known == old.known \cup KeysOf(listed)
             publishable == {i \in DOMAIN old.findings :
                                /\ old.findings[i].key \notin known
                                /\ old.findings[i].grounded}
             inline == {i \in publishable : old.findings[i].key \in InDiff[old.diff]}
             body == {old.findings[i].key : i \in publishable \ inline}
             comments == Inline(old.findings, inline)
             job == [[old EXCEPT !.at = "record", !.left = 0, !.known = known,
                                 !.body = body, !.comments = comments]
                        EXCEPT !.seen = whole]
  <2>2. Goes(j, job) /\ old.at = "comments"
    BY <1>6, <2>1 DEF BuildReview, ReadComments
  <2>3. /\ listed \subseteq Comments
        /\ whole \subseteq old.seen /\ whole \in SUBSET Nat
    BY <1>1 DEF FirstComments, Job
  <2>4. /\ KeysOf(listed) \subseteq VisibleIn(reviews)
        /\ KeysOf(listed) \subseteq Keys
    <3> SUFFICES ASSUME NEW c \in listed
                 PROVE  c.key \in VisibleIn(reviews) /\ c.key \in Keys
      BY DEF KeysOf
    <3>1. /\ c.review \in DOMAIN reviews
          /\ c.key \in KeysOf(reviews[c.review].comments)
      BY <2>3, CommentsShown
    <3> QED BY <1>3, <3>1 DEF VisibleIn, ShownBy
  <2>5. known \subseteq VisibleIn(reviews) /\ known \in SUBSET Keys
    BY <1>1, <2>4 DEF RunOK, Job
  <2>6. ASSUME NEW i \in whole PROVE ShownBy(reviews[i]) \subseteq known
    <3>1. i \in DOMAIN reviews /\ reviews[i].body \subseteq old.known
      BY <1>1, <2>2, <2>3 DEF RunOK, PayloadOK
    <3>2. ASSUME NEW key \in KeysOf(reviews[i].comments) PROVE key \in KeysOf(listed)
      <4>1. PICK c \in Comments : c.review = i /\ c.key = key
        BY <1>3, <3>1, ShownCommented
      <4>2. c \in listed
        BY <4>1
      <4> QED BY <4>1, <4>2 DEF KeysOf
    <3> QED BY <3>1, <3>2 DEF ShownBy
  <2>7. /\ \A i \in DOMAIN old.findings : old.findings[i].key \in Keys
        /\ DOMAIN old.findings \subseteq 1..MaxFindings
    BY <1>1, FindingsHaveKeys
  <2>8. body \in SUBSET Keys /\ comments \in SUBSET Comment
    BY <2>7 DEF Inline, Comment
  <2>9. KeysOf(comments) = {old.findings[i].key : i \in inline}
    BY InlineKeys
  <2>10. body \cup KeysOf(comments) = {old.findings[i].key : i \in publishable}
    BY <2>9
  <2> HIDE DEF body, comments, known, whole
  <2>11. job \in Job
    BY <1>1, <1>2, <2>3, <2>5, <2>8 DEF Job, Reviewing, Cloning
  <2>12. JobOK(job, head)
    BY <1>1, <2>2, <2>11 DEF JobOK, Job, TokenOK, HeadOK, UnderWay, Posting
  <2>13. /\ job.at = "record" /\ job.flagged = old.flagged /\ job.known = known
         /\ job.seen = whole /\ job.attempt = old.attempt
         /\ job.findings = old.findings /\ job.body = body /\ job.comments = comments
    BY <1>1 DEF Job
  <2> HIDE DEF job
  <2>14. Payload(job) = {old.findings[i].key : i \in publishable}
    BY <2>10, <2>13 DEF Payload
  <2>15. PayloadOK(job, reviews)
    BY <2>6, <2>13, <2>14 DEF PayloadOK, Grounded
  <2>16. \A i \in DOMAIN reviews : OwnOK(j, job, reviews[i])
    BY <1>1, <2>2, <2>13 DEF RunOK, OwnOK, Persisted, Posting, Reviewing, Cloning
  <2>17. ClosedOK(j, job, reviews)
    BY <2>13 DEF ClosedOK
  <2>18. RunOK(j, job, reviews)
    BY <1>1, <2>3, <2>5, <2>13, <2>15, <2>16, <2>17 DEF RunOK
  <2> QED BY <2>2, <2>12, <2>18, GoesWell
<1>7. CASE Record(j)
  <2> DEFINE job == [old EXCEPT !.at = "check", !.madeBy = old.attempt,
                                !.flagged = {}]
  <2>1. Goes(j, job) /\ old.at = "record"
    BY <1>7 DEF Record
  <2>2. job \in Job
    BY <1>1 DEF Job, Posting
  <2>3. JobOK(job, head)
    BY <1>1, <2>1, <2>2 DEF JobOK, Job, TokenOK, HeadOK, UnderWay, Posting
  <2>4. /\ job.at = "check" /\ job.flagged = {} /\ job.known = old.known
        /\ job.seen = old.seen /\ job.attempt = old.attempt
        /\ job.madeBy = old.attempt /\ job.findings = old.findings
        /\ job.body = old.body /\ job.comments = old.comments
    BY <1>1 DEF Job
  <2> HIDE DEF job
  <2>5. Payload(job) = Payload(old) /\ Grounded(job) = Grounded(old)
    BY <2>4 DEF Payload, Grounded
  <2>6. PayloadOK(job, reviews)
    BY <1>1, <2>1, <2>4, <2>5 DEF RunOK, PayloadOK
  <2>7. ASSUME NEW i \in DOMAIN reviews PROVE OwnOK(j, job, reviews[i])
    <3>1. reviews[i].attempt \in Nat /\ old.attempt \in Nat
      BY <1>1, <1>3, BoundsAssumption, SMTT(30) DEF Review, Job
    <3> QED BY <1>1, <2>1, <2>4, <3>1 DEF RunOK, OwnOK, Reviewing, Cloning
  <2>8. ClosedOK(j, job, reviews)
    BY <2>4 DEF ClosedOK
  <2>9. RunOK(j, job, reviews)
    BY <1>1, <2>4, <2>6, <2>7, <2>8 DEF RunOK
  <2> QED BY <2>1, <2>3, <2>9, GoesWell
<1> QED BY <1>5, <1>6, <1>7

-----------------------------------------------------------------------------
(* The steps of a post *)

LEMMA PostingKeeps ==
    ASSUME PInv, NEW j \in Runs,
           TakePost(j) \/ CheckMarker(j) \/ CommentsRefused(j) \/ MarkPosted(j)
    PROVE  PInv'
<1> DEFINE old == jobs[j]
<1>1. /\ JobOK(old, head) /\ RunOK(j, old, reviews) /\ old \in Job
      /\ old.flagged \subseteq VisibleIn(reviews)
  BY DEF PInv, JobOK, RunOK
<1>2. old.attempt \in Nat /\ MaxAttempts \in Nat /\ Lifetime \in Nat
      /\ Margin \in Nat /\ Margin >= 4
  BY <1>1, BoundsAssumption, MarginAssumption DEF Job, Git
<1>3. CASE TakePost(j)
  <2> DEFINE job == [old EXCEPT !.at = "check", !.attempt = @ + 1, !.repost = TRUE]
  <2>1. old.at = "parked" /\ old.attempt < MaxAttempts /\ Goes(j, job)
    BY <1>3 DEF TakePost
  <2>2. job \in Job
    <3>1. old.attempt + 1 \in 0..MaxAttempts
      BY <1>2, <2>1
    <3> QED BY <1>1, <3>1 DEF Job, Posting
  <2>3. SameReview(job, old) /\ job.at = "check" /\ job.attempt = old.attempt + 1
        /\ job.sha = old.sha /\ job.diff = old.diff
        /\ job.moved = old.moved /\ job.notice = old.notice
        /\ job.flagged = old.flagged
    BY <1>1 DEF Job, SameReview
  <2> HIDE DEF job
  <2>4. UnderWay(job)
    <3>1. old.madeBy \in Nat
      BY <1>1, BoundsAssumption DEF Job
    <3> QED BY <1>1, <1>2, <2>1, <2>3, <3>1
            DEF JobOK, UnderWay, SameReview, Posting
  <2>5. JobOK(job, head)
    BY <1>1, <2>1, <2>2, <2>3, <2>4 DEF JobOK, TokenOK, HeadOK, Posting
  <2>6. RunOK(j, job, reviews)
    <3>1. ClosedOK(j, job, reviews)
      BY <2>3 DEF ClosedOK
    <3> QED BY <1>1, <1>2, <2>1, <2>3, <3>1, ReviewTravels, ReviewsAreNumbered
            DEF Persisted, Posting
  <2> QED BY <2>1, <2>5, <2>6, GoesWell
<1>4. CASE CheckMarker(j) /\ Marked(old.sha)
           /\ Goes(j, [old EXCEPT !.at = "settle", !.posted = FALSE])
  <2> DEFINE job == [old EXCEPT !.at = "settle", !.posted = FALSE]
  <2>1. old.at = "check" /\ \E i \in DOMAIN reviews : reviews[i].sha = old.sha
    BY <1>4 DEF CheckMarker, Marked, Listed
  <2>2. job \in Job
    BY <1>1 DEF Job, Posting
  <2>3. SameReview(job, old) /\ job.at = "settle" /\ job.posted = FALSE
        /\ job.sha = old.sha /\ job.attempt = old.attempt
        /\ job.diff = old.diff /\ job.moved = old.moved /\ job.notice = old.notice
        /\ job.flagged = old.flagged
    BY <1>1 DEF Job, SameReview
  <2>4. Goes(j, job)
    BY <1>4
  <2> HIDE DEF job
  <2>5. JobOK(job, head)
    BY <1>1, <2>1, <2>2, <2>3 DEF JobOK, TokenOK, HeadOK, UnderWay, SameReview, Posting
  <2>6. RunOK(j, job, reviews)
    <3>1. ClosedOK(j, job, reviews)
      BY <2>1, <2>3 DEF ClosedOK
    <3> QED BY <1>1, <1>2, <2>1, <2>3, <3>1, ReviewTravels, ReviewsAreNumbered
            DEF Persisted, Posting
  <2> QED BY <2>4, <2>5, <2>6, GoesWell
<1>5. ASSUME CheckMarker(j), NEW left \in Token,
             Goes(j, [old EXCEPT !.at = "post", !.left = left])
      PROVE  PInv'
  <2> DEFINE job == [old EXCEPT !.at = "post", !.left = left]
  <2>1. old.at = "check" /\ left \in 0..Lifetime /\ left > Margin
    <3>1. old.at = "check"
      BY <1>5 DEF CheckMarker
    <3>2. left \in Margin + 1..Lifetime
      BY DEF Token
    <3> QED BY <1>2, <3>1, <3>2
  <2>2. job \in Job
    BY <1>1, <2>1 DEF Job, Posting
  <2>3. SameReview(job, old) /\ job.at = "post" /\ job.left = left
        /\ job.sha = old.sha /\ job.attempt = old.attempt
        /\ job.diff = old.diff /\ job.moved = old.moved /\ job.notice = old.notice
        /\ job.flagged = old.flagged
    BY <1>1 DEF Job, SameReview
  <2>4. Goes(j, job)
    BY <1>5
  <2> HIDE DEF job
  <2>5. JobOK(job, head)
    BY <1>1, <2>1, <2>2, <2>3 DEF JobOK, TokenOK, HeadOK, UnderWay, SameReview, Posting
  <2>6. RunOK(j, job, reviews)
    <3>1. ClosedOK(j, job, reviews)
      BY <2>3 DEF ClosedOK
    <3> QED BY <1>1, <1>2, <2>1, <2>3, <3>1, ReviewTravels, ReviewsAreNumbered
            DEF Persisted, Posting
  <2> QED BY <2>4, <2>5, <2>6, GoesWell
<1>6. CASE CommentsRefused(j)
  <2>1. PICK left \in After(old.left, Request) :
            Goes(j, [old EXCEPT !.at = "fallback", !.left = left])
    BY <1>6 DEF CommentsRefused
  <2> DEFINE job == [old EXCEPT !.at = "fallback", !.left = left]
  <2>2. old.at = "post" /\ left \in 0..Lifetime /\ left > Request
    <3>1. old.at = "post"
      BY <1>6 DEF CommentsRefused
    <3>2. old.left \in 0..Lifetime /\ old.left > Margin
      BY <1>1, <3>1 DEF JobOK, TokenOK, Job
    <3> QED BY <1>2, <3>1, <3>2 DEF After, Request
  <2>3. job \in Job
    BY <1>1, <2>2 DEF Job, Posting
  <2>4. SameReview(job, old) /\ job.at = "fallback" /\ job.left = left
        /\ job.sha = old.sha /\ job.attempt = old.attempt
        /\ job.diff = old.diff /\ job.moved = old.moved /\ job.notice = old.notice
        /\ job.flagged = old.flagged
    BY <1>1 DEF Job, SameReview
  <2> HIDE DEF job
  <2>5. JobOK(job, head)
    BY <1>1, <2>2, <2>3, <2>4 DEF JobOK, TokenOK, HeadOK, UnderWay, SameReview, Posting
  <2>6. RunOK(j, job, reviews)
    <3>1. ClosedOK(j, job, reviews)
      BY <2>4 DEF ClosedOK
    <3> QED BY <1>1, <1>2, <2>2, <2>4, <3>1, ReviewTravels, ReviewsAreNumbered
            DEF Persisted, Posting
  <2> USE DEF job
  <2> QED BY <2>1, <2>5, <2>6, GoesWell
<1>7. CASE MarkPosted(j)
  <2> DEFINE all == {old.findings[i] : i \in DOMAIN old.findings}
             kept == {f \in all : f.grounded \/ f.key \in old.known}
             flagged == IF old.posted THEN {f.key : f \in kept} ELSE old.flagged
             job == [old EXCEPT !.at = "published", !.flagged = flagged]
  <2>1. old.at = "settle" /\ Goes(j, job)
    <3>1. old.at = "settle"
      BY <1>7 DEF MarkPosted
    <3>2. Goes(j, job)
      BY <1>7 DEF MarkPosted
    <3> QED BY <3>1, <3>2
  <2>2. /\ old.known \subseteq VisibleIn(reviews)
        /\ old.posted = TRUE => Payload(old) \subseteq VisibleIn(reviews)
        /\ old.posted = FALSE => \E i \in DOMAIN reviews : reviews[i].sha = old.sha
    BY <1>1, <2>1 DEF RunOK, ClosedOK
  <2>3. \A i \in Grounded(old) : old.findings[i].key \in old.known \cup Payload(old)
    BY <1>1, <2>1 DEF RunOK, PayloadOK, Persisted, Posting
  <2>4. \A i \in DOMAIN old.findings : old.findings[i].key \in Keys
    BY <1>1, FindingsHaveKeys
  <2>5. flagged \in SUBSET Keys /\ flagged \subseteq VisibleIn(reviews)
    <3>1. CASE old.posted = TRUE
      <4> SUFFICES ASSUME NEW i \in DOMAIN old.findings,
                          old.findings[i].grounded \/ old.findings[i].key \in old.known
                   PROVE  /\ old.findings[i].key \in Keys
                          /\ old.findings[i].key \in VisibleIn(reviews)
        BY <3>1
      <4> QED BY <2>2, <2>3, <2>4, <3>1 DEF Grounded
    <3>2. CASE old.posted = FALSE
      BY <1>1, <3>2 DEF Job
    <3> QED BY <1>1, <3>1, <3>2 DEF Job
  <2> HIDE DEF flagged
  <2>6. job \in Job
    BY <1>1, <2>5 DEF Job, Resting
  <2>7. SameReview(job, old) /\ job.at = "published" /\ job.flagged = flagged
        /\ job.sha = old.sha /\ job.attempt = old.attempt
        /\ job.diff = old.diff /\ job.moved = old.moved /\ job.notice = old.notice
    BY <1>1 DEF Job, SameReview
  <2> HIDE DEF job
  <2>8. JobOK(job, head)
    BY <1>1, <2>1, <2>6, <2>7 DEF JobOK, TokenOK, HeadOK, UnderWay, SameReview, Posting
  <2>9. ClosedOK(j, job, reviews)
    <3>1. Grounded(job) = Grounded(old)
      BY <2>7 DEF SameReview, Grounded
    <3>2. CASE old.posted = TRUE
      BY <2>2, <2>3, <2>7, <3>1, <3>2 DEF ClosedOK, SameReview
    <3>3. CASE old.posted = FALSE
      <4>1. PICK i \in DOMAIN reviews : reviews[i].sha = old.sha
        BY <2>2, <3>3
      <4>2. CASE reviews[i].run = j /\ reviews[i].attempt = old.madeBy
        <5>1. Payload(old) \subseteq VisibleIn(reviews)
          BY <1>1, <2>1, <4>2 DEF RunOK, OwnOK, Persisted, Posting, VisibleIn
        <5> QED BY <2>2, <2>3, <2>7, <3>1, <5>1 DEF ClosedOK, SameReview
      <4>3. CASE ~(reviews[i].run = j /\ reviews[i].attempt = old.madeBy)
        BY <2>7, <4>1, <4>3 DEF ClosedOK, SameReview
      <4> QED BY <4>2, <4>3
    <3> QED BY <1>1, <3>2, <3>3 DEF Job
  <2>10. RunOK(j, job, reviews)
    BY <1>1, <1>2, <2>1, <2>5, <2>7, <2>9, ReviewTravels, ReviewsAreNumbered
       DEF Persisted, Posting
  <2> QED BY <2>1, <2>8, <2>10, GoesWell
<1> QED BY <1>3, <1>4, <1>5, <1>6, <1>7 DEF CheckMarker

LEMMA LandingKeeps ==
    ASSUME PInv, NEW j \in Runs, PostReview(j) \/ Interrupt(j) \/ AnswerLost(j)
    PROVE  PInv'
<1> DEFINE old == jobs[j]
<1>1. /\ JobOK(old, head) /\ RunOK(j, old, reviews) /\ old \in Job
      /\ reviews \in Seq(Review) /\ 0 \in 0..Lifetime
  BY BoundsAssumption DEF PInv, TypeOK, JobOK
<1>2. CASE PostReview(j)
  <2> DEFINE job == [old EXCEPT !.at = "settle", !.left = 0, !.posted = TRUE]
  <2>1. Post(j, job)
    BY <1>2 DEF PostReview
  <2>2. job \in Job
    BY <1>1 DEF Job, Posting
  <2>3. /\ SameReview(job, old) /\ job.at = "settle" /\ job.posted = TRUE
        /\ job.sha = old.sha /\ job.attempt = old.attempt
        /\ job.diff = old.diff /\ job.moved = old.moved /\ job.notice = old.notice
        /\ job.flagged = old.flagged
    BY <1>1 DEF Job, SameReview
  <2> HIDE DEF job
  <2>4. old.at \in {"post", "fallback"}
    BY <2>1, PostLands
  <2>5. PICK v \in Review : /\ reviews' = Append(reviews, v)
                            /\ v.run = j /\ Lands(v, old)
    BY <2>1, PostLands
  <2>6. JobOK(job, head)
    BY <1>1, <2>2, <2>3, <2>4 DEF JobOK, TokenOK, HeadOK, UnderWay, SameReview, Posting
  <2>7. RunOK(j, job, reviews')
    BY <1>1, <2>3, <2>4, <2>5, OwnReview
  <2> QED BY <2>1, <2>6, <2>7, PostsWell
<1>3. CASE Interrupt(j)
  <2>1. PICK job \in Interrupted(old) : Goes(j, job)
    BY <1>3 DEF Interrupt
  <2>2. JobOK(job, head) /\ RunOK(j, job, reviews)
    BY <1>1, <1>3, InterruptedWell, ReviewsAreNumbered DEF Interrupt
  <2> QED BY <2>1, <2>2, GoesWell
<1>4. CASE AnswerLost(j)
  <2>1. PICK job \in Interrupted(old) : Post(j, job)
    BY <1>4 DEF AnswerLost
  <2>2. old.at \in {"post", "fallback"} /\ old.at \in Posting
    BY <2>1, PostLands DEF Posting
  <2>3. PICK v \in Review : /\ reviews' = Append(reviews, v)
                            /\ v.run = j /\ Lands(v, old)
    BY <2>1, PostLands
  <2>4. JobOK(job, head)
    BY <1>1, <2>1, <2>2, InterruptedWell, ReviewsAreNumbered
  <2>5. CASE job \in {Without(old, "queued"), Without(old, "failed")}
    <3>1. \A rest \in {"queued", "failed"} : RunOK(j, Without(old, rest), reviews')
      BY <1>1, <2>2, <2>3, OwnReview, RestsWell
    <3>2. RunOK(j, job, reviews')
      BY <2>5, <3>1
    <3> QED BY <2>1, <2>4, <3>2, PostsWell
  <2>6. CASE job = [old EXCEPT !.at = "parked", !.left = 0, !.posted = FALSE]
    <3>1. /\ SameReview(job, old) /\ job.at = "parked"
          /\ job.attempt = old.attempt /\ job.flagged = old.flagged
      BY <1>1, <2>6 DEF Job, SameReview
    <3>2. RunOK(j, job, reviews')
      BY <1>1, <2>2, <2>3, <3>1, OwnReview
    <3> QED BY <2>1, <2>4, <3>2, PostsWell
  <2> QED BY <2>1, <2>2, <2>5, <2>6 DEF Interrupted, Reviewing, Cloning, Posting
<1> QED BY <1>2, <1>3, <1>4

(* A step that no run takes part in changes nothing a run rests on.        *)
Unmoved(job, old) ==
    /\ SameReview(job, old) /\ job.at = old.at /\ job.attempt = old.attempt
    /\ job.posted = old.posted /\ job.sha = old.sha /\ job.flagged = old.flagged

LEMMA PushKeeps == PInv /\ Push => PInv'
<1> SUFFICES ASSUME PInv, Push PROVE PInv'
  OBVIOUS
<1>1. /\ pushes' \in 0..MaxPushes /\ head' \in Shas /\ UNCHANGED reviews
      /\ jobs \in [Runs -> Job]
  BY BoundsAssumption DEF PInv, TypeOK, Push
<1>2. ASSUME NEW j \in Runs
      PROVE  JobOK(jobs'[j], head') /\ RunOK(j, jobs'[j], reviews')
  <2> DEFINE old == jobs[j]
             further == [old EXCEPT !.moved = @ + 1]
  <2>1. /\ JobOK(old, head) /\ RunOK(j, old, reviews) /\ old \in Job
        /\ old.moved \in Nat
    BY DEF PInv, JobOK, Job
  <2>2. jobs'[j] = IF old.at \in Cloning THEN further ELSE old
    BY DEF Push
  <2>3. CASE old.at \in Cloning
    <3>1. further \in Job /\ further.moved = old.moved + 1
          /\ Unmoved(further, old) /\ further.left = old.left
          /\ further.diff = old.diff /\ further.madeBy = old.madeBy
      BY <2>1 DEF Job, Unmoved, SameReview
    <3> HIDE DEF further
    <3>2. JobOK(further, head')
      BY <2>1, <2>3, <3>1 DEF JobOK, TokenOK, HeadOK, UnderWay, Unmoved, Cloning, Posting
    <3>3. RunOK(j, further, reviews)
      BY <2>1, <3>1 DEF RunOK, PayloadOK, OwnOK, ClosedOK, Unmoved, SameReview,
                        Payload, Grounded
    <3> QED BY <1>1, <2>2, <2>3, <3>2, <3>3
  <2>4. CASE old.at \notin Cloning
    <3>1. JobOK(old, head')
      BY <2>1, <2>4 DEF JobOK, HeadOK, Cloning
    <3> QED BY <1>1, <2>1, <2>2, <2>4, <3>1
  <2> QED BY <2>3, <2>4
<1>3. jobs' \in [Runs -> Job]
  <2>1. \A j \in Runs : jobs'[j] \in Job
    BY <1>2 DEF JobOK
  <2> QED BY <2>1 DEF Push
<1>4. \A i \in DOMAIN reviews' : ReviewOK(reviews'[i])
  BY <1>1 DEF PInv
<1> QED BY <1>1, <1>2, <1>3, <1>4 DEF PInv, TypeOK

LEMMA PublishingInductive == Spec => []PInv
<1>1. Init => PInv
  <2> SUFFICES ASSUME Init PROVE PInv
    OBVIOUS
  <2>1. /\ jobs = [j \in Runs |-> Queued] /\ reviews = <<>> /\ pushes = 0
        /\ head \in Shas /\ DOMAIN reviews = {}
    BY DEF Init
  <2>2. Queued \in Job
    BY NoFindings, BoundsAssumption DEF Queued, Job, Resting
  <2>3. TypeOK
    BY <2>1, <2>2, BoundsAssumption DEF TypeOK
  <2>4. JobOK(Queued, head)
    BY <2>2 DEF Queued, JobOK, TokenOK, HeadOK, UnderWay, Posting
  <2>5. ASSUME NEW j \in Runs PROVE RunOK(j, Queued, reviews)
    BY <2>1 DEF Queued, RunOK, PayloadOK, OwnOK, ClosedOK, Persisted, Posting
  <2> QED BY <2>1, <2>3, <2>4, <2>5 DEF PInv, NothingTwice
<1>2. PInv /\ [Next]_vars => PInv'
  <2>1. PInv /\ UNCHANGED vars => PInv'
    BY DEF PInv, TypeOK, vars
  <2> QED BY <2>1, ReviewingKeeps, ListingKeeps, PostingKeeps, LandingKeeps,
             PushKeeps DEF Next
<1> QED BY <1>1, <1>2, PTL DEF Spec

-----------------------------------------------------------------------------
(* Every run and every review stays in its domain, whatever the bounds.    *)
THEOREM PublishingTyped == Spec => []TypeOK
<1>1. PInv => TypeOK
  BY DEF PInv
<1> QED BY <1>1, PublishingInductive, PTL

(* A review is of the diff of the head in its marker, unless it is the     *)
(* notice or the head moved at least twice, away and back, from the        *)
(* get_pr of the run that made it to its fetch, for any number of runs,    *)
(* commits and pushes (`clone_head`).                                      *)
THEOREM ReviewsKeepToOneHead == Spec => []ReviewsAreOfOneHead
<1>1. PInv => ReviewsAreOfOneHead
  BY DEF PInv, ReviewOK, ReviewsAreOfOneHead
<1> QED BY <1>1, PublishingInductive, PTL

(* A token outlives the last call it is used for, for every refresh margin *)
(* that spans two git commands (`InstallationTokens.get`).                 *)
THEOREM TokensOutliveTheirUse == Spec => []TokenOutlivesItsUse
<1>1. PInv => TokenOutlivesItsUse
  BY DEF PInv, JobOK, TokenOK, TokenOutlivesItsUse
<1> QED BY <1>1, PublishingInductive, PTL

(* A finding that is flagged as posted is to be seen on the pull request,  *)
(* for any number of runs, reviews, attempts and lost answers              *)
(* (`mark_posted`).                                                        *)
THEOREM FlaggedAreVisible == Spec => []FlaggedFindingsAreVisible
<1>1. PInv => FlaggedFindingsAreVisible
  BY DEF PInv, RunOK, FlaggedFindingsAreVisible, Visible, VisibleIn
<1> QED BY <1>1, PublishingInductive, PTL

(* Of a published run every grounded finding is to be seen, or its head    *)
(* was reviewed by another payload (`build_review`, `already_reviewed`).   *)
THEOREM PublishedAreVisible == Spec => []PublishedFindingsAreVisible
<1>1. PInv => PublishedFindingsAreVisible
  <2> SUFFICES ASSUME PInv, NEW j \in Runs, jobs[j].at = "published"
               PROVE  \/ \A i \in DOMAIN jobs[j].findings :
                            jobs[j].findings[i].grounded
                                => jobs[j].findings[i].key \in Visible
                      \/ \E v \in {reviews[i] : i \in DOMAIN reviews} :
                            /\ v.sha = jobs[j].sha
                            /\ <<v.run, v.attempt>> # <<j, jobs[j].madeBy>>
    BY DEF PublishedFindingsAreVisible
  <2>1. ClosedOK(j, jobs[j], reviews)
    BY DEF PInv, RunOK
  <2>2. Visible = VisibleIn(reviews)
    BY DEF Visible, VisibleIn
  <2> QED BY <2>1, <2>2 DEF ClosedOK, Grounded
<1> QED BY <1>1, PublishingInductive, PTL

(* A review repeats a finding of an earlier one only if its run had not    *)
(* seen that review, for any number of reviews and any page                *)
(* (`posted_finding_keys`, `build_review`).                                *)
THEOREM RepeatsWereUnseen == Spec => []RepeatedFindingsWereUnseen
<1>1. PInv => RepeatedFindingsWereUnseen
  BY DEF PInv, NothingTwice, RepeatedFindingsWereUnseen
<1> QED BY <1>1, PublishingInductive, PTL
=============================================================================
