----------------------------- MODULE Publishing -----------------------------
(***************************************************************************)
(* What the runs of one pull request put on it: the head, the diff and the *)
(* checkout a review is made from (agent/review.py, gh/clone.py), the      *)
(* findings it places (gh/anchor.py), and the calls that read and post     *)
(* reviews (gh/client.py) with the installation token they use             *)
(* (gh/auth.py).                                                           *)
(*                                                                         *)
(* ReviewWorker follows who may work on a run; this module follows what a  *)
(* run reads and writes.  Every run has one process at a time here, and    *)
(* the processes of different runs interleave.                             *)
(***************************************************************************)
EXTENDS Integers, Sequences, FiniteSets

CONSTANTS
    Runs,        \* the runs of the pull request
    Shas,        \* commits its head may be
    None,        \* no commit
    Keys,        \* finding keys: file, category and evidence
    InDiff,      \* the keys whose evidence is in the diff of each commit
    Large,       \* commits whose diff is over max_diff_bytes
    MaxPushes,   \* bound: times the head moves
    MaxFindings, \* bound: findings of one review
    MaxAttempts, \* the setting max_attempts
    Page,        \* reviews, and comments, in one answer of GitHub: per_page
    Margin,      \* REFRESH_MARGIN_S, in minutes
    Lifetime     \* the life of a new token, in minutes

ASSUME CommitsAssumption ==
    /\ None \notin Shas /\ Large \subseteq Shas
    /\ InDiff \in [Shas -> SUBSET Keys]
ASSUME BoundsAssumption ==
    /\ {MaxPushes, MaxFindings, MaxAttempts, Page} \subseteq Nat
    /\ {Margin, Lifetime} \subseteq Nat

Request == 1  \* the timeout of a request, in minutes
Git     == 2  \* the timeout of a git command

(* The margin spans the two calls a token is taken for.                    *)
ASSUME MarginAssumption == Margin >= 2 * Git

VARIABLES
    head,    \* GitHub: the head of the pull request
    pushes,  \* times it has moved
    reviews, \* GitHub: the reviews on the pull request, in order
    jobs     \* each run: its row and the process that works on it

vars == <<head, pushes, reviews, jobs>>

-----------------------------------------------------------------------------
(* A finding, as grounding leaves it.  Its key decides where it belongs:   *)
(* evidence in the diff is grounded by the diff, and is commented inline;  *)
(* other evidence is grounded where a tool has returned it.                *)
Finding == [key : Keys, grounded : BOOLEAN]

Results == UNION {[1..n -> Finding] : n \in 0..MaxFindings}

Found(diff) ==
    {findings \in Results : \A i \in DOMAIN findings :
        findings[i].key \in InDiff[diff] => findings[i].grounded}

(* An inline comment: the finding it is of, by its place in the result.    *)
Comment == [place : 1..MaxFindings, key : Keys]

(* A review on GitHub: who posted it, the head in its marker, the markers  *)
(* of findings in its body and its comments.  For the properties: the      *)
(* commit whose diff was reviewed, how often the head moved from get_pr to *)
(* the fetch, whether it is the too-large notice, and the reviews that had *)
(* been read in whole when it was built.                                   *)
Review == [run : Runs, attempt : 1..MaxAttempts, sha : Shas,
           body : SUBSET Keys, comments : SUBSET Comment,
           diff : Shas, moved : Nat, notice : BOOLEAN, seen : SUBSET Nat]

(* Where a run stands: before the call the step is named for.  "queued"    *)
(* and "parked" are the states queued and post_pending of a row no process *)
(* holds.                                                                  *)
Cloning   == {"diff", "init", "fetch"}
Reviewing == Cloning \cup {"graph", "reviews", "comments", "record"}
Posting   == {"check", "post", "fallback", "settle"}
Resting   == {"queued", "parked", "published", "failed"}

(* `attempt` counts claims, `repost` is a claim of a post_pending row, and *)
(* `left` is the life of the token in hand.  `moved` are the moves of the  *)
(* head since get_pr, until the fetch.  `findings` to `comments` are       *)
(* the result: the attempt that made it, its findings, the finding keys    *)
(* that were on the pull request, and the payload.  `flagged` are the keys *)
(* of the run's findings with posted=TRUE.                                 *)
Job == [at : Reviewing \cup Posting \cup Resting,
        attempt : 0..MaxAttempts, repost : BOOLEAN, left : 0..Lifetime,
        sha : Shas \cup {None}, diff : Shas \cup {None}, moved : Nat,
        madeBy : 0..MaxAttempts, notice : BOOLEAN,
        findings : Results, known : SUBSET Keys, seen : SUBSET Nat,
        body : SUBSET Keys, comments : SUBSET Comment,
        posted : BOOLEAN, flagged : SUBSET Keys]

Queued == [at |-> "queued", attempt |-> 0, repost |-> FALSE, left |-> 0,
           sha |-> None, diff |-> None, moved |-> 0,
           madeBy |-> 0, notice |-> FALSE,
           findings |-> <<>>, known |-> {}, seen |-> {},
           body |-> {}, comments |-> {},
           posted |-> FALSE, flagged |-> {}]

-----------------------------------------------------------------------------
(* Tokens *)

(* Bug: a token is used as long as it has not expired. *)
TokenNoMargin == 1..Lifetime

(* InstallationTokens.get: a cached token that lives longer than the       *)
(* margin, or a new one.  A new one is not compared with the margin, but   *)
(* GitHub's live an hour.                                                  *)
Token == Margin + 1..Lifetime

(* What a call that took up to `minutes` leaves of a token.                *)
After(left, minutes) == {IF left > m THEN left - m ELSE 0 : m \in 0..minutes}

-----------------------------------------------------------------------------
(* review_pr *)

Goes(j, job) ==
    /\ jobs' = [jobs EXCEPT ![j] = job]
    /\ UNCHANGED <<head, pushes, reviews>>

(* A run that rests with no use for the result it had. *)
Without(job, rest) == [Queued EXCEPT !.at = rest, !.attempt = job.attempt,
                                     !.flagged = job.flagged]

(* Bug: a claim looks at no ceiling. *)
ReadHeadNoCeiling(j) ==
    /\ jobs[j].at = "queued"
    /\ Goes(j, [jobs[j] EXCEPT !.at = "diff", !.attempt = @ + 1, !.sha = head])

(* A claim, and get_pr. *)
ReadHead(j) ==
    /\ jobs[j].at = "queued" /\ jobs[j].attempt < MaxAttempts
    /\ Goes(j, [jobs[j] EXCEPT !.at = "diff", !.attempt = @ + 1, !.sha = head])

(* get_diff is of the head at this moment.  A diff over the limit makes    *)
(* the notice, from no checkout.                                           *)
ReadDiff(j) ==
    /\ jobs[j].at = "diff"
    /\ Goes(j, [jobs[j] EXCEPT
                    !.at = IF head \in Large THEN "record" ELSE "init",
                    !.diff = head, !.notice = head \in Large])

(* clone_head uses one token for all its commands.                         *)
InitClone(j) ==
    /\ jobs[j].at = "init"
    /\ \E token \in Token : \E left \in After(token, Git) :
        Goes(j, [jobs[j] EXCEPT !.at = "fetch", !.left = left])

(* Bug: what was fetched is not compared with the head that was read. *)
FetchAnyHead(j) ==
    /\ jobs[j].at = "fetch"
    /\ Goes(j, [jobs[j] EXCEPT !.left = 0, !.at = "graph"])

FetchHead(j) ==
    /\ jobs[j].at = "fetch"
    /\ Goes(j, IF head = jobs[j].sha
               THEN [jobs[j] EXCEPT !.left = 0, !.at = "graph"]
               ELSE Without(jobs[j], "failed"))

Analyse(j) ==
    /\ jobs[j].at = "graph"
    /\ \E findings \in Found(jobs[j].diff) :
        Goes(j, [jobs[j] EXCEPT !.at = "reviews", !.findings = findings])

-----------------------------------------------------------------------------
(* posted_finding_keys *)

KeysOf(comments) == {c.key : c \in comments}

ShownBy(v) == v.body \cup KeysOf(v.comments)

(* The reviews a listing returns: one page of them, oldest first.          *)
Listed == {i \in DOMAIN reviews : i <= Page}

(* A listing GitHub refuses is passed over.  One token serves both.        *)
ReadReviews(j) ==
    /\ jobs[j].at = "reviews"
    /\ \E token \in Token : \E left \in After(token, Request) :
       \E listed \in {Listed, {}} :
        Goes(j, [jobs[j] EXCEPT
                    !.at = "comments", !.left = left,
                    !.known = UNION {reviews[i].body : i \in listed},
                    !.seen = listed])

(* The comments of all reviews, and those of one page: GitHub lists them   *)
(* by review, in the order of the payload.                                 *)
Comments == {c \in [review : DOMAIN reviews, place : 1..MaxFindings, key : Keys] :
                 [place |-> c.place, key |-> c.key] \in reviews[c.review].comments}

Before(c, d) == \/ c.review < d.review
                \/ c.review = d.review /\ c.place < d.place

FirstComments(limit) ==
    {c \in Comments : Cardinality({d \in Comments : Before(d, c)}) < limit}

(* The findings at the given places, as comments of a review.              *)
Inline(findings, places) ==
    {[place |-> i, key |-> findings[i].key] : i \in places}

(* Bug: evidence outside the diff is not mentioned. *)
BuildReviewInlineOnly(job, known) ==
    LET inline == {i \in DOMAIN job.findings :
                      /\ job.findings[i].key \in InDiff[job.diff] \ known
                      /\ job.findings[i].grounded}
    IN [job EXCEPT !.at = "record", !.left = 0, !.known = known,
                   !.comments = Inline(job.findings, inline)]

(* build_review.  A finding whose key is known is a duplicate, before its  *)
(* verdict is looked at; of the others the grounded are published, inline  *)
(* where their evidence is in the diff and in the body where it is not.    *)
BuildReview(job, known) ==
    LET publishable == {i \in DOMAIN job.findings :
                           /\ job.findings[i].key \notin known
                           /\ job.findings[i].grounded}
        inline == {i \in publishable : job.findings[i].key \in InDiff[job.diff]}
    IN [job EXCEPT !.at = "record", !.left = 0, !.known = known,
                   !.body = {job.findings[i].key : i \in publishable \ inline},
                   !.comments = Inline(job.findings, inline)]

(* Bug: a page of comments is not asked for. *)
ReadCommentsNever(j) ==
    /\ jobs[j].at = "comments"
    /\ Goes(j, BuildReview(jobs[j], jobs[j].known))

(* A review is read in whole if all its comments are listed too.           *)
ReadComments(j) ==
    /\ jobs[j].at = "comments"
    /\ \E limit \in {0, Page} :
        LET listed == FirstComments(limit)
            whole == {n \in jobs[j].seen :
                         \A c \in Comments : c.review = n => c \in listed}
        IN Goes(j, [BuildReview(jobs[j], jobs[j].known \cup KeysOf(listed))
                        EXCEPT !.seen = whole])

(* record_result *)
Record(j) ==
    /\ jobs[j].at = "record"
    /\ Goes(j, [jobs[j] EXCEPT !.at = "check", !.madeBy = jobs[j].attempt,
                               !.flagged = {}])

-----------------------------------------------------------------------------
(* post_payload, mark_posted *)

(* The claim of a parked post. *)
TakePost(j) ==
    /\ jobs[j].at = "parked" /\ jobs[j].attempt < MaxAttempts
    /\ Goes(j, [jobs[j] EXCEPT !.at = "check", !.attempt = @ + 1,
                               !.repost = TRUE])

Marked(sha) == \E i \in Listed : reviews[i].sha = sha

(* already_reviewed; reviews that cannot be listed hold no marker.         *)
CheckMarker(j) ==
    /\ jobs[j].at = "check"
    /\ \/ /\ Marked(jobs[j].sha)
          /\ Goes(j, [jobs[j] EXCEPT !.at = "settle", !.posted = FALSE])
       \/ \E left \in Token :
            Goes(j, [jobs[j] EXCEPT !.at = "post", !.left = left])

Landing(j, body, comments) ==
    [run |-> j, attempt |-> jobs[j].madeBy, sha |-> jobs[j].sha,
     body |-> body, comments |-> comments,
     diff |-> jobs[j].diff, moved |-> jobs[j].moved,
     notice |-> jobs[j].notice, seen |-> jobs[j].seen]

(* What of a payload lands: all of it, or, in post_review's second try,    *)
(* its comments as text of the body.                                       *)
Post(j, after) ==
    LET job == jobs[j]
        lands(body, comments) ==
            reviews' = Append(reviews, Landing(j, body, comments))
    IN /\ \/ /\ job.at = "post"
             /\ KeysOf(job.comments) \subseteq InDiff[job.sha]
             /\ lands(job.body, job.comments)
          \/ /\ job.at = "fallback"
             /\ lands(job.body \cup KeysOf(job.comments), {})
       /\ jobs' = [jobs EXCEPT ![j] = after]
       /\ UNCHANGED <<head, pushes>>

PostReview(j) ==
    Post(j, [jobs[j] EXCEPT !.at = "settle", !.left = 0, !.posted = TRUE])

(* 422: GitHub takes no comment off the diff of the commit it names, and   *)
(* may refuse others.                                                      *)
CommentsRefused(j) ==
    /\ jobs[j].at = "post" /\ jobs[j].comments # {}
    /\ \E left \in After(jobs[j].left, Request) :
        Goes(j, [jobs[j] EXCEPT !.at = "fallback", !.left = left])

(* Bug: the findings are flagged whether or not this run posted them. *)
MarkPostedAlways(j) ==
    /\ jobs[j].at = "settle"
    /\ Goes(j, [jobs[j] EXCEPT
                    !.at = "published",
                    !.flagged = {f.key : f \in {jobs[j].findings[i] :
                                                    i \in DOMAIN jobs[j].findings}}])

(* Every finding but the dropped is flagged, the duplicates too.           *)
MarkPosted(j) ==
    LET all == {jobs[j].findings[i] : i \in DOMAIN jobs[j].findings}
        kept == {f \in all : f.grounded \/ f.key \in jobs[j].known}
    IN /\ jobs[j].at = "settle"
       /\ Goes(j, [jobs[j] EXCEPT
                    !.at = "published",
                    !.flagged = IF jobs[j].posted THEN {f.key : f \in kept} ELSE @])

-----------------------------------------------------------------------------
(* What goes wrong.  While a run reviews, a transient error or the death   *)
(* of its process sends it back to the queue.  While it posts, they park   *)
(* the persisted review, but a process that dies reposting leaves a        *)
(* running row, which is reviewed again.  Other errors fail the run.       *)
Interrupted(job) ==
    IF job.at \in Reviewing THEN {Without(job, "queued"), Without(job, "failed")}
    ELSE {[job EXCEPT !.at = "parked", !.left = 0, !.posted = FALSE],
          Without(job, "failed")}
         \cup (IF job.repost THEN {Without(job, "queued")} ELSE {})

Interrupt(j) ==
    /\ jobs[j].at \in Reviewing \cup Posting
    /\ \E job \in Interrupted(jobs[j]) : Goes(j, job)

(* An answer that is lost: the review is on the pull request all the same. *)
AnswerLost(j) == \E job \in Interrupted(jobs[j]) : Post(j, job)

(* A push, or a force-push back to an older commit. *)
Push ==
    /\ pushes < MaxPushes
    /\ \E sha \in Shas \ {head} : head' = sha
    /\ pushes' = pushes + 1
    /\ jobs' = [j \in Runs |->
                   IF jobs[j].at \in Cloning
                   THEN [jobs[j] EXCEPT !.moved = @ + 1] ELSE jobs[j]]
    /\ UNCHANGED reviews

-----------------------------------------------------------------------------
Init ==
    /\ head \in Shas
    /\ pushes = 0
    /\ reviews = <<>>
    /\ jobs = [j \in Runs |-> Queued]

Next ==
    \/ \E j \in Runs :
        \/ ReadHead(j) \/ ReadDiff(j) \/ InitClone(j) \/ FetchHead(j)
        \/ Analyse(j) \/ ReadReviews(j) \/ ReadComments(j) \/ Record(j)
        \/ TakePost(j) \/ CheckMarker(j) \/ PostReview(j)
        \/ CommentsRefused(j) \/ MarkPosted(j)
        \/ Interrupt(j) \/ AnswerLost(j)
    \/ Push

Spec == Init /\ [][Next]_vars

-----------------------------------------------------------------------------
(* Every run and every review stays in its domain. *)
TypeOK ==
    /\ head \in Shas /\ pushes \in 0..MaxPushes
    /\ reviews \in Seq(Review)
    /\ jobs \in [Runs -> Job]

Visible == UNION {ShownBy(reviews[i]) : i \in DOMAIN reviews}

(* posted=TRUE "tells an operator a comment reached GitHub" (mark_posted): *)
(* the finding is to be seen, in a comment, or moved to the body by the    *)
(* 422 fallback, or as the duplicate of one that is.                       *)
FlaggedFindingsAreVisible == \A j \in Runs : jobs[j].flagged \subseteq Visible

(* Of a run that was published every grounded finding can be seen, unless  *)
(* its head was already reviewed by another payload and that one stands    *)
(* for it (build_review, already_reviewed).                                *)
PublishedFindingsAreVisible ==
    \A j \in Runs : jobs[j].at = "published" =>
        \/ \A i \in DOMAIN jobs[j].findings :
              jobs[j].findings[i].grounded => jobs[j].findings[i].key \in Visible
        \/ \E v \in {reviews[i] : i \in DOMAIN reviews} :
              v.sha = jobs[j].sha /\ <<v.run, v.attempt>> # <<j, jobs[j].madeBy>>

(* A review is of the diff of the head in its marker (clone_head, "PR      *)
(* moved mid-run").  Two exceptions: the head left and came back between   *)
(* get_pr and the fetch of the very run that made the review, which the    *)
(* comparison of the two cannot tell, and the notice, for which nothing is *)
(* cloned.                                                                 *)
ReviewsAreOfOneHead ==
    \A i \in DOMAIN reviews :
        reviews[i].diff # reviews[i].sha
            => reviews[i].notice \/ reviews[i].moved >= 2

(* A finding that an earlier review shows is posted again only by a review *)
(* whose run had not seen that review: it landed later than the keys were  *)
(* read, or was beyond the page, or the listing was refused                *)
(* (posted_finding_keys).                                                  *)
RepeatedFindingsWereUnseen ==
    \A i, k \in DOMAIN reviews :
        i < k /\ ShownBy(reviews[i]) \cap ShownBy(reviews[k]) # {}
            => i \notin reviews[k].seen

(* A token outlives the last call it is used for: the fetch after the init *)
(* of a clone, the second listing, the second try of a post                *)
(* (REFRESH_MARGIN_S, "so a request in flight cannot straddle it").        *)
TokenOutlivesItsUse ==
    \A j \in Runs :
        /\ jobs[j].at = "fetch" => jobs[j].left > Git
        /\ jobs[j].at \in {"comments", "fallback"} => jobs[j].left > Request
=============================================================================
