# A formal model of auto-pr

auto-pr reviews GitHub pull requests. A webhook queues a run in PostgreSQL, a
worker claims it, clones the head, lets a model read the code through tools
until it submits findings, and posts one review. What is hard about it is not
any one of these steps but what happens between them: workers that die or stall,
connections that break after the statement was applied, posts that may or may
not have landed, pushes that arrive while a review runs. The rest is algorithms
whose cases are hard to enumerate by hand: the windows of a read, the place of a
comment, the importers of a changed module. This directory models both in TLA+,
checks them with TLC and proves their safety properties with TLAPS where it can.

All paths below are relative to `src/`.

## 1. Inventory

| Component | Source | State it keeps | Operations |
|---|---|---|---|
| Run store | `storage/runs.py`, `storage/schema.sql` | `runs`, `findings` | insert, coalesce, claim, reap, heartbeat, requeue, record, post, mark, cancel |
| Worker | `worker/main.py` | main loop, one heartbeat thread per review, `lease_lost` | claim loop, `run_one`, `post_pending` |
| API | `api/routes.py`, `api/auth.py`, `gh/webhook.py` | none | webhook, create review, cancel, reads |
| GitHub client | `gh/client.py`, `gh/clone.py` | none (GitHub keeps the reviews) | read head and diff, clone, list reviews, post |
| App auth | `gh/auth.py` | token cache | mint, reuse |
| Review pipeline | `agent/review.py` | workspace, checkpoint thread | `review_pr`, `_finish`, `post_payload`, boot sweep |
| Agent graph | `agent/graph.py`, `nodes.py`, `graph_state.py` | `ReviewState` | seven nodes, three routers |
| Budget | `agent/budget.py` | none (reads the state) | `from_state`, `breach` |
| Tools | `agent/tools.py` | none | bounded reads, search |
| Change map | `agent/changemap.py` | none | symbols, references, importers and tests of a diff |
| Grounding, anchoring | `agent/grounding.py`, `gh/anchor.py`, `core/diff.py` | none | verdict on a finding's evidence, its line, the payload |
| Model client | `agent/model_client.py` | cassette position | call, retry, replay |
| Settings, errors, backoff | `config.py`, `core/` | none | classification, `delay_for` |
| CLI, local review, evals | `agent/cli.py`, `agent/local.py`, `evals/` | none | the pipeline run once, and scoring |

**How they interact.** API and worker processes share nothing but the database.
The webhook inserts a row and retires older ones in one transaction, behind an
advisory lock that only webhooks take. Workers claim rows with `FOR UPDATE SKIP
LOCKED`; from then on every write of a worker is fenced on `id AND worker_id`.
The heartbeat thread shares `lease_lost` with the main loop, which reads it (and
the row's `cancel` flag) through the hook the graph calls between nodes. GitHub
is the other shared state: a review carries a marker of its head, and whoever is
about to post looks for it.

**What is hard**, and what must hold:

- *Ownership.* A lease can run out under a live worker, so two workers may work
  on one run; only the newest claim may write. The fence compares worker ids,
  which a restarted container keeps.
- *The commit point.* `record_result` persists a review before it is posted.
  What the row says afterwards (posted, degraded, findings flagged) must be true
  of GitHub, through ambiguous posts and any number of hand-overs.
- *Settlement.* Every run ends, whoever dies at whichever attempt, and stays
  ended.
- *Coalescing.* A push retires stale work, and never the only review of a head.
- *The loop.* The budget ends the graph before LangGraph does, tells the truth
  about why, and an attempt inherits nothing from the one before it.
- *What is posted.* Head, diff, clone and the findings already posted are read
  by separate calls; a review must be of the head it names, what is flagged as
  posted must be visible, and a token must live through the calls it is used for.
- *What the agent sees.* A read of a large file must stay in its cap without
  losing a changed line, and the change map must not say "no references" where
  there are some.
- *What is believed.* Evidence counts only if it is in the source, and a comment
  must stand on the line it quotes.

`PROJECT.json` lists each hazard at its line with the properties that cover it.

## 2. Modules

```
RunStore  <-  ReviewWorker  <-  ReviewWorkerProps  <-  MCReviewWorker     (TLC)
   ^                                 |  ^
   |                    RunLife  <---+  |   Job == INSTANCE RunLife WITH ...
RunStoreProofs        <-        ReviewWorkerProofs  <-  RunLifeProofs     (TLAPS)

ReviewGraph  <-  MCReviewGraph (TLC),  ReviewGraphProofs (TLAPS)
Publishing   <-  MCPublishing (TLC),   PublishingProofs (TLAPS)
FileWindows        <-  Evidence  <-  MCEvidence                           (TLC)
   ^                      ^
FileWindowsProofs  <-  EvidenceProofs                                     (TLAPS)
ChangeMap    <-  MCChangeMap (TLC),    ChangeMapProofs (TLAPS)
```

**RunStore** has each SQL statement as a function from table to table. A table
maps run ids, in the order of `created_at`, to rows that keep the columns any
decision reads. Three columns are abstracted: `leased_until` to none / live /
expired, `not_before` to whether it is in the future, `payload` to the attempt
that computed it (so that a payload can be told from its replacement). The
`posted` flags of a run's findings are one flag.

**ReviewWorker** composes the store with worker processes, the API and one pull
request on GitHub. Each database or GitHub call of `worker/main.py` is one
action, named for what it does; `wk[w].at` is the call the main loop is about to
make. `Call` is a database call that may lose its connection before or after the
statement was applied, and then continues where the code's handler continues:
the claim loop retries, `run_one` closes the run as failed (`except Exception`),
and what nothing catches ends the process. `Beat` is the heartbeat thread.
`Crash` and `Restart` may happen anywhere; a restarted process has the same
worker id, as a container has the same host name and pid.

The transaction of `enqueue_coalesced` is two actions, because under READ
COMMITTED its two UPDATEs see different tables: `BeginEnqueue` inserts and
supersedes, `CommitEnqueue` cancels and commits. `retiring` is the delivery
whose transaction is open. The inserted row appears with the commit. The rows it
supersedes are locked until then and claims skip locked rows, so showing them
superseded at once is something nobody can notice; for the same reason a
transaction that rolls back leaves nothing to see and is no step of the model.

`already_reviewed` asks for one page of 100 reviews, which come oldest first and
are never deleted. So which of ours are on the page is decided as they land, a
first few of them: `Page` is how many, and `listed` says it of each. How many
fit depends on the reviews of others before and between them, so `Page` may be
any number up to the code's 100.

What happens inside the graph is two steps here: passing the last cancel check,
and ending with a result or an error.

**RunLife** is what a queue of reviews promises of a run, with no processes,
leases or fences: a job is accepted, tried a bounded number of times, has the
review of the try that was last when it was recorded, shows nothing that was not
recorded, is delivered once there is a review to see, and ends. It is the
abstract specification of everything above. `ReviewWorkerProps` instantiates it
with the mapping from a row and the reviews on GitHub to a job (`LifeOf`,
`ShownOf`, `Covered`): the states queued, running and post_pending are the
phases waiting, working and due; published and degraded are delivered; failed,
cancelled and superseded are closed. A reaper or a push moves several rows in
one statement, so a step of RunLife moves every job, most of them by `Rest`.
`Close` may follow a delivery, because a worker whose connection breaks under
`mark_posted` marks failed the run it has settled, and `Show` has no phase,
because a worker that has lost its run may still be posting.

**ReviewGraph** is that inside: one action per node of `agent/nodes.py`, each
with the router that follows it, over the fields of `ReviewState` that any node
decides by. Of the conversation it keeps which calls were issued, which were
answered with their result, which were told that they had been, and which were
told they were not run. `Raise` and
`Invoke` are the exception that ends an attempt and the invocation of the next
from the same checkpoint thread. The node `fail` cannot be reached (no node sets
the status it waits for) and is left out.

**Publishing** follows what a run reads and writes where ReviewWorker follows
who may work on it: `get_pr`, `get_diff`, the two git commands of `clone_head`,
the listings behind `posted_finding_keys`, `build_review`, `record_result`,
`already_reviewed`, `post_review` with its second try after a 422, and
`mark_posted`. Runs of one pull request interleave, call by call, with pushes
and force-pushes. Each listing shows one page and may be refused. Each call
takes its token from `InstallationTokens.get`, a set of ages over the refresh
margin, and the calls that use it for longer leave it older. A diff is the set
of the keys of the findings whose evidence it shows; a key is the hash of file,
category and evidence. Reviews and comments are numbered in the order GitHub
lists them, and a page is the first of them, counted by rank, so nothing is
defined by recursion. One field decides nothing: `moved` counts the moves of the
head from a run's `get_pr` to its fetch, and its review keeps the number, so
that a property can speak of it. Interruptions are the outcomes the worker gives
them: back to the queue, parked as post_pending, or failed.

**FileWindows** is `read_file` on a file over the cap: hunks widened and merged
(`_windows`), the cap shared out (`_fair_share`), windows cut to their share
(`_select`, `_pick`, `_split`), the gaps marked and the whole fitted (`_elide`).
A file is the sequence of its line sizes, and a window the set of its lines: what
the code merges in a loop over sorted ranges are the joined stretches of a set of
lines (`Spans`). A loop that decides line by line is a recursive function over
the number of its steps (`Iterate`, and `left` in `FairShare`).

**Evidence** is the way from the diff to a comment over it: what the agent may
read and search, what of a result becomes evidence (`evidence_segments`), the
corpus and the verdict of grounding, and the line `locate_in_diff`
puts a comment on. Texts are sequences of whole lines. `Words` is any line a tool
says of its own. The raw diff, which grounding searches as it came from GitHub,
is a sequence of rows: a line with its mark (`+`, `-` or a space), or `Header`,
which stands for any row that is no line of a file (`diff --git`, `index`, `---`,
`+++`, `@@`). A quote may have marks and headers too. Matching is of substrings:
a quote may begin behind the mark of its first row (`From`) and, where it has
several lines, with the end of a line and end with the beginning of one
(`StandsAt`); parts of a line are not told apart otherwise. `Norm` is the second,
looser look, which drops empty lines and the marks of context lines. The image of
a diff is the set of its rows in order (`Rows`): the lines of the hunks, and the
empty line before each hunk but the first. Hunks of a file
do not touch, as git writes them.

**ChangeMap** is `changemap.build`: the innermost changed definitions, the scan
of the other files for mentions and imports, and the report with its limits. A
syntax tree is the set of its definitions and blocks, each with its span of
lines: what the code finds by descending (`_intersecting`), the model says of
spans. A definition is reached where all it stands in are changed definitions
(`Touched`), and reported where no other that is reached is inside it
(`Innermost`).

The MC modules give TLC its instances; the modules that end in `Proofs` hold the
theorems.

Definitions marked `Bug:` are variants of the definition after them, each with a
mistake one could make in that code. No specification uses them: they show that
a property would notice.

## 3. Runs

| Run | Instance | Shows |
|---|---|---|
| `HandOver` | 2 workers, 1 run, 3 attempts, 1 death, 1 lost connection, operator, refused reads | ownership, truth of the row, settled stays, the run is one job |
| `Pushes` | 1 worker, 2 runs, 2 pushes, 2 deliveries, 2 attempts, 1 death, a page of 1 review, fair | one review per head that the page shows, true flags, stale work retired, the head is reviewed, two runs are two jobs |
| `Settles` | 2 workers, 1 run, 2 attempts, 1 death, 1 lost connection, fair | every run settles or is stranded |
| `Budgets` | 2 calls, 4 turns, caps 1 to 4, recursion limit 12, 2 attempts | fuse, breaches, status, repeated calls |
| `Publishing` | 2 runs, 2 attempts, 2 pushes, 3 commits, 2 keys, pages of 1, margin 5 and lifetime 6 minutes | what is posted, flagged, repeated; tokens |
| `Reading` | a file of 5 lines, at most one of the first three empty, with 0 to 2 hunks, beside an added and a deleted file, the raw diff of them, 9 quotes, 2 calls, 1 finding | reads, evidence, comments |
| `ChangeMaps` | 8 files in 4 packages, all combinations of imports, mentions, hunks and parse errors | symbols, references, importers, tests |
| `DryRunPosts`, `ReviewRedone`, `PostStranded`, `PostedTwice`, `PushDuringRequeue` | the smallest that show it | section 4 |

**Bounds.** `MaxRuns`, `MaxPushes`, `MaxDeliveries`, `MaxDeaths`, `MaxLostAcks`,
`MaxCost`, `MaxFindings` and `MaxCalls` bound the models only. `MaxAttempts`,
the caps, pages (`Page`), margins and limits are settings or constants of the
program, made small. A hand-over takes two processes and one run; with three
attempts a run can be claimed, taken over, and taken over back, which is the
least in which a process could write on behalf of an older claim of its own. One
death and one lost connection can each fall at any of the calls. Two pushes give
a stale row and a current one and let their webhooks swap; a redelivery takes no
further delivery id, and `Reopen` gives a second delivery of the same head. In
`Pushes` a page of one leaves a second review beyond it, so that a head is
reviewed twice there; the other runs have pages that nothing goes beyond. The
case that takes most together, two workers that post payloads of one run for two
heads, is beyond `HandOver`; the theorem of section 5 covers it.

In `Budgets` the caps differ so that each dimension can be the first to go, and
the recursion limit is the least the assumption allows. In `Publishing` two
moves of the head can lead away and back, both under one run, one before it or
one under each; a page of one makes the second review and the second comment
invisible; the margin is the code's 300 s and the lifetime leaves two ages, at and above it. Two pull requests do not interact
except through the order of claims, and one is modelled. In `Reading` five lines
are enough for a hunk at each end with a gap that closes, just stays open, or is
marked; four short lines of 7 bytes are inside the cap of 32 and a long one of 33
is over it alone, so files are whole, windowed, split and overflowing. The quotes
are a line that is short, removed, or of a tool; pieces of two or three lines,
with an empty one inside or first; and of the raw diff an added line with its
mark, a removed line run on into an added and a context line, and a line run on
into the header below it. A marker and its budget are 2 bytes, the least the
assumption allows. In `ChangeMaps` the limits are below what can be found.

`HandOver`, `Budgets` and `Publishing` are reduced by symmetry; the two fair runs
are not. Deadlock is not checked: an instance stops when its bounds are used up.

**Fairness.** The main loop keeps taking steps and docker-compose restarts a
worker that ended (`restart: unless-stopped`). Time passes: a backoff elapses
(`not_before`), and a lease that nobody extends runs out. A lease need not run
out while a heartbeat thread extends it. Nothing is assumed of pushes, webhooks,
operators, GitHub's answers or faults, and a transaction of the webhook is not
assumed to commit: `HeadIsReviewed` asks about the deliveries that were accepted.

## 4. What the code does not keep

Each of these is a run that TLC finds violated, of a sentence the repository
says. The quotations are in `PROJECT.json` under `findings`.

- **A dry run can be posted** (`DryRunPosts`). `post_pending` never looks at
  `dry_run`, and a dry run is a `post_pending` row from `record_result` to
  `mark_posted`.
- **A persisted review can be computed again** (`ReviewRedone`). The claim of a
  post sets the row running; the next claim sees `running`, not `post_pending`.
- **A post can be stranded** (`PostStranded`). `run_one` puts a failed post back
  at the last attempt too, and no claim or reaper admits the row.
- **A head can be reviewed twice** (`PostedTwice`). Looking for the marker and
  posting are two calls, and a `post_pending` row is claimable while it is being
  posted.
- **A run can escape a push** (`PushDuringRequeue`). Requeued between the two
  UPDATEs of the transaction it is running for the first and queued for the
  second.

Other disagreements are exceptions that a passing property names, so that what
the code does keep can be stated beside them. Such a property says that there is
no other way to the bad outcome. It does not catch the outcome where it excepts
it, and `PROJECT.json` lists those hazards without a property, with the violated one
of the list above, or with a note of what is excepted.

- `StaleWorkIsRetired`: only a run that was put back in the queue can escape a
  push.
- `EveryRunSettles` names the stranded post, and `SettledStays` a worker that
  loses its connection under `mark_posted` and marks failed the run it has just
  settled.
- `DuplicatesWereAnswered`: calls beside a rejected submission are answered "not
  run" and count as issued, so the same call made again is told that its result
  is already in the conversation. `not_run` is that set.
- `OneReviewPerHead`: a head whose reviews are all beyond the first page is
  reviewed again.
- `ReviewsAreOfOneHead`: between `get_pr` and the fetch of the very run that made
  the review the head may leave and come back, which the comparison of the two
  cannot tell; and the notice for a large diff is posted without a clone that
  would compare.
- `RepeatedFindingsWereUnseen`: a payload that was parked repeats findings that a
  newer review has posted meanwhile, since the keys are read when it is built;
  and what is beyond the page is repeated.
- `PublishedFindingsAreVisible`: a run whose head another payload has reviewed is
  published without its own findings.
- `GroundedQuotesSource`: the corpus has the raw diff whole, so its headers are
  believed, and its lines with their marks, run on into each other as they are
  there (`tests/test_grounding.py:32-35` means the marks to be). The words of a
  refusal or of a search's header are evidence like any tool result. The empty
  line that joins two hunks lets a quote stand across them;
  `CommentsQuoteTheirLine` has this exception too.
- `ReadsAreBoundedAndComplete`: where a changed line is too long for its share,
  or the markers do not get their due, the parts are over the cap and the last
  ones are dropped without a marker (`Overflows`).
- `ImportersAreFound`, `NoReferencesMeansNone`: a relative import in a package's
  `__init__` is resolved against the package above.
- `ChangedLinesAreNamed`: a changed line of a class that has a changed method, or
  of a definition inside an `if` or a `try`, is in no symbol.

## 5. Proofs

For every number of workers, runs, pushes, deliveries, attempts and faults, from
the named assumptions of `RunStore` and `ReviewWorker` only (the bounds are
positive, no worker is NULL):

| Theorem | Property |
|---|---|
| `WorkersTyped` | `TypeOK` |
| `FenceIsEnough` | `FenceMeansNewestClaim` |
| `PublishedRunsArePosted` | `PublishedIsOnGitHub` |
| `PostedFlagsAreTrue` | `FlagsAreTrue` |
| `DegradedStaysDegraded` | `DegradationSurvives` |
| `OnlyTheNewestClaimRecords` | `ResultsComeFromTheNewestClaim` |
| `SettledRunsStaySettled` | `SettledStays` |
| `WorkersImplementRunLife` | `RunsAreJobs`, the refinement of RunLife |

None of these is inductive: that a published row has its review on GitHub
depends on what the process that publishes it knows. The invariant `IInv` says
what that is. `JobOK`: a process about to settle has a head that is reviewed,
and if it posted, a review of its payload. `HeldOK`: a process whose writes
match holds the row's newest claim, what it is delivering is what the row holds,
and the row is not settled unless the answer to `mark_posted` was lost.
`RowOK` and `RowTrue` are the rows' side, and `Contiguous` says that `NextId` is
free. `KeepStep`, `ReleaseStep`, `AdvanceStep` and `OwnRowStep` are the shapes a
step can have (it changes no result; it releases its job; it goes on; it writes
its own row), and each action is one of them. `RunStoreProofs` says what each
statement keeps of a row.

The refinement needs more (`KInv`). What a process is delivering is no newer
than the row's payload, and where it is that payload it is of that head
(`Recorded`): so a worker that lost its run can only show an older review, which
need not cover the job, or the current one, which does. A process that reviews
and owns its row finds it running with a payload of an earlier attempt, and one
that puts a post back finds a payload (`Fresh`). `NextKInv` keeps this by what a
step leaves of a row (`Left`): payloads only grow, and nobody's write touches a
row that names another worker. Then each step does to each row one of five
things (`Quiet`, `Retired`, `Inserted`, `Claimed`, `Written`), each of which is a
move of RunLife (`RowMoves`), or it posts (`PostMoves`).

Two more theorems of the same specification have a condition on the constants.
The first holds where there is no operator API
(`~Operator`): `StaleWorkStaysRetired`, for `StaleWorkIsRetired`. Its invariant
`CInv` says of every row that is older than a webhook's, and not of its head,
that it is retired or has been put back in the queue (`Spent`), and says the
same, while a delivery is being accepted, of every queued row. An operator's
row can be inserted between the two retirements of a delivery and escape both;
`CInv` is true of the other rows then too.

The second holds with one worker (`Alone`) and reviews that can be listed
(`~ReadsRefused`): `OneProcessPostsOnce`, for `OneReviewPerHead`, across any
number of deaths, lost answers and posts that fail after they reached GitHub.
The property is of the heads with a review on the page. Its invariant `OInv`
says that what the worker is about to post is not on the page: it was not when
the worker looked, and nobody else posts. And once a review is beyond the page,
so are all that follow (`PageFills`). A second worker, or a
list that is refused, breaks just that, and `PostedTwice` shows two workers
that do.

The same for any set of calls, any caps and any number of attempts, given
`2 * max_turns + 4 <= RECURSION_LIMIT` and `max_turns > 0` (25 and 80 in the
code; with `max_turns = 0` the fuse is off and nothing bounds the nodes):

| Theorem | Property |
|---|---|
| `Typed` | `TypeOK` |
| `FuseBeforeLimit` | `WithinRecursionLimit` |
| `BreachesAreEarned` | `BreachIsEarned` |
| `MarkedAsItCame` | `StatusIsHonest` |
| `BreachStopsTheLoop` | `NothingRunsAfterABreach` |
| `RepetitionsWereAnswered` | `DuplicatesWereAnswered` |

The core of that invariant counts nodes against turns: a breach-free loop takes
two nodes a turn, and what follows a breach takes four at most. That the graph
ends follows, since every node but the last adds a step.

For any runs, commits, pushes, pages and lifetimes, given a refresh margin of at
least two git commands (5 minutes and 2 in the code):

| Theorem | Property |
|---|---|
| `PublishingTyped` | `TypeOK` |
| `ReviewsKeepToOneHead` | `ReviewsAreOfOneHead` |
| `TokensOutliveTheirUse` | `TokenOutlivesItsUse` |
| `FlaggedAreVisible` | `FlaggedFindingsAreVisible` |
| `PublishedAreVisible` | `PublishedFindingsAreVisible` |
| `RepeatsWereUnseen` | `RepeatedFindingsWereUnseen` |

The invariant `PInv` is a formula over one run, the head and the reviews, and
one over pairs of reviews. It counts the moves of
the head since a run read it (`HeadOK`): a run whose diff is not of its head has
seen one move before the fetch, and a second if the head is again what it was;
the fetch lets it pass only in that case, whatever moved before the run. It says
what a payload owes to what was read (`PayloadOK`: nothing known is in it, and
every grounded finding is in it or known), what a review of the run still owes
to the payload (`OwnOK`), and why a run may close as published (`ClosedOK`).

For every checkout and every limit, given that the nodes of a file nest
(`RepositoriesAssumption`, which is what a syntax tree is):

| Theorem | Property |
|---|---|
| `MapTyped` | `TypeOK` |
| `ImportersFound` | `ImportersAreFound` |
| `NoReferencesNoMentions` | `NoReferencesMeansNone` |
| `SymbolsApart` | `SymbolsAreApart` |
| `ChangedLinesNamed` | `ChangedLinesAreNamed` |
| `TestsReported` | `TestsAreReported` |

The invariant `MInv` says what each list holds after so many files. Two lemmas
carry the rest: a list sorted by rank holds what it was made of, because the
ranks are an injection of n things into n numbers (`EveryRank`, `SortedHolds`),
and the innermost of nested spans that are reached share no line.

For every pull request, every size of a line, all caps, patterns and quotes,
given that hunks are stretches of the file that do not touch, that the raw diff
shows their lines, each once and in order, among headers and removed lines
(`DiffsAssumption`), that a quote does not end with an empty line (evidence is
stripped), that a marker fits its budget, and that the budget (160 in the code)
is 2 bytes or more:

| Theorem | Property |
|---|---|
| `Typed` | `TypeOK` |
| `QuotesHaveSources` | `GroundedQuotesSource` |
| `CommentsStandThere` | `CommentsQuoteTheirLine` |
| `ContextDropsFirst` | `ContextGoesFirst` |
| `WindowsShare` | `SharesAreFair` |
| `ReadsKeepToTheCap` | `ReadsAreBoundedAndComplete` |

The invariant `EInv` adds to the properties that each text of the evidence is a
piece of a file or words (`Sourced`), and that the result kept is what is read
of its file; what stands in a piece stands in the file (`StandsInWhole`). Every
row of the raw diff is known (`RowsAreKnown`): so each line of a quote that
stands in it is, but for its mark (`StandsInDiff`), and of one that stands in
any other text (`StandsAmong`). In the image of a diff two rows with numbers
that follow each other are two lines that follow each other (`NumbersRunOn`): if
lines were between them, the one above the second would be a row.
`FileWindowsProofs` has the rest, and is about any file: windows do not touch
(`WindowsHold`), what is picked of a window has all its changed lines in one
piece or no context (`PickInside`), the parts returned are spans of what was
kept or of the gaps (`ElideHolds`), and a window that gets less than it needs
gets an equal part of what is left, which before its turn cannot fall and after
it stays even to within one byte a window (`TurnsAreFair`). Induction over
numbers is stated of sets, which the provers can instantiate (`CountingUp`,
`AddingUp`).

`ReadsKeepToTheCap` accounts for every byte of a result. There is at most one
more gap than there are pieces kept (`GapsBetween`), and the result weighs what
the lines kept and a marker for each gap weigh, each with a newline but the last
(`ResultWeighs`). What is picked of a window is one piece a newline over its
share, or two pieces a marker's budget below it (`PickFits`), so with the marker
above each piece a window takes its share, the budget and two newlines at most.
Over all windows (`PiecesWeigh`) that is inside what `_select` holds back, two
budgets a window and two more, as soon as a budget pays for two newlines
(`RoomForAll`): that is what the assumption is for, and with a budget of one byte
two windows can go a byte over. Parts that fit are all returned (`NoneDropped`),
and together they are the file (`PartsAreAll`).

**Only model-checked:** the two liveness properties (leads-to under fairness and
ENABLED are outside the prover). Every other property a passing run checks is a
theorem, two of them under the conditions given above.

## 6. Not modelled, and what is left

Not modelled because it is formatting, I/O or a check of one value: prompts,
provider translation and cassettes, traces, `ChangeMap.render`, the CLI and the
local review, evals, webhook signatures and API tokens, the read endpoints. The
retries of one model call and `delay_for` decide no step of the models: a call
ends with a result or an error, and a backoff elapses. The schema bootstrap runs
under one advisory lock before a process does anything else, and the sweep of
checkpoints deletes threads of runs that have ended, which nothing reads. A
heartbeat already in flight when its run ends is not modelled; it can only
extend a lease of a row that is no longer running, which nothing reads either.
`coalesce_pr` has no caller in the program.

Time in `Publishing` is coarser than in the code. A request takes up to its
timeout, which urllib counts for each operation on the socket and not for the
whole. And `InstallationTokens.get` hands out a token it has just minted whatever
its life; GitHub's live an hour, and the model has none below the margin.

Twelve hazards have no property. Four for reasons outside the code: a cancel flag
that survives a requeue, and a parked post of an older head that a push leaves
alone, for which no document says what is meant; deadlocks between statements
that lock several rows, which the database breaks and the models have as lost
connections; and what a provider makes of a request with unanswered calls. The
other eight are what the code does, and section 4 lists: a call not run that is
told of its result, reviews beyond the first page, findings posted after the keys
were read, a line longer than its share, words and headers as evidence, quotes
across two hunks, imports in a package's `__init__`, and changed lines that no
symbol has.

What is left, in order of worth:

1. A larger instance of `HandOver` with two heads, once its state space is cut.
2. The retries of the model client with the deadline of the run.
