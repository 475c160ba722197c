------------------------------ MODULE Evidence ------------------------------
(***************************************************************************)
(* From the diff to a comment: what the agent may read of a pull request   *)
(* (agent/tools.py), what becomes of it evidence (execute_tools), whether  *)
(* a finding's evidence is believed (agent/grounding.py), and the line the *)
(* comment is put on (gh/anchor.py), with the readings of the diff         *)
(* (core/diff.py) all of them rest on.                                     *)
(*                                                                         *)
(* A text is a sequence of whole lines.                                    *)
(***************************************************************************)
EXTENDS FileWindows

CONSTANTS
    Line,        \* lines of code
    Blank,       \* the empty line
    Words,       \* a line a tool says of its own: a refusal, a header
    Header,      \* a row of a diff that is no line of a file: diff --git, @@
    Size,        \* bytes of each line
    MinEvidence, \* MIN_EVIDENCE
    MaxHits,     \* MAX_SEARCH_HITS
    Requests,    \* the pull requests reviewed
    RawDiff(_),  \* the diff of a pull request, as it comes from GitHub
    Patterns,    \* the patterns searched for: the lines each matches
    Quotes,      \* the evidence findings give
    MaxCalls     \* bound: calls answered

ASSUME LinesAssumption ==
    /\ Blank \in Line /\ Words \notin Line
    /\ Size \in [Line \cup {Words, Header} -> Nat]
    /\ {MinEvidence, MaxHits, MaxCalls} \subseteq Nat
    /\ Patterns \subseteq SUBSET Line

(* `text` is the file at the head; `hunks` are spans of its lines.         *)
File == [status : {"added", "modified", "deleted"}, text : Seq(Line),
         hunks : SUBSET SUBSET Nat]

Changed(file) == UNION file.hunks

(* A pull request is its changed files, in the order of the diff.  Hunks   *)
(* do not touch.                                                           *)
ASSUME RequestsAssumption ==
    \A request \in Requests :
        /\ request \in Seq(File)
        /\ \A file \in Range(request) :
              /\ \A h \in file.hunks : \E a, b \in DOMAIN file.text : a <= b /\ h = a..b
              /\ \A g, h \in file.hunks : g = h \/ \A l \in g : {l, l + 1} \cap h = {}
              /\ file.status = "deleted" => file.text = <<>>

(* A row of the raw diff: a header, or a line with a mark in front.  For   *)
(* an added or a context line, the file and the number there; else 0.      *)
MarkedWith(mark, line) == [mark |-> mark, of |-> line]

MarkedLine == [mark : {"+", " ", "-"}, of : Line]

Row == [text : MarkedLine \cup {Header}, path : Nat, line : Nat]

Shows(row, request) ==
    /\ row.path \in DOMAIN request /\ row.line \in Changed(request[row.path])
    /\ \E mark \in {"+", " "} :
          row.text = MarkedWith(mark, request[row.path].text[row.line])

(* A diff shows the lines of the hunks, each once and in order, and among  *)
(* them headers and removed lines.                                         *)
ASSUME DiffsAssumption ==
    \A request \in Requests :
        LET diff == RawDiff(request) IN
        /\ diff \in Seq(Row) /\ Header \notin MarkedLine
        /\ \A row \in Range(diff) :
              \/ Shows(row, request)
              \/ row.line = 0 /\ row.text \in {Header} \cup [mark : {"-"}, of : Line]
        /\ \A p \in DOMAIN request : \A l \in Changed(request[p]) :
              \E row \in Range(diff) : row.path = p /\ row.line = l
        /\ \A j, k \in {i \in DOMAIN diff : diff[i].line # 0} :
              j < k => \/ diff[j].path < diff[k].path
                       \/ /\ diff[j].path = diff[k].path
                          /\ diff[j].line < diff[k].line

(* A quote may have marks and headers.  It does not end with an empty      *)
(* line, nor reach over the numbers of hits.                               *)
Quotable == Line \cup {Words, Header} \cup MarkedLine

ASSUME QuotesAssumption ==
    \A quote \in Quotes :
        quote \in Seq(Quotable) /\ quote # <<>> /\ Last(quote) # Blank

VARIABLES
    pr,      \* the pull request
    corpus,  \* the texts of the tool results that count as evidence
    calls,   \* the tool calls that were answered
    result,  \* the last file read: its path and the parts returned of it
    finding  \* the finding submitted

vars == <<pr, corpus, calls, result, finding>>

Paths == DOMAIN pr
NoPath == 0
Texts == Seq(Line \cup {Words})

Unread == [path |-> NoPath, parts |-> <<>>]

Open == [quote |-> <<>>, verdict |-> "none", path |-> NoPath, line |-> 0]

-----------------------------------------------------------------------------
(* core/diff.py *)

(* Before each hunk but the first the image has an empty line, which takes *)
(* the place of the line above the hunk.                                   *)
Rows(file) ==
    Changed(file) \cup
        {l \in DOMAIN file.text : /\ l + 1 \in Firsts(Changed(file))
                                  /\ \E m \in Changed(file) : m < l}

(* Bug: lines are numbered on from the hunk before. *)
PostImageNumberedOn(file) ==
    LET row == Ordered(Rows(file))
        Number(l) == Min(Changed(file)) + Cardinality({m \in Changed(file) : m < l})
    IN [i \in DOMAIN row |->
           IF row[i] \in Changed(file)
           THEN [text |-> file.text[row[i]], line |-> Number(row[i])]
           ELSE [text |-> Blank, line |-> 0]]

(* The lines the hunks leave, with their numbers, and between two hunks an *)
(* empty line that has none.                                               *)
PostImage(file) ==
    LET row == Ordered(Rows(file))
    IN [i \in DOMAIN row |->
           IF row[i] \in Changed(file)
           THEN [text |-> file.text[row[i]], line |-> row[i]]
           ELSE [text |-> Blank, line |-> 0]]

ImageText(file) ==
    LET image == PostImage(file) IN [i \in DOMAIN image |-> image[i].text]

-----------------------------------------------------------------------------
(* The tools *)

Readable == {p \in Paths : pr[p].status # "deleted"}

Sizes(file) == [l \in DOMAIN file.text |-> Size[file.text[l]]]

Read(file) == ReadParts(Sizes(file), file.hunks)

LinesOf(file, part) ==
    [i \in 1..Cardinality(part.lines) |-> file.text[Min(part.lines) + i - 1]]

(* Bug: markers are deleted, and what stood around them is one text. *)
SegmentsJoined(file, parts) ==
    LET Join(text, part) ==
            IF part.shown THEN text \o LinesOf(file, part) ELSE text
    IN {FoldLeft(Join, <<>>, parts)}

(* evidence_segments: the texts between the markers, unless they are blank. *)
Segments(file, parts) ==
    LET shown == {part \in Range(parts) : part.shown}
    IN {text \in {LinesOf(file, part) : part \in shown} :
            Len(parts) > 1 => Range(text) # {Blank}}

Learns(texts, read) ==
    /\ finding = Open /\ calls < MaxCalls
    /\ calls' = calls + 1
    /\ corpus' = corpus \cup texts
    /\ result' = read
    /\ UNCHANGED <<pr, finding>>

ReadFile(path) ==
    /\ path \in Readable
    /\ Learns(Segments(pr[path], Read(pr[path])),
              [path |-> path, parts |-> Read(pr[path])])

(* A call is answered in words, and the answer is kept as a result is: the *)
(* path is outside the checkout or the diff, deleted, unreadable, or the   *)
(* pattern is refused, too expensive or over the deadline.                 *)
Refuse == Learns({<<Words>>}, Unread)

(* The first of the matching lines of the readable files, or of one, after *)
(* a header.  Each has its path and number in front.                       *)
Hits(paths, pattern) ==
    LET lines == UNION {{<<p, l>> : l \in DOMAIN pr[p].text} : p \in paths}
        match == {h \in lines : pr[h[1]].text[h[2]] \in pattern}
        Before(h) == {g \in match : g[1] < h[1] \/ (g[1] = h[1] /\ g[2] < h[2])}
        first == {h \in match : Cardinality(Before(h)) < MaxHits}
    IN {pr[h[1]].text[h[2]] : h \in first}

SearchCode(paths) ==
    \E pattern \in Patterns :
        Learns({<<line>> : line \in Hits(paths, pattern)} \cup {<<Words>>}, Unread)

-----------------------------------------------------------------------------
(* Grounding *)

(* A quote stands in a text from line k on if its lines are those of the   *)
(* text.  The first of several may be the end of a line and the last may   *)
(* be the beginning of one, and an empty line is both of any line.         *)
StandsAt(quote, text, k) ==
    /\ k + Len(quote) - 1 \in DOMAIN text
    /\ \A i \in DOMAIN quote :
          \/ quote[i] = text[k + i - 1]
          \/ Len(quote) > 1 /\ i \in {1, Len(quote)} /\ quote[i] = Blank

Stands(quote, text) == \E k \in DOMAIN text : StandsAt(quote, text, k)

(* strip takes the mark of a context line off, and counts the others.      *)
Stripped(line) ==
    IF line \in MarkedLine
    THEN Size[line.of] + (IF line.mark = " " THEN 0 ELSE 1) ELSE Size[line]

LongEnough(quote) ==
    LET solid == {i \in DOMAIN quote : quote[i] # Blank}
    IN /\ solid # {}
       /\ Min(solid) < Max(solid) \/ Stripped(quote[Min(solid)]) >= MinEvidence

Unmarked(line) == IF line \in MarkedLine THEN line.of ELSE line

DiffText == LET diff == RawDiff(pr) IN [i \in 1..Len(diff) |-> diff[i].text]

(* What a text is after the mark of row k, for a quote that begins there.  *)
From(text, k) == <<Unmarked(text[k])>> \o SubSeq(text, k + 1, Len(text))

(* _norm takes empty lines and the marks of context lines out.             *)
Norm(text) ==
    LET bare == [i \in DOMAIN text |->
                    IF text[i] \in MarkedLine /\ text[i].mark = " "
                    THEN text[i].of ELSE text[i]]
    IN SelectSeq(bare, LAMBDA line : line # Blank)

(* ground, _verdict.                                                       *)
Verdict(quote) ==
    LET diff == DiffText
        texts == {diff} \cup {ImageText(file) : file \in Range(pr)} \cup corpus
    IN IF ~LongEnough(quote) THEN "ungrounded"
       ELSE IF \/ \E text \in texts : Stands(quote, text)
               \/ \E k \in DOMAIN diff : StandsAt(quote, From(diff, k), 1)
            THEN "grounded"
       ELSE IF \/ \E text \in texts : Stands(Norm(quote), Norm(text))
               \/ \E k \in DOMAIN diff :
                     StandsAt(Norm(quote), Norm(From(diff, k)), 1)
            THEN "near"
       ELSE "ungrounded"

(* locate_in_diff: the first file whose hunks have the quote, whichever    *)
(* file the finding names, and its first place there that has a number.    *)
Places(file, quote) ==
    LET image == PostImage(file)
        text == ImageText(file)
    IN {k \in DOMAIN image : image[k].line # 0 /\ StandsAt(quote, text, k)}

Anchor(quote) ==
    LET found == {p \in Paths : Places(pr[p], quote) # {}}
    IN IF found = {} THEN [path |-> NoPath, line |-> 0]
       ELSE LET file == pr[Min(found)]
            IN [path |-> Min(found),
                line |-> PostImage(file)[Min(Places(file, quote))].line]

(* Bug: a quote that is only nearly there is commented on. *)
SubmitNear(quote) ==
    /\ finding = Open
    /\ LET at == Anchor(SelectSeq(quote, LAMBDA line : line # Blank))
       IN finding' = [quote |-> quote, verdict |-> Verdict(quote),
                      path |-> at.path, line |-> at.line]
    /\ UNCHANGED <<pr, corpus, calls, result>>

(* The submission, ground and build_review of one finding.                 *)
Submit(quote) ==
    /\ finding = Open
    /\ LET verdict == Verdict(quote)
           at == IF verdict = "grounded" THEN Anchor(quote)
                 ELSE [path |-> NoPath, line |-> 0]
       IN finding' = [quote |-> quote, verdict |-> verdict,
                      path |-> at.path, line |-> at.line]
    /\ UNCHANGED <<pr, corpus, calls, result>>

-----------------------------------------------------------------------------
Init ==
    /\ pr \in Requests
    /\ corpus = {} /\ calls = 0
    /\ result = Unread
    /\ finding = Open

Next ==
    \/ \E path \in Paths : ReadFile(path)
    \/ Refuse
    \/ SearchCode(Readable)
    \/ \E path \in Readable : SearchCode({path})
    \/ \E quote \in Quotes : Submit(quote)

Spec == Init /\ [][Next]_vars

-----------------------------------------------------------------------------
(* Texts are made of lines, and a finding has a place only where it is     *)
(* believed.                                                               *)
TypeOK ==
    /\ \A text \in corpus : text \in Texts
    /\ calls \in 0..MaxCalls
    /\ result.path \in {NoPath} \cup Readable
    /\ \A part \in Range(result.parts) :
          part.lines \subseteq DOMAIN pr[result.path].text
    /\ finding.quote \in Quotes \cup {<<>>}
    /\ finding.verdict \in {"none", "grounded", "near", "ungrounded"}
    /\ finding.path \in {NoPath} \cup Paths
    /\ finding.path # NoPath => finding.verdict = "grounded"

(* The quote stands across the empty line between two hunks. *)
Bridges(quote, file) ==
    LET image == PostImage(file)
        text == ImageText(file)
    IN \E k \in DOMAIN image :
        /\ StandsAt(quote, text, k)
        /\ \E i \in DOMAIN quote : image[k + i - 1].line = 0

IsRow(line) == LET diff == DiffText IN \E k \in DOMAIN diff : line = diff[k]

IsRemoved(line) == IsRow(MarkedWith("-", line))

IsKnown(line) ==
    \/ line \in {Blank, Words, Header}
    \/ \E p \in Paths : \E l \in DOMAIN pr[p].text : line = pr[p].text[l]
    \/ IsRemoved(line)

(* Each line that is quoted and believed is, its mark aside, in a changed  *)
(* file or removed by the diff, or it is a header of the diff or words of  *)
(* a tool, which are kept as results are (README.md, Grounding gate).      *)
(* The quote as a whole is one piece of a changed file, two hunks taken    *)
(* for one, a removed line, words, or rows of the diff, marks and headers  *)
(* as they are there but for the first mark (evidence_segments).           *)
GroundedQuotesSource ==
    finding.verdict = "grounded" =>
        LET quote == finding.quote IN
        /\ \A i \in DOMAIN quote : IsKnown(quote[i]) \/ IsKnown(Unmarked(quote[i]))
        /\ \/ \E p \in Paths : Stands(quote, pr[p].text) \/ Bridges(quote, pr[p])
           \/ Len(quote) = 1 /\ (quote[1] = Words \/ IsRemoved(quote[1]))
           \/ \A i \in DOMAIN quote : IsRow(quote[i]) \/ (i = 1 /\ Len(quote) > 1)

(* A comment is on a line of a hunk, which GitHub accepts, and the quote   *)
(* stands in the file from that line on, unless it takes two hunks for one *)
(* piece (README.md, Anchoring).                                           *)
CommentsQuoteTheirLine ==
    finding.path # NoPath =>
        LET file == pr[finding.path] IN
        /\ finding.line \in Changed(file)
        /\ \/ StandsAt(finding.quote, file.text, finding.line)
           \/ Bridges(finding.quote, file)

ReadSize == Sizes(pr[result.path])

ReadWindows == Windows(pr[result.path].hunks, Len(ReadSize))

IsElided ==
    /\ result.path # NoPath
    /\ ReadWindows # {}
    /\ Bytes(ReadSize, DOMAIN ReadSize) > MaxRead

(* A changed line too long for what its window is given, of which one is   *)
(* shown all the same, or so many hunks that the markers do not get their  *)
(* due (_split, _select).                                                  *)
Overflows ==
    LET ranges == pr[result.path].hunks
        sizes == WindowSizes(ReadSize, ranges)
        count == Cardinality(ReadWindows)
        share == FairShare(sizes, Room(count))
    IN \/ MarkerBudget * (2 * count + 2) > MaxRead \div 2
       \/ \E w \in ReadWindows :
             /\ sizes[w] > share[w]
             /\ \E l \in Core(ranges, w) : ReadSize[l] + 1 > share[w] - MarkerBudget

(* A read of a large file is inside the cap, and every line of the file is *)
(* in it or under a marker (_elide, "without the tail of a changed file    *)
(* silently vanishing"), but for the two cases of Overflows.               *)
ReadsAreBoundedAndComplete ==
    IsElided =>
        \/ /\ ResultBytes(ReadSize, result.parts) <= MaxRead
           /\ UNION {part.lines : part \in Range(result.parts)} = DOMAIN ReadSize
        \/ Overflows

(* In a window no context is shown while a changed line is dropped         *)
(* (_elide, "context before changed lines").                               *)
ContextGoesFirst ==
    IsElided =>
        \A w \in ReadWindows :
            LET core == Core(pr[result.path].hunks, w)
                shown == UNION {part.lines : part \in
                                    {q \in Range(result.parts) : q.shown}}
            IN ~(core \subseteq shown) => (w \ core) \cap shown = {}

(* No window has more than another that needs more, to within a byte, and  *)
(* together they have no more than there is (_fair_share, "one enormous    *)
(* window eats the whole cap").                                            *)
SharesAreFair ==
    IsElided =>
        LET sizes == WindowSizes(ReadSize, pr[result.path].hunks)
            room  == Room(Cardinality(ReadWindows))
            share == FairShare(sizes, room)
        IN /\ SumFunction(share) <= room
           /\ \A v, w \in ReadWindows :
                 share[v] < sizes[v] => share[w] <= share[v] + 1
=============================================================================
