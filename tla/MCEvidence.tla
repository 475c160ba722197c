----------------------------- MODULE MCEvidence -----------------------------
(***************************************************************************)
(* Instances of Evidence for TLC: a file of five lines with at most two    *)
(* hunks, at its ends, a small file that is added, and a deleted one.      *)
(* Some of the files are over the cap.                                     *)
(***************************************************************************)
EXTENDS Evidence

CONSTANTS short, long, gone, blank, words, header

Code == {short, long, gone, blank}

SizeOf == short :> 7 @@ long :> 33 @@ gone :> 8 @@ blank :> 0 @@ words :> 8 @@
          header :> 8

ChangedFile(status, text, hunks) ==
    [status |-> status, text |-> text, hunks |-> hunks]

Length == 5

Stretches == {a..b : a, b \in 1..Length} \ {{}}

(* No hunk, one at an end of the file, or one at each.  Alone at the       *)
(* bottom it has one or two lines.                                         *)
HunkSets ==
    {{}} \cup {{g, h} : g \in {s \in Stretches : 1 \in s},
              h \in {s \in Stretches : Length \in s}}
    \cup {{h} : h \in {s \in Stretches : 1 \in s}}
    \cup {{Length..Length}, {(Length - 1)..Length}}

Apart(hunks) ==
    \A g, h \in hunks : g # h => Max(g) + 1 < Min(h) \/ Max(h) + 1 < Min(g)

(* At most one line is empty, and neither of the last two. *)
FileTexts ==
    {text \in [1..Length -> {short, long, blank}] :
        /\ blank \notin {text[Length - 1], text[Length]}
        /\ \A i, j \in 1..Length : text[i] = blank /\ text[j] = blank => i = j}

Files ==
    {ChangedFile("modified", text, hunks) :
        text \in FileTexts,
        hunks \in {hs \in HunkSets : Apart(hs)}}

PullRequests ==
    {<<ChangedFile("added", <<long, short>>, {1..2}), file,
       ChangedFile("deleted", <<>>, {})>> : file \in Files}

DiffRow(text, path, line) == [text |-> text, path |-> path, line |-> line]

(* A hunk: its header, a line that is removed, the lines it adds, and the  *)
(* last for context.                                                       *)
HunkRows(text, p, hunk) ==
    LET first == Min(hunk)
        Sign(l) == IF l = Max(hunk) /\ l # first THEN " " ELSE "+"
    IN <<DiffRow(header, p, 0), DiffRow(MarkedWith("-", gone), p, 0)>>
       \o [i \in 1..Cardinality(hunk) |->
              LET l == first + i - 1 IN DiffRow(MarkedWith(Sign(l), text[l]), p, l)]

FileRows(file, p) ==
    LET ordered == SetToSortSeq(file.hunks, LAMBDA g, h : Min(g) < Min(h))
    IN <<DiffRow(header, p, 0)>>
       \o FlattenSeq([i \in DOMAIN ordered |-> HunkRows(file.text, p, ordered[i])])
       \o IF file.status = "deleted"
          THEN <<DiffRow(header, p, 0), DiffRow(MarkedWith("-", gone), p, 0)>> ELSE <<>>

DiffOf(request) == FlattenSeq([p \in DOMAIN request |-> FileRows(request[p], p)])

Searches == {{short, long}}

(* With their marks an added line that is short is long enough, and the    *)
(* end of one file's diff runs into the header of the next.                *)
Evidences ==
    {<<short>>, <<gone>>, <<words>>, <<long, short>>,
     <<short, blank, long>>, <<blank, short, short>>,
     <<MarkedWith("+", short)>>, <<gone, MarkedWith("+", short), MarkedWith(" ", long)>>,
     <<MarkedWith(" ", short), header>>}
=============================================================================
