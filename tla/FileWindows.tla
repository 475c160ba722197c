----------------------------- MODULE FileWindows ----------------------------
(***************************************************************************)
(* What read_file returns of a file (agent/tools.py): the file, or, where  *)
(* it is over the byte cap, windows around the hunks of the diff, cut to   *)
(* fit the cap, with a marker for each gap.                                *)
(*                                                                         *)
(* A file is the sequence of the sizes of its lines.  A span of lines is   *)
(* the set of their numbers, and `ranges` is the set of the spans the diff *)
(* has hunks of.                                                           *)
(***************************************************************************)
EXTENDS Integers, SequencesExt

CONSTANTS
    Context,      \* HUNK_CONTEXT_LINES
    MaxRead,      \* MAX_READ_BYTES
    MarkerBudget, \* MARKER_BUDGET: bytes held back for a marker
    Marker        \* bytes a marker takes

ASSUME SizesAssumption ==
    /\ {Context, MaxRead, MarkerBudget, Marker} \subseteq Nat
    /\ Marker <= MarkerBudget
    /\ MarkerBudget >= 2

Smaller(m, n) == IF m < n THEN m ELSE n

(* Numbers from the least to the greatest. *)
Ordered(numbers) ==
    [i \in 1..Cardinality(numbers) |->
        CHOOSE n \in numbers : Cardinality({m \in numbers : m < n}) = i - 1]

(* A line begins a span if the one above is not in it, and the span goes   *)
(* on while lines follow.                                                  *)
Firsts(lines) == {l \in lines : l - 1 \notin lines}

SpanAt(lines, first) == {l \in lines : first <= l /\ first..l \subseteq lines}

(* The spans a set of lines is made of. *)
Spans(lines) == {SpanAt(lines, first) : first \in Firsts(lines)}

Total(size, lines) == SumFunctionOnSet(size, lines)

(* Bytes of a span, joined by newlines: _nbytes. *)
Bytes(size, span) ==
    IF span = {} THEN 0 ELSE Total(size, span) + Cardinality(span) - 1

(* What a loop has after n steps. *)
Iterate(step, start, n) ==
    LET after[i \in 0..n] == IF i = 0 THEN start ELSE step[after[i - 1]]
    IN after[n]

-----------------------------------------------------------------------------
(* Hunks widened by context and merged where they meet; a hunk past the    *)
(* end of the file is dropped.                                             *)
Windows(ranges, total) ==
    LET wide == {(Min(r) - Context)..(Max(r) + Context) :
                    r \in {s \in ranges : Min(s) <= total}}
    IN Spans((UNION wide) \cap 1..total)

(* From the first to the last line of a window that a hunk has.            *)
Core(ranges, window) ==
    LET inside == UNION {r \in ranges : r \cap window # {}}
    IN (Min(inside)..Max(inside)) \cap window

(* Bug: the windows are served in the order of the file. *)
FairShareInOrder(sizes, budget) ==
    LET windows == DOMAIN sizes
        At(w) == Cardinality({v \in windows : Min(v) <= Min(w)})
        left[p \in 0..Cardinality(windows)] ==
            IF p = 0 THEN budget
            ELSE LET room == left[p - 1]
                 IN room - Smaller(sizes[CHOOSE w \in windows : At(w) = p], room)
    IN [w \in windows |-> left[At(w) - 1] - left[At(w)]]

(* The place of a window where the smaller are first, and of two of a size *)
(* the first in the file.                                                  *)
Place(sizes, w) ==
    1 + Cardinality({v \in DOMAIN sizes :
            sizes[v] < sizes[w] \/ (sizes[v] = sizes[w] /\ Min(v) < Min(w))})

(* Each window in its turn gets what it needs, up to an equal part of what *)
(* is left.                                                                *)
FairShare(sizes, budget) ==
    LET windows == DOMAIN sizes
        n == Cardinality(windows)
        left[p \in 0..n] ==
            IF p = 0 THEN budget
            ELSE LET w == CHOOSE w \in windows : Place(sizes, w) = p
                     room == left[p - 1]
                 IN room - Smaller(sizes[w], room \div (n - p + 1))
    IN [w \in windows |-> left[Place(sizes, w) - 1] - left[Place(sizes, w)]]

(* Both ends of a span that does not fit, the shorter end first; at least  *)
(* its first line.                                                         *)
Split(size, span, budget) ==
    LET room == IF budget > MarkerBudget THEN budget - MarkerBudget ELSE 0
        Cost(lines) == Total(size, lines) + Cardinality(lines)
        Step(kept, rest) ==
            LET head == {l \in kept : \A m \in rest : l < m}
                Fits(line) == Cost(kept \cup {line}) <= room
            IN IF rest = {} THEN kept
               ELSE IF Cost(head) <= Cost(kept \ head) /\ Fits(Min(rest))
               THEN kept \cup {Min(rest)}
               ELSE IF Fits(Max(rest)) THEN kept \cup {Max(rest)}
               ELSE kept
        ends == Iterate([kept \in SUBSET span |-> Step(kept, span \ kept)],
                        {}, Cardinality(span))
    IN IF ends = {} THEN {Min(span)} ELSE ends

(* Bug: a window is cut from its top. *)
PickFromTop(size, window, core, budget) ==
    LET tops == {(Min(window))..l : l \in window}
        fit  == {t \in tops : Bytes(size, t) <= budget}
    IN IF fit = {} THEN {Min(window)}
       ELSE CHOOSE t \in fit : \A s \in fit : s \subseteq t

(* The lines of a window that fit its share: all; or the core and as much  *)
(* context as fits, grown a line at a time; or the ends of the core.       *)
Pick(size, window, core, budget) ==
    LET Fits(lines) == Bytes(size, lines) <= budget
        With(kept, line) ==
            IF line \in window /\ Fits(kept \cup {line})
            THEN kept \cup {line} ELSE kept
        Grow(kept) == With(With(kept, Min(kept) - 1), Max(kept) + 1)
    IN IF Fits(window) THEN window
       ELSE IF ~Fits(core) THEN Split(size, core, budget)
       ELSE Iterate([kept \in SUBSET window |-> Grow(kept)], core, Cardinality(window))

WindowSizes(size, ranges) ==
    [w \in Windows(ranges, Len(size)) |-> Bytes(size, w)]

(* Bug: markers are not allowed for. *)
RoomForLines(windows) == MaxRead

(* What the cap leaves when markers are allowed for. *)
Room(windows) ==
    MaxRead - Smaller(MarkerBudget * (2 * windows + 2), MaxRead \div 2)

Select(size, ranges) ==
    LET windows == Windows(ranges, Len(size))
        share == FairShare(WindowSizes(size, ranges), Room(Cardinality(windows)))
    IN UNION {Pick(size, w, Core(ranges, w), share[w]) : w \in windows}

-----------------------------------------------------------------------------
(* A result is its parts in order: lines as they are, or a marker that     *)
(* names them.                                                             *)
Part(lines, shown) == [lines |-> lines, shown |-> shown]

PartBytes(size, part) == IF part.shown THEN Bytes(size, part.lines) ELSE Marker

ResultBytes(size, parts) ==
    SumFunction([i \in DOMAIN parts |-> PartBytes(size, parts[i])])
        + Len(parts) - 1

(* While the parts together are over the cap the last is dropped.          *)
Elide(size, ranges) ==
    LET kept  == Select(size, ranges)
        gaps  == DOMAIN size \ kept
        first == Ordered(Firsts(kept) \cup Firsts(gaps))
        parts == [i \in DOMAIN first |->
                     IF first[i] \in kept THEN Part(SpanAt(kept, first[i]), TRUE)
                     ELSE Part(SpanAt(gaps, first[i]), FALSE)]
        fit   == {n \in DOMAIN parts :
                     ResultBytes(size, SubSeq(parts, 1, n)) <= MaxRead}
    IN SubSeq(parts, 1, Max({1} \cup fit))

(* The lines from the top that fit, at least one.                          *)
Truncate(size) ==
    LET fit == {n \in DOMAIN size : Total(size, 1..n) + n <= MaxRead}
        top == Max({1} \cup fit)
    IN <<Part(1..top, TRUE), Part((top + 1)..Len(size), FALSE)>>

Whole(size) == <<Part(DOMAIN size, TRUE)>>

ReadParts(size, ranges) ==
    IF Bytes(size, DOMAIN size) <= MaxRead THEN Whole(size)
    ELSE IF Windows(ranges, Len(size)) = {} THEN Truncate(size)
    ELSE Elide(size, ranges)
=============================================================================
