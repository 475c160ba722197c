------------------------------ MODULE RunLife -------------------------------
(***************************************************************************)
(* What a queue of reviews promises of a run, without the processes, the   *)
(* leases and the fences that make it so: a run is one job.  It is tried a *)
(* bounded number of times, one try after the other; its review is the     *)
(* review of the try that was last when it was recorded; nothing is shown  *)
(* that was not recorded first; it is delivered once there is a review to  *)
(* see; and it is not opened again.                                        *)
(*                                                                         *)
(* Several jobs may move in one step.                                      *)
(***************************************************************************)
EXTENDS Naturals

CONSTANTS
    Jobs,     \* the jobs that may ever be
    MaxTries  \* tries a job is given

VARIABLES
    life,     \* each job: its phase, its tries, and the try it has a review of
    shown,    \* each job: the tries whose reviews readers can see
    covered   \* each job: readers have a review of its head, or need none

vars == <<life, shown, covered>>

Life(phase, tries, review) ==
    [phase |-> phase, tries |-> tries, review |-> review]

Unborn == Life("none", 0, 0)

-----------------------------------------------------------------------------
In(j, phases) == life[j].phase \in phases

Accept(j) ==
    /\ life[j] = Unborn
    /\ life'[j] = Life("waiting", 0, 0)
    /\ shown'[j] = shown[j]

(* A try begins; if the one before had not ended it is taken for dead.     *)
Try(j) ==
    /\ In(j, {"waiting", "working", "due"})
    /\ life[j].tries < MaxTries
    /\ life'[j] = Life("working", life[j].tries + 1, life[j].review)
    /\ UNCHANGED <<shown[j], covered[j]>>

(* The review is that of the last try, never of one taken for dead.        *)
Record(j) ==
    /\ In(j, {"working"})
    /\ life'[j] = Life("due", life[j].tries, life[j].tries)
    /\ shown'[j] = shown[j]

(* A try is given up: the review is to be made again, or, where there is   *)
(* one, to be shown again.  A review that is due is not thrown away.       *)
PutBack(j) ==
    /\ In(j, {"working"})
    /\ \/ life'[j] = [life[j] EXCEPT !.phase = "waiting"]
       \/ life[j].review # 0 /\ life'[j] = [life[j] EXCEPT !.phase = "due"]
    /\ UNCHANGED <<shown[j], covered[j]>>

(* Anyone who has had the job may still show what was recorded for it.     *)
(* The review that was recorded last covers the job.                       *)
Show(j) ==
    /\ life'[j] = life[j]
    /\ \E review \in 1..life[j].review :
        /\ shown'[j] = shown[j] \cup {review}
        /\ review = life[j].review => covered'[j]
    /\ covered[j] => covered'[j]

Deliver(j) ==
    /\ In(j, {"working", "due"})
    /\ life[j].review # 0 /\ covered[j]
    /\ life'[j] = [life[j] EXCEPT !.phase = "delivered"]
    /\ UNCHANGED <<shown[j], covered[j]>>

(* It fails, is cancelled or is overtaken.  A delivery whose                *)
(* acknowledgement is lost can still be written down as a failure.         *)
Close(j) ==
    /\ In(j, {"waiting", "working", "due", "delivered"})
    /\ life'[j] = [life[j] EXCEPT !.phase = "closed"]
    /\ UNCHANGED <<shown[j], covered[j]>>

(* Another job shows a review of the same head.                            *)
Rest(j) ==
    /\ UNCHANGED <<life[j], shown[j]>>
    /\ covered[j] => covered'[j]

Move(j) ==
    \/ Accept(j) \/ Try(j) \/ Record(j) \/ PutBack(j) \/ Show(j)
    \/ Deliver(j) \/ Close(j) \/ Rest(j)

-----------------------------------------------------------------------------
Init ==
    /\ life = [j \in Jobs |-> Unborn]
    /\ shown = [j \in Jobs |-> {}]
    /\ covered = [j \in Jobs |-> FALSE]

Next == \A j \in Jobs : Move(j)

Spec == Init /\ [][Next]_vars
=============================================================================
