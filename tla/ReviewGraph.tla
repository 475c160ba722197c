---------------------------- MODULE ReviewGraph ----------------------------
(***************************************************************************)
(* The agent graph of one run (agent/graph.py, agent/nodes.py,             *)
(* agent/budget.py, agent/graph_state.py): the loop of model turns and     *)
(* tool calls, the budgets that end it, and the forced submission.         *)
(*                                                                         *)
(* LangGraph runs one node at a time, and a node returns the fields it     *)
(* changes; so each node is one action, and `state` is the ReviewState.    *)
(* An attempt that raises is invoked again with a fresh state.             *)
(*                                                                         *)
(* Of the conversation the model keeps which calls were issued, which got  *)
(* their result, and which were told that they had it.  Tokens, seconds    *)
(* and tool bytes are counted in units.                                    *)
(***************************************************************************)
EXTENDS Naturals, FiniteSets

CONSTANTS
    Calls,          \* identities of tool calls: a name and its arguments
    Cap,            \* the settings max_tokens_total, max_wall_clock_s, ...
    RecursionLimit, \* LangGraph's bound on the nodes of one invocation
    MaxAttempts,    \* the setting max_attempts
    MaxCost         \* bound: units of tokens one model call may use

Work  == {"tokens", "seconds", "tool_bytes"}
Fuses == {"turns", "dead_ends"}
Dimensions == Work \cup Fuses

(* The order in which Budget.breach asks the dimensions. *)
Rank == [tokens |-> 1, seconds |-> 2, tool_bytes |-> 3,
         turns |-> 4, dead_ends |-> 5]

ASSUME CapAssumption == Cap \in [Dimensions -> Nat]
ASSUME LimitAssumption ==
    /\ RecursionLimit \in Nat
    /\ Cap.turns > 0
    /\ 2 * Cap.turns + 4 <= RecursionLimit
ASSUME AttemptsAssumption == MaxAttempts \in Nat \ {0} /\ MaxCost \in Nat

VARIABLES
    node,    \* the node to run next, "end", or "raised"
    state,   \* the ReviewState of the invocation
    steps,   \* nodes the invocation has run
    clock,   \* units of time since started_at
    attempt  \* the invocation, of those the worker makes for the run

vars == <<node, state, steps, clock, attempt>>

Asking  == {"agent_step", "forced_submit"}
Running == Asking \cup {"assemble_context", "execute_tools", "degrade", "ground"}
Nodes   == Running \cup {"end", "raised"}

(* What the last assistant message holds: its tool calls, and whether a    *)
(* submit_findings block is among them and validates.                      *)
Turns  == [calls : SUBSET Calls, submit : {"none", "valid", "invalid"}]
NoTurn == [calls |-> {}, submit |-> "none"]

(* `issued` are the calls of earlier assistant messages, `answered` those  *)
(* whose result is in the conversation, `told` those answered with the     *)
(* note that it is, `not_run` those answered with the note that they were  *)
(* not run.  `corpus` is the size of the evidence beside the diff, and     *)
(* `tool_bytes` the count kept of it.  `forced` says that the trace shows  *)
(* the forced call.                                                        *)
ReviewState ==
    [iterations : Nat, tokens : Nat, tool_bytes : Nat, corpus : Nat,
     streak : Nat, breach : Dimensions \cup {"none"},
     completed : BOOLEAN, forced : BOOLEAN, submit_failed : BOOLEAN,
     status : {"running", "degraded"}, turn : Turns,
     issued : SUBSET Calls, answered : SUBSET Calls, told : SUBSET Calls,
     not_run : SUBSET Calls]

(* Bug: fresh_state leaves out tool_bytes, so the count of the attempt     *)
(* that failed survives in the checkpoint.                                 *)
FreshStateInheritsBytes(left) ==
    [iterations |-> 0, tokens |-> 0, tool_bytes |-> left.tool_bytes,
     corpus |-> 0, streak |-> 0, breach |-> "none", completed |-> FALSE,
     forced |-> FALSE, submit_failed |-> FALSE, status |-> "running",
     turn |-> NoTurn, issued |-> {}, answered |-> {}, told |-> {},
     not_run |-> {}]

(* The invocation starts from the checkpoint of the run's thread, overlaid *)
(* by fresh_state.  That names every field, so nothing of `left` stays.    *)
FreshState(left) ==
    [iterations |-> 0, tokens |-> 0, tool_bytes |-> 0, corpus |-> 0,
     streak |-> 0, breach |-> "none", completed |-> FALSE,
     forced |-> FALSE, submit_failed |-> FALSE, status |-> "running",
     turn |-> NoTurn, issued |-> {}, answered |-> {}, told |-> {},
     not_run |-> {}]

-----------------------------------------------------------------------------
(* Budgets *)

Used(s, now) == [tokens |-> s.tokens, seconds |-> now,
                 tool_bytes |-> s.tool_bytes, turns |-> s.iterations,
                 dead_ends |-> s.streak]

(* Bug: a dimension is spent only beyond its cap. *)
SpentBeyond(used, cap) == cap > 0 /\ used > cap

(* A cap of 0 switches its dimension off. *)
Spent(used, cap) == cap > 0 /\ used >= cap

(* Budget.breach: the first dimension that is gone. *)
Breach(s, now) ==
    LET gone == {d \in Dimensions : Spent(Used(s, now)[d], Cap[d])}
    IN IF gone = {} THEN "none"
       ELSE CHOOSE d \in gone : \A e \in gone : Rank[d] <= Rank[e]

(* A node returns the budget_breach it finds, and leaves it when there is  *)
(* none.                                                                   *)
Weigh(s) ==
    IF Breach(s, clock) = "none" THEN s
    ELSE [s EXCEPT !.breach = Breach(s, clock)]

-----------------------------------------------------------------------------
(* Routing *)

(* Bug: calls the model asked for are run before its budget is looked at. *)
AfterAgentToolsFirst(s) ==
    IF s.turn.submit # "none" \/ s.turn.calls # {} THEN "execute_tools"
    ELSE "forced_submit"

AfterAgent(s) ==
    IF s.turn.submit # "none" \/ (s.breach = "none" /\ s.turn.calls # {})
    THEN "execute_tools"
    ELSE "forced_submit"

AfterTools(s) ==
    IF s.completed THEN "ground"
    ELSE IF s.breach # "none" THEN "forced_submit"
    ELSE "agent_step"

(* Bug: a forced submission that failed is not looked at. *)
AfterForcedBreachOnly(s) == IF s.breach # "none" THEN "degrade" ELSE "ground"

AfterForced(s) ==
    IF s.breach # "none" \/ s.submit_failed THEN "degrade" ELSE "ground"

-----------------------------------------------------------------------------
(* The nodes *)

(* Node n runs: it leaves the state s and the graph goes on at `next`.     *)
Run(n, s, next) ==
    /\ node = n
    /\ state' = s
    /\ node' = next
    /\ steps' = steps + 1
    /\ UNCHANGED <<clock, attempt>>

AssembleContext ==
    Run("assemble_context",
        [state EXCEPT !.iterations = 0, !.tokens = 0, !.streak = 0,
                      !.completed = FALSE, !.submit_failed = FALSE,
                      !.turn = NoTurn, !.issued = {}, !.answered = {},
                      !.told = {}, !.not_run = {}],
        "agent_step")

(* One model call.  Every dimension is weighed against what it used. *)
AgentStep ==
    \E turn \in Turns, cost \in 0..MaxCost :
        LET s == Weigh([state EXCEPT !.iterations = @ + 1,
                                     !.tokens = @ + cost, !.turn = turn])
        IN Run("agent_step", s, AfterAgent(s))

(* The calls of the turn.  One issued before is answered with a note, the  *)
(* others run.  Beside a submission nothing runs.                          *)
Dispatched == IF state.turn.submit = "none" THEN state.turn.calls ELSE {}
Repeated == Dispatched \cap state.issued

(* Bug: the turn ends at a call that was issued before. *)
NewWithoutRepeats == IF Repeated = {} THEN Dispatched ELSE {}

New == Dispatched \ state.issued

ExecuteTools ==
    \E useful \in SUBSET New, bytes \in 0..Cardinality(New) :
        LET accepted == state.turn.submit = "valid"
            worked == [state EXCEPT
                !.corpus = @ + bytes,
                !.tool_bytes = state.corpus + bytes,
                !.streak = IF useful = {} THEN @ + 1 ELSE 0,
                !.completed = @ \/ accepted,
                !.issued = @ \cup state.turn.calls,
                !.answered = @ \cup New,
                !.told = @ \cup Repeated,
                !.not_run = @ \cup (state.turn.calls \ Dispatched)]
            s == IF accepted THEN worked ELSE Weigh(worked)
        IN Run("execute_tools", s, AfterTools(s))

(* The one constrained call.  What it costs is counted, not weighed. *)
ForcedSubmit ==
    \E cost \in 0..MaxCost, answer \in {"none", "valid", "invalid"} :
        LET s == [state EXCEPT
                    !.iterations = @ + 1, !.tokens = @ + cost,
                    !.forced = TRUE,
                    !.turn = [calls |-> {}, submit |-> answer],
                    !.issued = @ \cup state.turn.calls,
                    !.completed = @ \/ answer = "valid",
                    !.submit_failed = answer # "valid"]
        IN Run("forced_submit", s, AfterForced(s))

Degrade == Run("degrade", [state EXCEPT !.status = "degraded"], "ground")

Ground == Run("ground", state, "end")

(* A model call fails, check_cancel raises, or the process dies. *)
Raise ==
    /\ node \in Running
    /\ node' = "raised"
    /\ UNCHANGED <<state, steps, clock, attempt>>

(* Bug: a run is tried again however often it was tried. *)
InvokeAlways ==
    /\ node = "raised"
    /\ node' = "assemble_context"
    /\ state' = FreshState(state)
    /\ steps' = 0
    /\ clock' = 0
    /\ attempt' = attempt + 1

(* The worker claims the run again, and its thread with it. *)
Invoke ==
    /\ node = "raised" /\ attempt < MaxAttempts
    /\ node' = "assemble_context"
    /\ state' = FreshState(state)
    /\ steps' = 0
    /\ clock' = 0
    /\ attempt' = attempt + 1

(* Time matters until it is spent. *)
Tick ==
    /\ node \in Running /\ clock < Cap.seconds
    /\ clock' = clock + 1
    /\ UNCHANGED <<node, state, steps, attempt>>

Init ==
    /\ node = "assemble_context"
    /\ state = [iterations |-> 0, tokens |-> 0, tool_bytes |-> 0,
                corpus |-> 0, streak |-> 0, breach |-> "none",
                completed |-> FALSE, forced |-> FALSE,
                submit_failed |-> FALSE, status |-> "running",
                turn |-> NoTurn, issued |-> {}, answered |-> {}, told |-> {},
                not_run |-> {}]
    /\ steps = 0
    /\ clock = 0
    /\ attempt = 1

Next ==
    \/ AssembleContext \/ AgentStep \/ ExecuteTools \/ ForcedSubmit
    \/ Degrade \/ Ground \/ Raise \/ Invoke \/ Tick

Spec == Init /\ [][Next]_vars

-----------------------------------------------------------------------------
(* Every field stays in its domain (ReviewState, agent/graph_state.py).    *)
TypeOK ==
    /\ node \in Nodes
    /\ state \in ReviewState
    /\ steps \in Nat
    /\ clock \in 0..Cap.seconds
    /\ attempt \in 1..MaxAttempts

(* The fuse ends the loop before LangGraph does: an invocation that has    *)
(* run RecursionLimit nodes and is not at its end raises, and its review   *)
(* is lost (`max_turns` of config.py against RECURSION_LIMIT of graph.py). *)
WithinRecursionLimit == node \in Running => steps < RecursionLimit

(* What this attempt has used of each dimension. *)
OwnUse == [tokens |-> state.tokens, seconds |-> clock,
           tool_bytes |-> state.corpus, turns |-> state.iterations,
           dead_ends |-> state.streak]

(* What an attempt is degraded for, it has itself spent: no count of an    *)
(* earlier attempt, and no evidence it has not got, tells against it       *)
(* (`fresh_state`, `Budget.breach`).                                       *)
BreachIsEarned ==
    state.breach # "none" => /\ Cap[state.breach] > 0
                             /\ OwnUse[state.breach] >= Cap[state.breach]

(* A review that ends is marked degraded exactly when nothing valid was    *)
(* submitted, or when it was the budget that forced the submission: a      *)
(* cut-short review is never passed off as whole, and one the model        *)
(* submitted in time is not marked (`after_agent`, `after_forced`).        *)
StatusIsHonest ==
    node = "end" =>
        (state.status = "degraded"
            <=> ~state.completed \/ (state.forced /\ state.breach # "none"))

(* No tool runs for a turn that comes after a breach, and no breached      *)
(* review asks the model for another turn (`after_agent`, `after_tools`).  *)
NothingRunsAfterABreach ==
    [][state.breach # "none" /\ attempt' = attempt
        => state'.answered = state.answered /\ node' # "agent_step"]_vars

(* A call answered with "its result is earlier in this conversation" has   *)
(* its result there (`_prior_tool_sigs`).  The exception: a call beside a  *)
(* submission that was rejected is answered there that it was not run, and *)
(* asked for again, it is taken for a repetition.                          *)
DuplicatesWereAnswered ==
    state.told \subseteq state.answered \cup state.not_run
=============================================================================
