------------------------- MODULE ReviewGraphProofs -------------------------
(***************************************************************************)
(* What the agent graph keeps for every budget, every set of calls and any *)
(* number of attempts.                                                     *)
(***************************************************************************)
EXTENDS ReviewGraph, TLAPS

(* The operators at the step: Weigh changes the breach alone, to one that  *)
(* is spent, and it leaves no exhausted turn fuse unnoticed.               *)
LEMMA BreachIsSpent ==
    ASSUME NEW s \in ReviewState, NEW now \in Nat
    PROVE  /\ Breach(s, now) \in Dimensions \cup {"none"}
           /\ Breach(s, now) # "none" =>
                /\ Cap[Breach(s, now)] > 0
                /\ Used(s, now)[Breach(s, now)] >= Cap[Breach(s, now)]
           /\ Breach(s, now) = "none" =>
                \A d \in Dimensions : ~Spent(Used(s, now)[d], Cap[d])
<1> DEFINE gone == {d \in Dimensions : Spent(Used(s, now)[d], Cap[d])}
<1>1. CASE gone = {}
  <2>1. Breach(s, now) = "none"
    BY <1>1 DEF Breach
  <2> QED BY <1>1, <2>1
<1>2. CASE gone # {}
  <2>1. \E d \in gone : \A e \in gone : Rank[d] <= Rank[e]
    BY <1>2 DEF Rank, Dimensions, Work, Fuses
  <2>2. Breach(s, now) = CHOOSE d \in gone : \A e \in gone : Rank[d] <= Rank[e]
    BY <1>2 DEF Breach
  <2>3. Breach(s, now) \in gone
    BY <2>1, <2>2
  <2>4. "none" \notin Dimensions
    BY DEF Dimensions, Work, Fuses
  <2> QED BY <2>3, <2>4 DEF Spent
<1> QED BY <1>1, <1>2

-----------------------------------------------------------------------------
(* The fuse counts turns, and a turn is two nodes: what the nodes run so   *)
(* far owe to the turns so far, at each node. *)
StepsAreTurns ==
    /\ node = "assemble_context" => steps = 0
    /\ node = "agent_step" =>
        steps <= 2 * state.iterations + 1 /\ state.iterations < Cap.turns
    /\ node = "execute_tools" =>
        steps <= 2 * state.iterations /\ state.iterations <= Cap.turns
    /\ node = "forced_submit" =>
        steps <= 2 * state.iterations + 1 /\ state.iterations <= Cap.turns
    /\ node = "degrade" =>
        steps <= 2 * state.iterations /\ state.iterations <= Cap.turns + 1
    /\ node = "ground" => steps <= 2 * Cap.turns + 3

(* The count of tool bytes is that of the evidence of this attempt, and an *)
(* attempt that still asks for turns has no breach; one that runs tools    *)
(* after a breach has a submission to answer. *)
BreachIsLate ==
    /\ state.tool_bytes = state.corpus
    /\ node \in {"assemble_context", "agent_step"} => state.breach = "none"
    /\ node = "execute_tools" /\ state.breach # "none"
        => state.turn.submit # "none"

(* How a review came to where it is. *)
Course ==
    /\ node \in {"assemble_context", "agent_step", "execute_tools",
                 "forced_submit"}
        => /\ ~state.completed /\ ~state.forced /\ ~state.submit_failed
           /\ state.status = "running"
    /\ node = "degrade" =>
        /\ state.forced
        /\ state.completed <=> ~state.submit_failed
        /\ state.breach # "none" \/ state.submit_failed
    /\ node \in {"ground", "end"} =>
        (state.status = "degraded"
            <=> ~state.completed \/ (state.forced /\ state.breach # "none"))

IInv == TypeOK /\ StepsAreTurns /\ BreachIsLate /\ BreachIsEarned /\ Course

LEMMA InitIInv == Init => IInv
<1> SUFFICES ASSUME Init PROVE IInv
  OBVIOUS
<1> USE CapAssumption, AttemptsAssumption
<1>1. NoTurn \in Turns
  BY DEF NoTurn, Turns
<1>2. state \in ReviewState
  BY <1>1 DEF Init, ReviewState
<1>3. TypeOK
  BY <1>2 DEF Init, TypeOK, Nodes, Running, Asking, Dimensions, Work
<1> QED BY <1>3 DEF Init, IInv, StepsAreTurns, BreachIsLate, BreachIsEarned, Course

-----------------------------------------------------------------------------
(* Weighing touches the breach alone.  It leaves none only if no dimension *)
(* is spent, and one it finds is spent. *)
LEMMA WeighBreach ==
    ASSUME NEW s \in ReviewState, clock \in Nat
    PROVE  /\ Weigh(s) \in ReviewState
           /\ Weigh(s) = [s EXCEPT !.breach = Weigh(s).breach]
           /\ Weigh(s).breach # s.breach =>
                /\ Weigh(s).breach # "none"
                /\ Cap[Weigh(s).breach] > 0
                /\ Used(s, clock)[Weigh(s).breach] >= Cap[Weigh(s).breach]
           /\ Weigh(s).breach = "none" => s.iterations < Cap.turns
<1> DEFINE b == Breach(s, clock)
<1>1. /\ b \in Dimensions \cup {"none"}
      /\ b # "none" => Cap[b] > 0 /\ Used(s, clock)[b] >= Cap[b]
      /\ b = "none" => \A d \in Dimensions : ~Spent(Used(s, clock)[d], Cap[d])
  BY BreachIsSpent
<1>2. b = "none" => s.iterations < Cap.turns
  <2> SUFFICES ASSUME b = "none" PROVE s.iterations < Cap.turns
    OBVIOUS
  <2>1. "turns" \in Dimensions
    BY DEF Dimensions, Fuses
  <2>2. ~Spent(Used(s, clock)["turns"], Cap["turns"])
    BY <1>1, <2>1
  <2>3. Used(s, clock)["turns"] = s.iterations
    BY DEF Used
  <2> QED BY <2>1, <2>2, <2>3, CapAssumption, LimitAssumption DEF Spent, ReviewState
<1> HIDE DEF b
<1>3. CASE b = "none"
  <2>1. Weigh(s) = s
    BY <1>3 DEF Weigh, b
  <2>2. s = [s EXCEPT !.breach = s.breach]
    BY DEF ReviewState
  <2> QED BY <1>2, <1>3, <2>1, <2>2
<1>4. CASE b # "none"
  <2>1. Weigh(s) = [s EXCEPT !.breach = b]
    BY <1>4 DEF Weigh, b
  <2>2. Weigh(s).breach = b /\ Weigh(s) \in ReviewState
    BY <1>1, <2>1 DEF ReviewState
  <2> QED BY <1>1, <1>4, <2>1, <2>2
<1> QED BY <1>3, <1>4

LEMMA AgentStepIInv == IInv /\ AgentStep => IInv'
<1> SUFFICES ASSUME IInv, AgentStep PROVE IInv'
  OBVIOUS
<1> USE DEF IInv
<1>1. PICK turn \in Turns, cost \in 0..MaxCost :
        LET s == Weigh([state EXCEPT !.iterations = @ + 1,
                                     !.tokens = @ + cost, !.turn = turn])
        IN Run("agent_step", s, AfterAgent(s))
  BY DEF AgentStep
<1> DEFINE asked == [state EXCEPT !.iterations = @ + 1,
                                  !.tokens = @ + cost, !.turn = turn]
<1>2. /\ node = "agent_step" /\ state' = Weigh(asked)
      /\ node' = AfterAgent(state') /\ steps' = steps + 1
      /\ clock' = clock /\ attempt' = attempt
  BY <1>1 DEF Run
<1>3. asked \in ReviewState
  <2>1. state \in ReviewState
    BY DEF TypeOK
  <2>2. state.iterations + 1 \in Nat /\ state.tokens + cost \in Nat
    BY <2>1, AttemptsAssumption DEF ReviewState
  <2> QED BY <2>1, <2>2 DEF ReviewState
<1>4. /\ asked.iterations = state.iterations + 1 /\ asked.turn = turn
      /\ asked.breach = "none" /\ asked.corpus = state.corpus
      /\ asked.tool_bytes = state.tool_bytes
      /\ asked.streak = state.streak
      /\ asked.completed = state.completed /\ asked.forced = state.forced
      /\ asked.submit_failed = state.submit_failed
      /\ asked.status = state.status
  BY <1>2 DEF TypeOK, ReviewState, BreachIsLate
<1> HIDE DEF asked
<1>5. /\ state' \in ReviewState
      /\ state' = [asked EXCEPT !.breach = state'.breach]
      /\ state'.breach # "none" =>
            /\ Cap[state'.breach] > 0
            /\ Used(asked, clock)[state'.breach] >= Cap[state'.breach]
      /\ state'.breach = "none" => asked.iterations < Cap.turns
  BY <1>2, <1>3, <1>4, WeighBreach DEF TypeOK
<1>6. /\ state'.iterations = state.iterations + 1
      /\ state'.tokens = asked.tokens /\ state'.corpus = state.corpus
      /\ state'.tool_bytes = state.tool_bytes
      /\ state'.streak = state.streak
      /\ state'.completed = state.completed /\ state'.forced = state.forced
      /\ state'.submit_failed = state.submit_failed
      /\ state'.status = state.status
  BY <1>3, <1>4, <1>5 DEF ReviewState
<1>7. node' \in {"execute_tools", "forced_submit"}
  BY <1>2 DEF AfterAgent
<1>8. TypeOK'
  BY <1>2, <1>5, <1>7 DEF TypeOK, Nodes, Running, Asking
<1>9. StepsAreTurns'
  BY <1>2, <1>6, <1>7, CapAssumption
  DEF StepsAreTurns, TypeOK, ReviewState, Dimensions, Fuses
<1>10. BreachIsLate'
  <2>1. node' = "execute_tools" /\ state'.breach # "none"
            => state'.turn.submit # "none"
    BY <1>2 DEF AfterAgent
  <2> QED BY <1>6, <1>7, <2>1 DEF BreachIsLate
<1>11. BreachIsEarned'
  BY <1>2, <1>4, <1>5, <1>6 DEF BreachIsEarned, BreachIsLate, OwnUse, Used,
     ReviewState, Dimensions, Work, Fuses
<1>12. Course'
  BY <1>2, <1>6, <1>7 DEF Course
<1> QED BY <1>8, <1>9, <1>10, <1>11, <1>12

(* What a turn of tool calls leaves: `useful` is what taught the model     *)
(* something, `bytes` what its results add to the evidence. *)
LEMMA ExecuteToolsEffect ==
    ASSUME TypeOK, ExecuteTools
    PROVE  \E useful \in SUBSET New, bytes \in Nat :
            /\ node = "execute_tools"
            /\ node' = AfterTools(state') /\ steps' = steps + 1
            /\ clock' = clock /\ attempt' = attempt
            /\ state' \in ReviewState
            /\ state'.iterations = state.iterations
            /\ state'.tokens = state.tokens
            /\ state'.corpus = state.corpus + bytes
            /\ state'.tool_bytes = state'.corpus
            /\ state'.streak = IF useful = {} THEN state.streak + 1 ELSE 0
            /\ state'.completed
                = (state.completed \/ state.turn.submit = "valid")
            /\ state'.forced = state.forced
            /\ state'.submit_failed = state.submit_failed
            /\ state'.status = state.status
            /\ state'.answered = state.answered \cup New
            /\ state'.breach # state.breach =>
                /\ state'.breach # "none"
                /\ Cap[state'.breach] > 0
                /\ OwnUse'[state'.breach] >= Cap[state'.breach]
            /\ state.turn.submit # "valid" /\ state'.breach = "none"
                => state'.iterations < Cap.turns
<1>1. PICK useful \in SUBSET New, bytes \in 0..Cardinality(New) :
        LET accepted == state.turn.submit = "valid"
            worked == [state EXCEPT
                !.corpus = @ + bytes,
                !.tool_bytes = state.corpus + bytes,
                !.streak = IF useful = {} THEN @ + 1 ELSE 0,
                !.completed = @ \/ accepted,
                !.issued = @ \cup state.turn.calls,
                !.answered = @ \cup New,
                !.told = @ \cup Repeated,
                !.not_run = @ \cup (state.turn.calls \ Dispatched)]
            s == IF accepted THEN worked ELSE Weigh(worked)
        IN Run("execute_tools", s, AfterTools(s))
  BY DEF ExecuteTools
<1> DEFINE accepted == state.turn.submit = "valid"
           worked == [state EXCEPT
                !.corpus = @ + bytes,
                !.tool_bytes = state.corpus + bytes,
                !.streak = IF useful = {} THEN @ + 1 ELSE 0,
                !.completed = @ \/ accepted,
                !.issued = @ \cup state.turn.calls,
                !.answered = @ \cup New,
                !.told = @ \cup Repeated,
                !.not_run = @ \cup (state.turn.calls \ Dispatched)]
<1>2. /\ node = "execute_tools"
      /\ state' = IF accepted THEN worked ELSE Weigh(worked)
      /\ node' = AfterTools(state') /\ steps' = steps + 1
      /\ clock' = clock /\ attempt' = attempt
  BY <1>1 DEF Run
<1>3. /\ state \in ReviewState
      /\ clock \in Nat
      /\ state.turn.calls \subseteq Calls
      /\ New \subseteq Calls /\ Repeated \subseteq Calls
  BY CapAssumption DEF TypeOK, ReviewState, Turns, New, Repeated, Dispatched,
     Dimensions, Work
<1>4. bytes \in Nat
  OBVIOUS
<1>5. worked \in ReviewState
  <2>1. /\ state.corpus + bytes \in Nat
        /\ (IF useful = {} THEN state.streak + 1 ELSE 0) \in Nat
        /\ (state.completed \/ accepted) \in BOOLEAN
        /\ state.issued \cup state.turn.calls \subseteq Calls
        /\ state.answered \cup New \subseteq Calls
        /\ state.told \cup Repeated \subseteq Calls
    BY <1>3, <1>4 DEF ReviewState
  <2> QED BY <1>3, <2>1, ZenonT(30) DEF ReviewState
<1>6. /\ worked.iterations = state.iterations
      /\ worked.tokens = state.tokens /\ worked.turn = state.turn
      /\ worked.corpus = state.corpus + bytes
      /\ worked.tool_bytes = worked.corpus
      /\ worked.breach = state.breach
      /\ worked.streak = IF useful = {} THEN state.streak + 1 ELSE 0
      /\ worked.completed = (state.completed \/ accepted)
      /\ worked.forced = state.forced
      /\ worked.submit_failed = state.submit_failed
      /\ worked.status = state.status
      /\ worked.answered = state.answered \cup New
  <2> HIDE DEF accepted
  <2> QED BY <1>3 DEF ReviewState
<1> HIDE DEF worked
<1>7. /\ state' \in ReviewState
      /\ state' = [worked EXCEPT !.breach = state'.breach]
      /\ state'.breach # worked.breach =>
            /\ state'.breach # "none"
            /\ Cap[state'.breach] > 0
            /\ Used(worked, clock)[state'.breach] >= Cap[state'.breach]
      /\ ~accepted /\ state'.breach = "none" => worked.iterations < Cap.turns
  <2>1. CASE accepted
    <3>1. state' = worked
      BY <1>2, <2>1
    <3>2. worked = [worked EXCEPT !.breach = worked.breach]
      BY <1>5 DEF ReviewState
    <3> QED BY <1>5, <2>1, <3>1, <3>2
  <2>2. CASE ~accepted
    BY <1>2, <1>3, <1>5, <2>2, WeighBreach
  <2> QED BY <2>1, <2>2
<1>8. /\ state'.iterations = worked.iterations
      /\ state'.tokens = worked.tokens /\ state'.corpus = worked.corpus
      /\ state'.tool_bytes = worked.tool_bytes
      /\ state'.streak = worked.streak
      /\ state'.completed = worked.completed
      /\ state'.forced = worked.forced
      /\ state'.submit_failed = worked.submit_failed
      /\ state'.status = worked.status
      /\ state'.answered = worked.answered
  BY <1>5, <1>7 DEF ReviewState
<1>9. OwnUse' = Used(worked, clock)
  BY <1>2, <1>6, <1>8 DEF OwnUse, Used
<1> WITNESS useful \in SUBSET New, bytes \in Nat
<1> QED BY <1>2, <1>6, <1>7, <1>8, <1>9

LEMMA ExecuteToolsIInv == IInv /\ ExecuteTools => IInv'
<1> SUFFICES ASSUME IInv, ExecuteTools PROVE IInv'
  OBVIOUS
<1> USE DEF IInv
<1> DEFINE accepted == state.turn.submit = "valid"
<1>1. PICK useful \in SUBSET New, bytes \in Nat :
            /\ node = "execute_tools"
            /\ node' = AfterTools(state') /\ steps' = steps + 1
            /\ clock' = clock /\ attempt' = attempt
            /\ state' \in ReviewState
            /\ state'.iterations = state.iterations
            /\ state'.tokens = state.tokens
            /\ state'.corpus = state.corpus + bytes
            /\ state'.tool_bytes = state'.corpus
            /\ state'.streak = IF useful = {} THEN state.streak + 1 ELSE 0
            /\ state'.completed = (state.completed \/ accepted)
            /\ state'.forced = state.forced
            /\ state'.submit_failed = state.submit_failed
            /\ state'.status = state.status
            /\ state'.breach # state.breach =>
                /\ state'.breach # "none"
                /\ Cap[state'.breach] > 0
                /\ OwnUse'[state'.breach] >= Cap[state'.breach]
            /\ ~accepted /\ state'.breach = "none"
                => state'.iterations < Cap.turns
  BY ExecuteToolsEffect
<1>2. /\ state'.completed <=> accepted
      /\ ~state'.forced /\ ~state'.submit_failed
      /\ state'.status = "running"
  BY <1>1 DEF Course
<1>3. /\ node' = "ground" => accepted
      /\ node' = "agent_step" => ~accepted /\ state'.breach = "none"
      /\ node' = "forced_submit" => ~accepted
      /\ node' \in {"ground", "agent_step", "forced_submit"}
  BY <1>1, <1>2 DEF AfterTools
<1> HIDE DEF accepted
<1>4. TypeOK'
  BY <1>1, <1>3 DEF TypeOK, Nodes, Running, Asking
<1>5. StepsAreTurns'
  BY <1>1, <1>3, CapAssumption
  DEF StepsAreTurns, TypeOK, ReviewState, Dimensions, Fuses
<1>6. BreachIsLate'
  BY <1>1, <1>3 DEF BreachIsLate
<1>7. BreachIsEarned'
  <2>1. CASE state'.breach # state.breach
    BY <1>1, <2>1 DEF BreachIsEarned
  <2>2. CASE state'.breach = state.breach
    <3> SUFFICES ASSUME state.breach # "none"
                 PROVE  OwnUse'[state.breach] >= Cap[state.breach]
      BY <2>2 DEF BreachIsEarned
    <3>1. useful = {}
      BY <1>1 DEF BreachIsLate, New, Dispatched
    <3>2. /\ OwnUse[state.breach] >= Cap[state.breach]
          /\ state.breach \in Dimensions
          /\ Cap[state.breach] \in Nat
          /\ state \in ReviewState /\ clock \in Nat
      BY CapAssumption DEF BreachIsEarned, TypeOK, ReviewState, Dimensions, Work
    <3> QED
      BY <1>1, <3>1, <3>2
      DEF OwnUse, ReviewState, Dimensions, Work, Fuses
  <2> QED BY <2>1, <2>2
<1>8. Course'
  BY <1>2, <1>3 DEF Course
<1> QED BY <1>4, <1>5, <1>6, <1>7, <1>8

LEMMA ForcedSubmitIInv == IInv /\ ForcedSubmit => IInv'
<1> SUFFICES ASSUME IInv, ForcedSubmit PROVE IInv'
  OBVIOUS
<1> USE DEF IInv
<1>1. PICK cost \in 0..MaxCost, answer \in {"none", "valid", "invalid"} :
        LET s == [state EXCEPT
                    !.iterations = @ + 1, !.tokens = @ + cost,
                    !.forced = TRUE,
                    !.turn = [calls |-> {}, submit |-> answer],
                    !.issued = @ \cup state.turn.calls,
                    !.completed = @ \/ answer = "valid",
                    !.submit_failed = answer # "valid"]
        IN Run("forced_submit", s, AfterForced(s))
  BY DEF ForcedSubmit
<1>2. /\ node = "forced_submit" /\ steps' = steps + 1
      /\ clock' = clock /\ attempt' = attempt
      /\ node' = AfterForced(state')
      /\ state' = [state EXCEPT
                    !.iterations = @ + 1, !.tokens = @ + cost,
                    !.forced = TRUE,
                    !.turn = [calls |-> {}, submit |-> answer],
                    !.issued = @ \cup state.turn.calls,
                    !.completed = @ \/ answer = "valid",
                    !.submit_failed = answer # "valid"]
  BY <1>1 DEF Run
<1>3. state \in ReviewState /\ state.turn.calls \subseteq Calls
  BY DEF TypeOK, ReviewState, Turns
<1>4. state' \in ReviewState
  <2>1. /\ state.iterations + 1 \in Nat /\ state.tokens + cost \in Nat
        /\ [calls |-> {}, submit |-> answer] \in Turns
        /\ state.issued \cup state.turn.calls \subseteq Calls
        /\ (state.completed \/ answer = "valid") \in BOOLEAN
        /\ (answer # "valid") \in BOOLEAN
    BY <1>3, AttemptsAssumption DEF ReviewState, Turns
  <2> QED BY <1>2, <1>3, <2>1 DEF ReviewState
<1>5. /\ state'.iterations = state.iterations + 1
      /\ state'.tokens = state.tokens + cost
      /\ state'.tool_bytes = state.tool_bytes
      /\ state'.corpus = state.corpus /\ state'.streak = state.streak
      /\ state'.breach = state.breach /\ state'.forced
      /\ state'.status = state.status
      /\ state'.completed <=> answer = "valid"
      /\ state'.submit_failed <=> answer # "valid"
  BY <1>2, <1>3 DEF ReviewState, Course
<1>6. /\ node' \in {"degrade", "ground"}
      /\ node' = "degrade"
            <=> state'.breach # "none" \/ state'.submit_failed
  BY <1>2 DEF AfterForced
<1>7. TypeOK'
  BY <1>2, <1>4, <1>6 DEF TypeOK, Nodes, Running, Asking
<1>8. StepsAreTurns'
  BY <1>2, <1>3, <1>5, <1>6, CapAssumption
  DEF StepsAreTurns, TypeOK, ReviewState, Dimensions, Fuses
<1>9. BreachIsLate'
  BY <1>5, <1>6 DEF BreachIsLate
<1>10. BreachIsEarned'
  <2> SUFFICES ASSUME state.breach # "none"
               PROVE  /\ Cap[state.breach] > 0
                      /\ OwnUse'[state.breach] >= Cap[state.breach]
    BY <1>5 DEF BreachIsEarned
  <2>1. /\ state.breach \in Dimensions /\ Cap[state.breach] \in Nat
        /\ Cap[state.breach] > 0
        /\ OwnUse[state.breach] >= Cap[state.breach]
    BY <1>3, CapAssumption DEF ReviewState, BreachIsEarned
  <2> QED BY <1>2, <1>3, <1>5, <2>1, AttemptsAssumption
          DEF OwnUse, ReviewState, Dimensions, Work, Fuses
<1>11. Course'
  BY <1>2, <1>5, <1>6 DEF Course
<1> QED BY <1>7, <1>8, <1>9, <1>10, <1>11

(* The nodes that only pass on, and what happens around the graph. *)
LEMMA OtherStepsIInv ==
    ASSUME IInv,
           \/ AssembleContext \/ Degrade \/ Ground
           \/ Raise \/ Invoke \/ Tick \/ UNCHANGED vars
    PROVE  IInv'
<1> USE DEF IInv
<1>1. ASSUME AssembleContext PROVE IInv'
  <2>1. /\ node = "assemble_context" /\ node' = "agent_step"
        /\ steps' = steps + 1 /\ clock' = clock /\ attempt' = attempt
        /\ state' = [state EXCEPT !.iterations = 0, !.tokens = 0,
                        !.streak = 0, !.completed = FALSE,
                        !.submit_failed = FALSE, !.turn = NoTurn,
                        !.issued = {}, !.answered = {}, !.told = {},
                        !.not_run = {}]
    BY <1>1 DEF AssembleContext, Run
  <2>2. state \in ReviewState /\ NoTurn \in Turns
    BY DEF TypeOK, NoTurn, Turns
  <2>3. state' \in ReviewState
    BY <2>1, <2>2 DEF ReviewState
  <2>4. /\ state'.iterations = 0 /\ ~state'.completed
        /\ ~state'.submit_failed /\ ~state'.forced
        /\ state'.status = "running" /\ state'.breach = "none"
        /\ state'.tool_bytes = state'.corpus
    BY <2>1, <2>2 DEF ReviewState, BreachIsLate, Course
  <2>5. TypeOK'
    BY <2>1, <2>3 DEF TypeOK, Nodes, Running, Asking
  <2>6. StepsAreTurns'
    BY <2>1, <2>4, CapAssumption, LimitAssumption
    DEF StepsAreTurns, Dimensions, Fuses
  <2> QED BY <2>1, <2>4, <2>5, <2>6
          DEF BreachIsLate, BreachIsEarned, Course
<1>2. ASSUME Degrade PROVE IInv'
  <2>1. /\ node = "degrade" /\ node' = "ground"
        /\ steps' = steps + 1 /\ clock' = clock /\ attempt' = attempt
        /\ state' = [state EXCEPT !.status = "degraded"]
    BY <1>2 DEF Degrade, Run
  <2>2. state \in ReviewState
    BY DEF TypeOK
  <2>3. state' \in ReviewState
    BY <2>1, <2>2 DEF ReviewState
  <2>4. /\ state'.status = "degraded"
        /\ state'.iterations = state.iterations
        /\ state'.tokens = state.tokens /\ state'.corpus = state.corpus
        /\ state'.tool_bytes = state.tool_bytes
        /\ state'.streak = state.streak /\ state'.breach = state.breach
        /\ state'.completed = state.completed
        /\ state'.forced = state.forced
    BY <2>1, <2>2 DEF ReviewState
  <2>5. TypeOK'
    BY <2>1, <2>3 DEF TypeOK, Nodes, Running
  <2>6. StepsAreTurns'
    BY <2>1, <2>2, CapAssumption
    DEF StepsAreTurns, TypeOK, ReviewState, Dimensions, Fuses
  <2>7. BreachIsLate' /\ BreachIsEarned'
    BY <2>1, <2>4 DEF BreachIsLate, BreachIsEarned, OwnUse
  <2>8. Course'
    BY <2>1, <2>4 DEF Course
  <2> QED BY <2>5, <2>6, <2>7, <2>8
<1>3. ASSUME Ground PROVE IInv'
  <2>1. /\ node = "ground" /\ node' = "end" /\ state' = state
        /\ steps' = steps + 1 /\ clock' = clock /\ attempt' = attempt
    BY <1>3 DEF Ground, Run
  <2> QED BY <2>1 DEF TypeOK, Nodes, StepsAreTurns, BreachIsLate,
                      BreachIsEarned, OwnUse, Course
<1>4. ASSUME Raise PROVE IInv'
  BY <1>4 DEF Raise, TypeOK, Nodes, StepsAreTurns, BreachIsLate,
              BreachIsEarned, OwnUse, Course
<1>5. ASSUME Invoke PROVE IInv'
  <2>1. NoTurn \in Turns
    BY DEF NoTurn, Turns
  <2>2. state' \in ReviewState
    BY <1>5, <2>1 DEF Invoke, FreshState, ReviewState
  <2>3. TypeOK'
    BY <1>5, <2>2, CapAssumption, AttemptsAssumption
    DEF Invoke, TypeOK, Nodes, Running, Dimensions, Work
  <2> QED BY <1>5, <2>3 DEF Invoke, FreshState, StepsAreTurns, BreachIsLate,
                            BreachIsEarned, Course
<1>6. ASSUME Tick PROVE IInv'
  <2>1. /\ node' = node /\ state' = state /\ steps' = steps
        /\ clock' = clock + 1 /\ clock < Cap.seconds /\ attempt' = attempt
    BY <1>6 DEF Tick
  <2>2. Cap.seconds \in Nat /\ clock \in 0..Cap.seconds
    BY CapAssumption DEF TypeOK, Dimensions, Work
  <2>3. TypeOK'
    BY <2>1, <2>2 DEF TypeOK
  <2>4. StepsAreTurns' /\ BreachIsLate' /\ Course'
    BY <2>1 DEF StepsAreTurns, BreachIsLate, Course
  <2>5. BreachIsEarned'
    <3> SUFFICES ASSUME state.breach # "none"
                 PROVE  /\ Cap[state.breach] > 0
                        /\ OwnUse'[state.breach] >= Cap[state.breach]
      BY <2>1 DEF BreachIsEarned
    <3>1. /\ state.breach \in Dimensions /\ Cap[state.breach] \in Nat
          /\ Cap[state.breach] > 0
          /\ OwnUse[state.breach] >= Cap[state.breach]
      BY CapAssumption DEF TypeOK, ReviewState, BreachIsEarned
    <3> QED BY <2>1, <2>2, <3>1
            DEF OwnUse, TypeOK, ReviewState, Dimensions, Work, Fuses
  <2> QED BY <2>3, <2>4, <2>5
<1>7. ASSUME UNCHANGED vars PROVE IInv'
  BY <1>7 DEF vars, TypeOK, StepsAreTurns, BreachIsLate, BreachIsEarned,
              OwnUse, Course
<1> QED BY <1>1, <1>2, <1>3, <1>4, <1>5, <1>6, <1>7

LEMMA Inductive == Spec => []IInv
<1>1. IInv /\ [Next]_vars => IInv'
  BY AgentStepIInv, ExecuteToolsIInv, ForcedSubmitIInv, OtherStepsIInv
  DEF Next
<1> QED BY <1>1, InitIInv, PTL DEF Spec

-----------------------------------------------------------------------------
(* Every field of the ReviewState stays in its domain, however the model   *)
(* answers and however often the run is tried. *)
THEOREM Typed == Spec => []TypeOK
<1>1. IInv => TypeOK
  BY DEF IInv
<1> QED BY <1>1, Inductive, PTL

(* max_turns = T never meets LangGraph's limit as long as 2T + 4 nodes fit *)
(* in it: with RECURSION_LIMIT 80 up to T = 38, and config.py says 25. *)
THEOREM FuseBeforeLimit == Spec => []WithinRecursionLimit
<1>1. IInv => WithinRecursionLimit
  <2> SUFFICES ASSUME IInv, node \in Running PROVE steps < RecursionLimit
    BY DEF WithinRecursionLimit
  <2>1. /\ Cap.turns \in Nat /\ steps \in Nat
        /\ state.iterations \in Nat
    BY CapAssumption DEF IInv, TypeOK, ReviewState, Dimensions, Fuses
  <2> QED BY <2>1, LimitAssumption
          DEF IInv, StepsAreTurns, Running, Asking
<1> QED BY <1>1, Inductive, PTL

(* No attempt is degraded for what another one used: whatever the state an *)
(* earlier attempt left in the checkpoint, fresh_state overlays it. *)
THEOREM BreachesAreEarned == Spec => []BreachIsEarned
<1>1. IInv => BreachIsEarned
  BY DEF IInv
<1> QED BY <1>1, Inductive, PTL

(* A review that ends is marked degraded exactly when it was cut short. *)
THEOREM MarkedAsItCame == Spec => []StatusIsHonest
<1>1. IInv => StatusIsHonest
  BY DEF IInv, Course, StatusIsHonest
<1> QED BY <1>1, Inductive, PTL

(* After a breach no tool runs and no other turn is asked for. *)
THEOREM BreachStopsTheLoop == Spec => NothingRunsAfterABreach
<1> DEFINE Stops == state.breach # "none" /\ attempt' = attempt
                      => state'.answered = state.answered /\ node' # "agent_step"
<1>1. IInv /\ [Next]_vars => [Stops]_vars
  <2> SUFFICES ASSUME IInv, Next, state.breach # "none", attempt' = attempt
               PROVE  state'.answered = state.answered /\ node' # "agent_step"
    OBVIOUS
  <2>1. /\ state \in ReviewState /\ clock \in Nat /\ attempt \in Nat
        /\ node \notin {"assemble_context", "agent_step"}
        /\ node = "execute_tools" => state.turn.submit # "none"
    BY CapAssumption, AttemptsAssumption
    DEF IInv, TypeOK, BreachIsLate, Dimensions, Work
  <2>2. CASE ExecuteTools
    <3>1. /\ node = "execute_tools"
          /\ node' = AfterTools(state')
          /\ state'.answered = state.answered \cup New
          /\ state'.breach # "none"
      BY <2>2, ExecuteToolsEffect DEF IInv
    <3>2. New = {}
      BY <2>1, <3>1 DEF New, Dispatched
    <3> QED BY <3>1, <3>2 DEF AfterTools
  <2>3. CASE ForcedSubmit
    BY <2>1, <2>3 DEF ForcedSubmit, Run, AfterForced, ReviewState
  <2>4. CASE Degrade \/ Ground \/ Raise \/ Tick
    BY <2>1, <2>4 DEF Degrade, Ground, Raise, Tick, Run, ReviewState
  <2>5. ~Invoke
    BY <2>1 DEF Invoke
  <2>6. ~AssembleContext
    BY <2>1 DEF AssembleContext, Run
  <2>7. ~AgentStep
    BY <2>1 DEF AgentStep, Run
  <2> QED BY <2>2, <2>3, <2>4, <2>5, <2>6, <2>7 DEF Next
<1> QED BY <1>1, Inductive, PTL DEF Spec, NothingRunsAfterABreach

-----------------------------------------------------------------------------
(* While the loop goes on, a call that was issued has its answer in the    *)
(* conversation: its result, or the note that it was not run.              *)
Answered ==
    /\ node \in {"agent_step", "execute_tools"} =>
        state.issued \subseteq state.answered \cup state.not_run
    /\ DuplicatesWereAnswered

LEMMA ExecuteToolsAnswered == TypeOK /\ Answered /\ ExecuteTools => Answered'
<1> SUFFICES ASSUME TypeOK, Answered, ExecuteTools PROVE Answered'
  OBVIOUS
<1> DEFINE worked(useful, bytes) ==
      [state EXCEPT
          !.corpus = @ + bytes,
          !.tool_bytes = state.corpus + bytes,
          !.streak = IF useful = {} THEN @ + 1 ELSE 0,
          !.completed = @ \/ state.turn.submit = "valid",
          !.issued = @ \cup state.turn.calls,
          !.answered = @ \cup New,
          !.told = @ \cup Repeated,
          !.not_run = @ \cup (state.turn.calls \ Dispatched)]
<1>1. PICK useful \in SUBSET New, bytes \in 0..Cardinality(New) :
        /\ node = "execute_tools"
        /\ state' \in {worked(useful, bytes), Weigh(worked(useful, bytes))}
  BY ZenonT(30) DEF ExecuteTools, Run
<1> DEFINE w == worked(useful, bytes)
<1>2. /\ w.issued = state.issued \cup state.turn.calls
      /\ w.answered = state.answered \cup New
      /\ w.told = state.told \cup Repeated
      /\ w.not_run = state.not_run \cup (state.turn.calls \ Dispatched)
  BY DEF TypeOK, ReviewState
<1>3. /\ state'.issued = w.issued /\ state'.answered = w.answered
      /\ state'.told = w.told /\ state'.not_run = w.not_run
  <2>1. CASE state' = w
    BY <2>1
  <2>2. CASE state' = Weigh(w)
    BY <2>2 DEF Weigh, TypeOK, ReviewState
  <2> QED BY <1>1, <2>1, <2>2
<1> HIDE DEF w
<1>4. /\ state.issued \subseteq state.answered \cup state.not_run
      /\ state.told \subseteq state.answered \cup state.not_run
  BY <1>1 DEF Answered, DuplicatesWereAnswered
<1>5. Dispatched \subseteq state.turn.calls
  BY DEF Dispatched
<1> QED BY <1>2, <1>3, <1>4, <1>5
        DEF Answered, DuplicatesWereAnswered, New, Repeated

LEMMA AnsweredInductive == Spec => []Answered
<1>1. Init => Answered
  BY DEF Init, Answered, DuplicatesWereAnswered
<1>2. TypeOK /\ Answered /\ [Next]_vars => Answered'
  <2> SUFFICES ASSUME TypeOK, Answered, [Next]_vars PROVE Answered'
    OBVIOUS
  <2> USE DEF Answered, DuplicatesWereAnswered
  <2>1. state \in ReviewState
    BY DEF TypeOK
  <2>2. CASE AssembleContext
    BY <2>1, <2>2 DEF AssembleContext, Run, ReviewState
  <2>3. CASE AgentStep
    <3>1. PICK turn \in Turns, cost \in 0..MaxCost :
            /\ node = "agent_step"
            /\ state' = Weigh([state EXCEPT !.iterations = @ + 1,
                                   !.tokens = @ + cost, !.turn = turn])
      BY <2>3 DEF AgentStep, Run
    <3>2. /\ state'.issued = state.issued /\ state'.answered = state.answered
          /\ state'.told = state.told /\ state'.not_run = state.not_run
      BY <2>1, <3>1 DEF Weigh, ReviewState
    <3> QED BY <3>1, <3>2
  <2>4. CASE ExecuteTools
    BY <2>4, ExecuteToolsAnswered
  <2>5. CASE ForcedSubmit
    BY <2>1, <2>5 DEF ForcedSubmit, Run, AfterForced, ReviewState
  <2>6. CASE Degrade \/ Ground \/ Raise \/ Tick
    BY <2>1, <2>6 DEF Degrade, Ground, Raise, Tick, Run, ReviewState
  <2>7. CASE Invoke
    BY <2>7 DEF Invoke, FreshState
  <2>8. CASE UNCHANGED vars
    BY <2>8 DEF vars
  <2> QED BY <2>2, <2>3, <2>4, <2>5, <2>6, <2>7, <2>8 DEF Next
<1> QED BY <1>1, <1>2, Typed, PTL DEF Spec

(* No call is answered with a result it never got, but for those refused   *)
(* beside a submission: however long the run, and across its attempts. *)
THEOREM RepetitionsWereAnswered == Spec => []DuplicatesWereAnswered
<1>1. Answered => DuplicatesWereAnswered
  BY DEF Answered
<1> QED BY <1>1, AnsweredInductive, PTL
=============================================================================
