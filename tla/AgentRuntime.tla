---------------------------- MODULE AgentRuntime ----------------------------
(***************************************************************************)
(* One agent run, from the message that starts it to its end, as the       *)
(* server handlers that touch it see it: runAgent / runHarnessPipeline     *)
(* (the Starter) and every click on Approve or Reject, each a resumeRun    *)
(* (the Deciders).  The handlers share nothing but the database, and each  *)
(* awaited call is a step of its own, so handlers interleave between any   *)
(* two of them.  Runs do not share rows, so one run is enough.             *)
(*                                                                         *)
(* A tool call is the pair of its tool and the number n of the proposal    *)
(* that asked for it: two calls with equal arguments that the model asked  *)
(* for separately are different calls.                                     *)
(***************************************************************************)
EXTENDS Naturals, Sequences, FiniteSets

CONSTANTS
    Starter,    \* the handler that creates the run
    Deciders,   \* the clicks on Approve or Reject
    Tools,      \* the tools the MCP server offers
    Gated,      \* those that need approval before they execute
    MaxSteps,   \* MAX_AGENT_STEPS, and the bound on a pipeline's lookups
    MaxCalls,   \* bound: tool calls in one answer of the model
    Overlap,    \* may a decision arrive while another handler is at work?
    Editable,   \* may the agent be edited while its run is under way?
    Faults      \* the kinds of call that may throw, and "crash"

Handlers == {Starter} \cup Deciders

Modes == {"LOOP", "HARNESS"}

Choices == {"APPROVED", "REJECTED"}

FaultKinds == {"llm", "tool", "mcp", "db", "crash"}

Terminal == {"COMPLETED", "FAILED", "CANCELLED"}

ASSUME HandlersAssumption == Starter \notin Deciders
ASSUME ToolsAssumption == Gated \subseteq Tools
ASSUME BoundsAssumption == MaxSteps \in Nat \ {0} /\ MaxCalls \in Nat \ {0}
ASSUME SwitchAssumption == Overlap \in BOOLEAN /\ Editable \in BOOLEAN
ASSUME FaultsAssumption == Faults \subseteq FaultKinds

VARIABLES
    agent,      \* the agent's row: its executionMode and the tools granted to it
    run,        \* the AgentRun row: status and the saved conversation
    steps,      \* the RunStep rows, the audit log of the run
    toolCalls,  \* the ToolCall rows
    approvals,  \* the Approval rows, in the order they were requested
    performed,  \* the calls the MCP server was asked to execute, and by whom
    asked,      \* how many calls have been proposed so far
    req         \* the local state of each handler

db == <<agent, run, steps, toolCalls, approvals>>
vars == <<agent, run, steps, toolCalls, approvals, performed, asked, req>>

Call == [tool : Tools, n : Nat]

\* A conversation, as far as anything depends on it: the calls the assistant
\* messages ask for and those a tool message answers.
Conversation == [asks : SUBSET Call, answers : SUBSET Call]
NoTalk == [asks |-> {}, answers |-> {}]

Status == {"NONE", "PENDING", "RUNNING", "WAITING_FOR_APPROVAL"} \cup Terminal

StepType == {"INPUT_RECEIVED", "AGENT_DECISION", "TOOL_CALL",
             "APPROVAL_REQUESTED", "APPROVAL_GRANTED",
             "RUN_COMPLETED", "RUN_FAILED", "RUN_CANCELLED"}

\* Where a handler is: the awaited call it makes next.  A handler that has
\* returned, thrown to its caller or died has ended: it makes no other.
BeforeTry == {"markRunning", "recordInput", "connect", "findRun",
              "findApproval", "decide", "recordGranted", "markResumed",
              "markCancelled", "recordCancelled"}
InTry == {"loadTools", "loadMessages", "think", "recordDecision", "dispatch",
          "pipeline", "execute", "recordCall", "recordCallStep",
          "saveMessages", "markWaiting", "recordRequest", "createApproval",
          "markCompleted", "recordCompleted", "markFailed", "recordFailed",
          "returning"}
InCatch == {"catchFailed", "catchRecord"}
Label == {"idle", "ended"} \cup BeforeTry \cup InTry \cup InCatch

\* The local variables of a handler.  task says what the current tool call is
\* for, ok the outcome of the last call (or whether the model's text is a
\* plain answer), held the approval a decision is about (0: none was found).
Request == [pc : Label, task : {"turn", "lookup", "act", "heldBack"},
            mode : Modes, tools : SUBSET Tools, talk : Conversation,
            todo : Seq(Call), turn : Nat, ok : BOOLEAN,
            choice : Choices, held : Nat]

IdleRequest == [pc |-> "idle", task |-> "turn", mode |-> "LOOP", tools |-> {},
                talk |-> NoTalk, todo |-> <<>>, turn |-> 0, ok |-> TRUE,
                choice |-> "APPROVED", held |-> 0]

RowsOK ==
    /\ agent \in [mode : Modes, tools : SUBSET Tools]
    /\ run \in [status : Status, messages : Conversation]
    /\ steps \in Seq(StepType)
    /\ toolCalls \in Seq([call : Call, ok : BOOLEAN])
    /\ approvals \in Seq([call : Call, status : Choices \cup {"PENDING"}])
    /\ performed \in Seq([call : Call, by : Handlers])
    /\ asked \in Nat

TypeOK == RowsOK /\ req \in [Handlers -> Request]

Init ==
    /\ agent \in [mode : Modes, tools : SUBSET Tools]
    /\ run = [status |-> "NONE", messages |-> NoTalk]
    /\ steps = <<>>
    /\ toolCalls = <<>>
    /\ approvals = <<>>
    /\ performed = <<>>
    /\ asked = 0
    /\ req = [i \in Handlers |-> IdleRequest]

-----------------------------------------------------------------------------
(* Steps that several handlers share.                                      *)

At(i, l) == req[i].pc = l

Goto(i, l) == req' = [req EXCEPT ![i].pc = l]

\* runRepository.markRunStatus: an unconditional update of the row.
MarkRunStatus(i, here, status, next) ==
    /\ At(i, here)
    /\ run' = [run EXCEPT !.status = status]
    /\ Goto(i, next)
    /\ UNCHANGED <<agent, steps, toolCalls, approvals, performed, asked>>

\* runRepository.addRunStep.
AddRunStep(i, here, step, next) ==
    /\ At(i, here)
    /\ steps' = Append(steps, step)
    /\ Goto(i, next)
    /\ UNCHANGED <<agent, run, toolCalls, approvals, performed, asked>>

\* The calls an answer asks for, numbered as new proposals.
Numbered(tools) == [k \in DOMAIN tools |-> [tool |-> tools[k], n |-> asked + k]]

\* Mutant: one turn too many.
BudgetLeft_offByOne(i) == req[i].turn <= MaxSteps

\* The loop's condition: step < MAX_AGENT_STEPS.
BudgetLeft(i) == req[i].turn < MaxSteps

Answers == UNION {[1 .. n -> Tools] : n \in 1 .. MaxCalls}

\* Mutant: the latest approval, decided or not.
LatestPending_any == Len(approvals)

\* findPendingApprovalForRun: the most recently requested approval that is
\* still pending, 0 if there is none.
LatestPending ==
    LET pending == {k \in DOMAIN approvals : approvals[k].status = "PENDING"}
    IN  IF pending = {} THEN 0
        ELSE CHOOSE k \in pending : \A j \in pending : j <= k

-----------------------------------------------------------------------------
(* A fresh run: runAgent and runHarnessPipeline up to their try block.      *)

CreateRun(i) ==
    /\ i = Starter
    /\ At(i, "idle")
    /\ run' = [run EXCEPT !.status = "PENDING"]
    /\ req' = [req EXCEPT ![i].pc = "markRunning", ![i].mode = agent.mode]
    /\ UNCHANGED <<agent, steps, toolCalls, approvals, performed, asked>>

MarkRunning(i) == MarkRunStatus(i, "markRunning", "RUNNING", "recordInput")

RecordInput(i) == AddRunStep(i, "recordInput", "INPUT_RECEIVED", "connect")

\* What a resumed run does once its held-back call has run, or there is none.
AfterHeldBack(mode, ok) ==
    IF mode = "LOOP" THEN "loadTools"
    ELSE IF ok THEN "markCompleted" ELSE "markFailed"

\* Mutant: the held-back call is never executed.
HasHeldBack_never(i) == FALSE

\* Did the decision find an approval with a call to execute?
HasHeldBack(i) == req[i].held # 0

\* connectMcpClient.  A resumed run goes on with the call held back in the
\* approval that was decided, if one was found.
Connect(i) ==
    /\ At(i, "connect")
    /\ IF i = Starter
       THEN Goto(i, "loadTools")
       ELSE IF HasHeldBack(i)
       THEN req' = [req EXCEPT ![i].pc = "execute", ![i].task = "heldBack",
                               ![i].todo = <<approvals[req[i].held].call>>]
       ELSE Goto(i, AfterHeldBack(req[i].mode, TRUE))
    /\ UNCHANGED <<db, performed, asked>>

\* findToolNamesForAgent and loadTools.
LoadTools(i) ==
    /\ At(i, "loadTools")
    /\ req' = [req EXCEPT ![i].tools = agent.tools,
                          ![i].pc = IF i # Starter THEN "loadMessages"
                                    ELSE IF req[i].mode = "LOOP" THEN "think"
                                    ELSE "pipeline"]
    /\ UNCHANGED <<db, performed, asked>>

LoadMessages(i) ==
    /\ At(i, "loadMessages")
    /\ req' = [req EXCEPT ![i].talk = run.messages, ![i].pc = "think"]
    /\ UNCHANGED <<db, performed, asked>>

-----------------------------------------------------------------------------
(* runLoop: the LOOP execution mode.                                        *)

\* The model answers in text (ok is FALSE for text that is a tool call
\* written out as prose) or asks for calls.
Think(i) ==
    /\ At(i, "think")
    /\ BudgetLeft(i)
    /\ \/ \E plain \in BOOLEAN :
             req' = [req EXCEPT ![i].pc = "recordDecision",
                                ![i].todo = <<>>, ![i].ok = plain]
          /\ UNCHANGED asked
       \/ \E answer \in Answers :
             /\ req' = [req EXCEPT ![i].pc = "recordDecision",
                                   ![i].todo = Numbered(answer)]
             /\ asked' = asked + Len(answer)
    /\ UNCHANGED <<db, performed>>

\* The loop's budget is spent.
ExceedSteps(i) ==
    /\ At(i, "think")
    /\ ~BudgetLeft(i)
    /\ Goto(i, "markFailed")
    /\ UNCHANGED <<db, performed, asked>>

\* The AGENT_DECISION row; an answer with calls joins the conversation.
RecordDecision(i) ==
    LET calls == {req[i].todo[k] : k \in DOMAIN req[i].todo}
    IN  /\ At(i, "recordDecision")
        /\ steps' = Append(steps, "AGENT_DECISION")
        /\ req' = [req EXCEPT
               ![i].pc = IF calls # {} THEN "dispatch"
                         ELSE IF req[i].ok THEN "markCompleted"
                         ELSE "markFailed",
               ![i].talk.asks = @ \cup calls,
               ![i].task = "turn"]
        /\ UNCHANGED <<agent, run, toolCalls, approvals, performed, asked>>

\* Mutant: gated tools execute at once.
Route_ungated(i, tool, pause) ==
    IF tool \notin req[i].tools THEN "recordCall" ELSE "execute"

\* Mutant: no check that the agent may use the tool.
Route_noAccess(i, tool, pause) == IF tool \in Gated THEN pause ELSE "execute"

\* Where a call goes: a tool that is not allowed is only recorded, a gated one
\* pauses the run, any other is executed.
Route(i, tool, pause) ==
    IF tool \notin req[i].tools THEN "recordCall"
    ELSE IF tool \in Gated THEN pause ELSE "execute"

\* The loop over the calls of one answer.
Dispatch(i) ==
    /\ At(i, "dispatch")
    /\ req' = IF req[i].todo = <<>>
              THEN [req EXCEPT ![i].pc = "think", ![i].turn = @ + 1]
              ELSE [req EXCEPT ![i].ok = FALSE,
                               ![i].pc = Route(i, Head(req[i].todo).tool,
                                               "saveMessages")]
    /\ UNCHANGED <<db, performed, asked>>

-----------------------------------------------------------------------------
(* Tool calls: executeAndRecordTool and recordDisallowedTool.               *)

\* Mutant: a tool that reports an error is called again.
Execute_retry(i) ==
    /\ At(i, "execute")
    /\ performed' = Append(performed, [call |-> Head(req[i].todo), by |-> i])
    /\ \E ok \in BOOLEAN :
          req' = [req EXCEPT ![i].pc = IF ok THEN "recordCall" ELSE "execute",
                             ![i].ok = ok]
    /\ UNCHANGED <<db, asked>>

\* The MCP call.  Whether the tool reports an error is its own affair.
Execute(i) ==
    /\ At(i, "execute")
    /\ performed' = Append(performed, [call |-> Head(req[i].todo), by |-> i])
    /\ \E ok \in BOOLEAN :
          req' = [req EXCEPT ![i].pc = "recordCall", ![i].ok = ok]
    /\ UNCHANGED <<db, asked>>

\* Mutant: failed calls get no ToolCall row.
RecordCall_onlyOk(i) ==
    /\ At(i, "recordCall")
    /\ toolCalls' = IF req[i].ok
                    THEN Append(toolCalls, [call |-> Head(req[i].todo), ok |-> TRUE])
                    ELSE toolCalls
    /\ Goto(i, "recordCallStep")
    /\ UNCHANGED <<agent, run, steps, approvals, performed, asked>>

\* The ToolCall row.
RecordCall(i) ==
    /\ At(i, "recordCall")
    /\ toolCalls' = Append(toolCalls, [call |-> Head(req[i].todo),
                                       ok |-> req[i].ok])
    /\ Goto(i, "recordCallStep")
    /\ UNCHANGED <<agent, run, steps, approvals, performed, asked>>

AfterCall(i) ==
    CASE req[i].task = "turn"   -> "dispatch"
      [] req[i].task = "lookup" -> "pipeline"
      [] req[i].task = "act"    -> IF req[i].ok THEN "markCompleted"
                                   ELSE "markFailed"
      [] OTHER                  -> AfterHeldBack(req[i].mode, req[i].ok)

\* Mutant: only a successful call is answered in the conversation.
Answered_onlyOk(i) == req[i].task = "turn" /\ req[i].ok

\* The loop answers the calls it makes itself in the conversation.
Answered(i) == req[i].task = "turn"

\* The TOOL_CALL row.  Only a call the loop itself makes is answered in the
\* conversation: a held-back call is executed outside it.
RecordCallStep(i) ==
    /\ At(i, "recordCallStep")
    /\ steps' = Append(steps, "TOOL_CALL")
    /\ req' = [req EXCEPT ![i].pc = AfterCall(i),
                          ![i].talk.answers =
                              IF Answered(i)
                              THEN @ \cup {Head(req[i].todo)} ELSE @,
                          ![i].todo = Tail(@)]
    /\ UNCHANGED <<agent, run, toolCalls, approvals, performed, asked>>

-----------------------------------------------------------------------------
(* HARNESS mode: any pipeline, as the sequence of what it may do next.      *)

\* A pipeline names only ungated tools in callTool.
Lookup(i) ==
    /\ At(i, "pipeline")
    /\ BudgetLeft(i)
    /\ \E tool \in Tools \ Gated :
          req' = [req EXCEPT ![i].pc = Route(i, tool, "execute"),
                             ![i].task = "lookup", ![i].ok = FALSE,
                             ![i].turn = @ + 1,
                             ![i].todo = Numbered(<<tool>>)]
    /\ asked' = asked + 1
    /\ UNCHANGED <<db, performed>>

\* proposeAction with the agent's action tool, through gateAndExecuteTool.
ProposeAction(i) ==
    /\ At(i, "pipeline")
    /\ \E tool \in Tools :
          req' = [req EXCEPT ![i].pc = Route(i, tool, "markWaiting"),
                             ![i].task = "act", ![i].ok = FALSE,
                             ![i].todo = Numbered(<<tool>>)]
    /\ asked' = asked + 1
    /\ UNCHANGED <<db, performed>>

\* completePipeline and failPipeline.
FinishPipeline(i) ==
    /\ At(i, "pipeline")
    /\ \/ Goto(i, "markCompleted")
       \/ Goto(i, "markFailed")
    /\ UNCHANGED <<db, performed, asked>>

-----------------------------------------------------------------------------
(* Pausing for approval.                                                    *)

SaveMessages(i) ==
    /\ At(i, "saveMessages")
    /\ run' = [run EXCEPT !.messages = req[i].talk]
    /\ Goto(i, "markWaiting")
    /\ UNCHANGED <<agent, steps, toolCalls, approvals, performed, asked>>

MarkWaiting(i) ==
    MarkRunStatus(i, "markWaiting", "WAITING_FOR_APPROVAL", "recordRequest")

RecordRequest(i) ==
    AddRunStep(i, "recordRequest", "APPROVAL_REQUESTED", "createApproval")

\* The Approval row carries the exact call that is held back.
CreateApproval(i) ==
    /\ At(i, "createApproval")
    /\ approvals' = Append(approvals, [call |-> Head(req[i].todo),
                                       status |-> "PENDING"])
    /\ Goto(i, "returning")
    /\ UNCHANGED <<agent, run, steps, toolCalls, performed, asked>>

-----------------------------------------------------------------------------
(* Ending a run.                                                            *)

MarkCompleted(i) ==
    MarkRunStatus(i, "markCompleted", "COMPLETED", "recordCompleted")

RecordCompleted(i) ==
    AddRunStep(i, "recordCompleted", "RUN_COMPLETED", "returning")

MarkFailed(i) == MarkRunStatus(i, "markFailed", "FAILED", "recordFailed")

RecordFailed(i) == AddRunStep(i, "recordFailed", "RUN_FAILED", "returning")

\* Mutant: a failed run gets no RUN_FAILED row.
CatchFailed_noRow(i) == MarkRunStatus(i, "catchFailed", "FAILED", "ended")

\* Mutant: the status of a failed run is not updated.
CatchFailed_noStatus(i) == AddRunStep(i, "catchFailed", "RUN_FAILED", "ended")

\* The catch block.
CatchFailed(i) == MarkRunStatus(i, "catchFailed", "FAILED", "catchRecord")

CatchRecord(i) == AddRunStep(i, "catchRecord", "RUN_FAILED", "ended")

\* The last write of the try block is acknowledged.
Return(i) ==
    /\ At(i, "returning")
    /\ Goto(i, "ended")
    /\ UNCHANGED <<db, performed, asked>>

-----------------------------------------------------------------------------
(* A decision: resumeRun up to its try block.                               *)

Quiet == \A i \in Handlers : req[i].pc \in {"idle", "ended"}

\* The buttons are on the run's page, so the run exists.
StartDecision(i) ==
    /\ i # Starter
    /\ At(i, "idle")
    /\ run.status # "NONE"
    /\ Overlap \/ Quiet
    /\ \E choice \in Choices :
          req' = [req EXCEPT ![i].pc = "findRun", ![i].choice = choice]
    /\ UNCHANGED <<db, performed, asked>>

\* Mutant: any run may be decided.
Decidable_any == TRUE

\* "This run is not waiting for approval." unless it is.
Decidable == run.status = "WAITING_FOR_APPROVAL"

FindRun(i) ==
    /\ At(i, "findRun")
    /\ req' = [req EXCEPT ![i].mode = agent.mode,
                          ![i].pc = IF Decidable THEN "findApproval"
                                    ELSE "ended"]
    /\ UNCHANGED <<db, performed, asked>>

\* Mutant: a rejection goes on like an approval.
AfterDecision_same(i) == "recordGranted"

\* Where a decision goes on.
AfterDecision(i) ==
    IF req[i].choice = "APPROVED" THEN "recordGranted" ELSE "markCancelled"

FindApproval(i) ==
    /\ At(i, "findApproval")
    /\ req' = [req EXCEPT ![i].held = LatestPending,
                          ![i].pc = IF LatestPending = 0 THEN AfterDecision(i)
                                    ELSE "decide"]
    /\ UNCHANGED <<db, performed, asked>>

\* Mutant: the decision is not written to the approval.
Decide_unrecorded(i) ==
    /\ At(i, "decide")
    /\ Goto(i, AfterDecision(i))
    /\ UNCHANGED <<db, performed, asked>>

\* decideApproval: an unconditional update of the row.
Decide(i) ==
    /\ At(i, "decide")
    /\ approvals' = [approvals EXCEPT ![req[i].held].status = req[i].choice]
    /\ Goto(i, AfterDecision(i))
    /\ UNCHANGED <<agent, run, steps, toolCalls, performed, asked>>

RecordGranted(i) ==
    AddRunStep(i, "recordGranted", "APPROVAL_GRANTED", "markResumed")

MarkResumed(i) == MarkRunStatus(i, "markResumed", "RUNNING", "connect")

\* Mutant: the decision is written where the status belongs.
MarkCancelled_decision(i) ==
    MarkRunStatus(i, "markCancelled", "REJECTED", "recordCancelled")

\* A rejection ends the run.
MarkCancelled(i) ==
    MarkRunStatus(i, "markCancelled", "CANCELLED", "recordCancelled")

RecordCancelled(i) ==
    AddRunStep(i, "recordCancelled", "RUN_CANCELLED", "ended")

-----------------------------------------------------------------------------
(* What else can happen.                                                    *)

FaultAt(l) ==
    CASE l \in {"think", "pipeline"}    -> {"llm", "db"}
      [] l \in {"execute", "recordCall"} -> {"tool", "db"}
      [] l \in {"connect", "loadTools"}  -> {"mcp", "db"}
      [] OTHER                           -> {"db"}

\* The awaited call throws, before its effect or, as the handler is then
\* already at the next one, after it.
Throw(i) ==
    /\ FaultAt(req[i].pc) \cap Faults # {}
    /\ \/ req[i].pc \in InTry /\ Goto(i, "catchFailed")
       \/ req[i].pc \in BeforeTry \cup InCatch /\ Goto(i, "ended")
    /\ UNCHANGED <<db, performed, asked>>

\* The server process dies: nothing takes the handler's work up again.
Crash(i) ==
    /\ "crash" \in Faults
    /\ req[i].pc \notin {"idle", "ended"}
    /\ Goto(i, "ended")
    /\ UNCHANGED <<db, performed, asked>>

\* updateAgent and setToolsForAgent.
EditAgent ==
    /\ Editable
    /\ agent' \in [mode : Modes, tools : SUBSET Tools]
    /\ agent' # agent
    /\ UNCHANGED <<run, steps, toolCalls, approvals, performed, asked, req>>

\* What a handler at work does next when nothing fails.
Work(i) ==
    \/ MarkRunning(i) \/ RecordInput(i) \/ Connect(i)
    \/ LoadTools(i) \/ LoadMessages(i)
    \/ Think(i) \/ ExceedSteps(i) \/ RecordDecision(i) \/ Dispatch(i)
    \/ Execute(i) \/ RecordCall(i) \/ RecordCallStep(i)
    \/ Lookup(i) \/ ProposeAction(i) \/ FinishPipeline(i)
    \/ SaveMessages(i) \/ MarkWaiting(i) \/ RecordRequest(i) \/ CreateApproval(i)
    \/ MarkCompleted(i) \/ RecordCompleted(i) \/ MarkFailed(i) \/ RecordFailed(i)
    \/ CatchFailed(i) \/ CatchRecord(i) \/ Return(i)
    \/ FindRun(i) \/ FindApproval(i) \/ Decide(i)
    \/ RecordGranted(i) \/ MarkResumed(i) \/ MarkCancelled(i) \/ RecordCancelled(i)

Next ==
    \/ \E i \in Handlers : Work(i) \/ CreateRun(i) \/ StartDecision(i)
                           \/ Throw(i) \/ Crash(i)
    \/ EditAgent

Spec == Init /\ [][Next]_vars

\* A handler that has started goes on: the server schedules it, and every call
\* it awaits returns.  Nobody has to start a run or to decide one.
FairSpec == Spec /\ \A i \in Handlers : WF_vars(Work(i))
-----------------------------------------------------------------------------
(* Properties.                                                              *)

\* A call to a gated tool is executed only by the handler of a click on
\* Approve, and it is exactly the call of the approval that click decided
\* (policy-engine.ts: "must never run without a human approving the exact
\* proposed content first").
ApprovedBy(i, call) ==
    /\ i \in Deciders
    /\ req[i].choice = "APPROVED"
    /\ req[i].held \in DOMAIN approvals
    /\ approvals[req[i].held].call = call

HeldCallsApproved ==
    \A k \in DOMAIN performed :
        performed[k].call.tool \in Gated
            => ApprovedBy(performed[k].by, performed[k].call)

\* A click executes a call at most once, however many clicks there are.
OncePerClick ==
    \A j, k \in DOMAIN performed : performed[j] = performed[k] => j = k

\* Each proposed call is executed at most once, across every pause, decision,
\* failure and crash, when decisions arrive one at a time.
OncePerProposal ==
    \A j, k \in DOMAIN performed :
        performed[j].call = performed[k].call => j = k

\* The handlers, failures and crashes included, implement the approval gate
\* when decisions arrive one at a time: a held-back call is granted or refused
\* once and for good, is performed only if granted, and then once.
DecidedCalls(status) ==
    {approvals[k].call : k \in {j \in DOMAIN approvals :
                                    approvals[j].status = status}}

PerformedCalls == [k \in DOMAIN performed |-> performed[k].call]

Gate == INSTANCE ApprovalGate WITH
            pending   <- DecidedCalls("PENDING"),
            granted   <- DecidedCalls("APPROVED")
                             \ {performed[k].call : k \in DOMAIN performed},
            refused   <- DecidedCalls("REJECTED"),
            performed <- PerformedCalls

ImplementsGate == Gate!Spec

\* Whenever the model is asked for its next turn, every call it made in this
\* invocation has its result in the conversation: nothing but what was already
\* open in the saved snapshot is still open.
ConversationAnswered ==
    \A i \in Handlers :
        At(i, "think") =>
            req[i].talk.asks \ req[i].talk.answers
                \subseteq run.messages.asks \ run.messages.answers

\* The model takes at most MaxSteps turns per start or resumption.
Occurrences(step) == {k \in DOMAIN steps : steps[k] = step}

StepBudget ==
    Cardinality(Occurrences("AGENT_DECISION"))
        <= MaxSteps * (1 + Cardinality(Occurrences("APPROVAL_GRANTED")))

\* Only tools granted to the agent are executed, when the grants are not
\* edited during the run.
GrantedToolsOnly ==
    \A k \in DOMAIN performed : performed[k].call.tool \in agent.tools

\* What a LOOP run's conversation may hold: answered calls, of granted tools
\* when the grants are not edited, within the budget of turns.
ConversationSound == ConversationAnswered /\ GrantedToolsOnly /\ StepBudget

\* A run that has ended does not run or wait again.
EndedStaysEnded == [][run.status \in Terminal => run'.status \in Terminal]_vars

\* Once every handler has stopped, the last row of the audit log is the one
\* that explains the status of the run.
LastStep == IF steps = <<>> THEN "NONE" ELSE steps[Len(steps)]

AuditMatchesStatus ==
    Quiet =>
        LastStep = CASE run.status = "COMPLETED" -> "RUN_COMPLETED"
                     [] run.status = "FAILED"    -> "RUN_FAILED"
                     [] run.status = "CANCELLED" -> "RUN_CANCELLED"
                     [] run.status = "WAITING_FOR_APPROVAL" -> "APPROVAL_REQUESTED"
                     [] OTHER                    -> "NONE"

\* Once every handler has stopped, a run waits for approval exactly if there
\* is a pending approval to decide, and never two of them.
WaitingMeansPending ==
    Quiet =>
        LET pending == {k \in DOMAIN approvals : approvals[k].status = "PENDING"}
        IN  Cardinality(pending)
                = IF run.status = "WAITING_FOR_APPROVAL" THEN 1 ELSE 0

\* A resumed pipeline run that reports "Approved action sent." sent it: the
\* handler about to write that row has executed the approved call.
SentMeansSent ==
    \A i \in Deciders :
        At(i, "recordCompleted") /\ req[i].mode = "HARNESS"
            => \E k \in DOMAIN performed : performed[k].by = i

\* Every call the MCP server executed has its ToolCall row once the handlers
\* have stopped.
EveryCallRecorded ==
    Quiet => \A k \in DOMAIN performed :
                \E r \in DOMAIN toolCalls : toolCalls[r].call = performed[k].call

\* The rows a run leaves tell what happened: its status is explained, a reported
\* sending took place, and every call executed has its row.
AuditTrue == AuditMatchesStatus /\ SentMeansSent /\ EveryCallRecorded

\* A run is put back to RUNNING only from WAITING_FOR_APPROVAL.
ResumedOnlyWhileWaiting ==
    [][\A i \in Deciders :
          MarkResumed(i) => run.status = "WAITING_FOR_APPROVAL"]_vars

\* Every run that starts running ends or pauses.
RunSettles ==
    run.status \in {"PENDING", "RUNNING"}
        ~> run.status \in Terminal \cup {"WAITING_FOR_APPROVAL"}
=============================================================================
