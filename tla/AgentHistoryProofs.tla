------------------------- MODULE AgentHistoryProofs -------------------------
(***************************************************************************)
(* Proofs about what an agent run leaves behind: its conversation and its  *)
(* audit log, when decisions arrive one at a time.                         *)
(***************************************************************************)
EXTENDS AgentRuntimeProofs

-----------------------------------------------------------------------------
(* The conversation of a run, its grants and its budget of turns.           *)

\* The calls a conversation has yet to answer.
Open(talk) == talk.asks \ talk.answers

\* How many rows of a kind the audit log holds, and the turns that the clicks
\* granted so far allow besides those of the start.
Count(step) == Cardinality(Occurrences(step))
Allowed == MaxSteps * Count("APPROVAL_GRANTED")

InCall == {"execute", "recordCall", "recordCallStep"}

\* The labels before a turn, from the start or the resumption on.
TurnsAhead == {"markRunning", "recordInput", "markResumed", "connect",
               "loadTools", "loadMessages", "think", "recordDecision"}

\* Only a click decides, and only a click executes a call held back.
Deciding == {"findRun", "findApproval", "decide", "recordGranted",
             "markResumed", "loadMessages"}
RoleOf(i, r) == i = Starter => /\ r.pc \notin Deciding
                               /\ r.pc \in InCall => r.task # "heldBack"

\* What a handler in state r knows of the conversation.
TalkOf(i, r) ==
    /\ i = Starter /\ r.pc \in {"idle", "markRunning", "recordInput", "connect",
                                "loadTools"}
           => r.talk = NoTalk
    /\ r.pc \in {"think", "recordDecision"}
           => Open(r.talk) \subseteq Open(run.messages)
    /\ r.pc \in {"dispatch"} \cup InCall /\ r.task = "turn"
           => Open(r.talk) \subseteq Open(run.messages) \cup Items(r.todo)
    /\ r.pc = "dispatch" => r.task = "turn"

\* What it may do with the tools it has loaded.
GrantsOf(r) ==
    /\ r.tools \subseteq agent.tools
    /\ r.pc \in Pausing \cup {"execute"} => Head(r.todo).tool \in agent.tools

\* The turns it has taken are counted in the audit log.
BudgetOf(i, r) ==
    /\ i = Starter /\ r.pc = "idle" => steps = <<>>
    /\ r.pc \in NotYetAt => r.turn = 0
    /\ r.pc \in TurnsAhead \/ (r.pc \in InCall /\ r.task = "heldBack")
           => /\ Count("AGENT_DECISION") <= Allowed + r.turn
              /\ r.turn <= MaxSteps
    /\ r.pc = "recordDecision" => r.turn < MaxSteps
    /\ r.pc \in {"dispatch"} \cup InCall /\ r.task = "turn"
           => /\ Count("AGENT_DECISION") <= Allowed + r.turn + 1
              /\ r.turn < MaxSteps

HistoryOf(i, r) == RoleOf(i, r) /\ TalkOf(i, r) /\ GrantsOf(r) /\ BudgetOf(i, r)

HistoryRows ==
    /\ \A c \in Done \cup Held : c.tool \in agent.tools
    /\ Count("AGENT_DECISION") <= Allowed + MaxSteps

HistoryInv ==
    /\ SerialInv
    /\ HistoryRows
    /\ \A i \in Handlers : HistoryOf(i, req[i])

\* A row is counted, under its kind only.
LEMMA CountAppended ==
    ASSUME TypeInv, NEW step \in StepType, steps' = Append(steps, step),
           NEW kind
    PROVE  /\ Count(kind) \in Nat
           /\ Count(kind)' = IF kind = step THEN Count(kind) + 1 ELSE Count(kind)
<1> DEFINE last == Len(steps) + 1
<1>1. /\ steps \in Seq(StepType)
      /\ Len(steps) \in Nat
      /\ DOMAIN steps = 1 .. Len(steps)
  BY LenProperties DEF TypeInv, TypeOK, RowsOK
<1>2. /\ Append(steps, step) \in Seq(StepType)
      /\ Len(Append(steps, step)) = Len(steps) + 1
      /\ Append(steps, step)[Len(steps) + 1] = step
      /\ \A k \in 1 .. Len(steps) : Append(steps, step)[k] = steps[k]
  BY <1>1, AppendProperties
<1>3. /\ DOMAIN steps' = 1 .. Len(steps) + 1
      /\ steps'[last] = step
      /\ \A k \in 1 .. Len(steps) : steps'[k] = steps[k]
  BY <1>2, LenProperties
<1>4. IsFiniteSet(Occurrences(kind))
  <2>1. IsFiniteSet(1 .. Len(steps))
    BY <1>1, FS_Interval
  <2>2. Occurrences(kind) \subseteq 1 .. Len(steps)
    BY <1>1 DEF Occurrences
  <2> QED  BY <2>1, <2>2, FS_Subset
<1>5. last \notin Occurrences(kind)
  BY <1>1 DEF Occurrences
<1>6. Occurrences(kind)' = IF kind = step THEN Occurrences(kind) \cup {last}
                           ELSE Occurrences(kind)
  <2>1. ASSUME NEW k
        PROVE  k \in Occurrences(kind)' <=>
                   k \in Occurrences(kind) \/ (k = last /\ kind = step)
    <3>1. k \in DOMAIN steps' <=> k \in DOMAIN steps \/ k = last
      BY <1>1, <1>3
    <3>2. k \in DOMAIN steps => k # last
      BY <1>1
    <3> QED  BY <1>1, <1>3, <3>1, <3>2 DEF Occurrences
  <2> QED  BY <2>1
<1>7. /\ Cardinality(Occurrences(kind)) \in Nat
      /\ Cardinality(Occurrences(kind) \cup {last}) = Cardinality(Occurrences(kind)) + 1
  BY <1>4, <1>5, FS_CardinalityType, FS_AddElement
<1> QED  BY <1>6, <1>7 DEF Count

\* The counts, as numbers.
LEMMA CountType ==
    ASSUME TypeInv
    PROVE  \A kind : Count(kind) \in Nat
<1> SUFFICES ASSUME NEW kind  PROVE Count(kind) \in Nat
  OBVIOUS
<1>1. Occurrences(kind) \subseteq 1 .. Len(steps) /\ Len(steps) \in Nat
  BY LenProperties DEF TypeInv, TypeOK, RowsOK, Occurrences
<1>2. IsFiniteSet(1 .. Len(steps))
  BY <1>1, FS_Interval
<1>3. IsFiniteSet(Occurrences(kind))
  BY <1>1, <1>2, FS_Subset
<1> QED  BY <1>3, FS_CardinalityType DEF Count

\* One more click grants MaxSteps more turns.
LEMMA AllowedMore ==
    ASSUME NEW a \in Nat, NEW b \in Nat
    PROVE  /\ a * b \in Nat
           /\ a * (b + 1) = a * b + a
           /\ a * (1 + b) = a * b + a
  OBVIOUS

LEMMA AllowedType ==
    ASSUME TypeInv
    PROVE  Allowed \in Nat /\ MaxSteps \in Nat \ {0}
  BY CountType, AllowedMore, BoundsAssumption DEF Allowed

\* What a row adds to the turns taken and to those allowed.
LEMMA BudgetAppended ==
    ASSUME TypeInv, NEW step \in StepType, steps' = Append(steps, step)
    PROVE  /\ Count("AGENT_DECISION")' = IF step = "AGENT_DECISION"
                                         THEN Count("AGENT_DECISION") + 1
                                         ELSE Count("AGENT_DECISION")
           /\ Allowed' = IF step = "APPROVAL_GRANTED" THEN Allowed + MaxSteps
                         ELSE Allowed
<1>1. /\ Count("APPROVAL_GRANTED") \in Nat
      /\ Count("APPROVAL_GRANTED")' = IF step = "APPROVAL_GRANTED"
                                      THEN Count("APPROVAL_GRANTED") + 1
                                      ELSE Count("APPROVAL_GRANTED")
  BY CountAppended
<1>2. MaxSteps \in Nat
  BY BoundsAssumption
<1>3. MaxSteps * (Count("APPROVAL_GRANTED") + 1)
          = MaxSteps * Count("APPROVAL_GRANTED") + MaxSteps
  BY <1>1, <1>2, AllowedMore
<1> QED  BY <1>1, <1>3, CountAppended DEF Allowed

LEMMA BudgetKept ==
    steps' = steps => /\ Count("AGENT_DECISION")' = Count("AGENT_DECISION")
                      /\ Allowed' = Allowed
  BY DEF Count, Allowed, Occurrences

\* A step of handler i while the others rest.
LEMMA HistoryStep ==
    ASSUME HistoryInv, SerialInv', NEW i \in Handlers,
           \A j \in Handlers \ {i} : req[j].pc \in {"idle", "ended"},
           req' = [req EXCEPT ![i] = req'[i]], agent' = agent,
           AtWork(i) \/ steps' = steps,
           HistoryRows', HistoryOf(i, req[i])'
    PROVE  HistoryInv'
<1>1. \A j \in Handlers \ {i} : req'[j] = req[j]
  BY DEF HistoryInv, SerialInv, TypeInv, TypeOK
<1>2. ASSUME NEW j \in Handlers \ {i}  PROVE HistoryOf(j, req[j])'
  <2>1. HistoryOf(j, req[j]) /\ req[j].pc \in {"idle", "ended"}
    BY DEF HistoryInv
  <2>2. TalkOf(j, req[j])'
    BY <1>1, <2>1 DEF HistoryOf, TalkOf, InCall
  <2>3. GrantsOf(req[j])'
    BY <1>1, <2>1 DEF HistoryOf, GrantsOf, Pausing
  <2>4. BudgetOf(j, req[j])'
    <3>1. j = Starter /\ req[j].pc = "idle" => steps' = steps
      BY Alone DEF HistoryInv
    <3> QED  BY <1>1, <2>1, <3>1 DEF HistoryOf, BudgetOf, InCall, TurnsAhead
  <2>5. RoleOf(j, req[j])'
    BY <1>1, <2>1 DEF RoleOf, Deciding, InCall
  <2> QED  BY <2>2, <2>3, <2>4, <2>5 DEF HistoryOf
<1> QED  BY <1>2 DEF HistoryInv

\* The rows after a step that asks for, decides and performs nothing, and
\* counts no turn.
LEMMA HistoryRowsKept ==
    ASSUME HistoryInv, agent' = agent, performed' = performed, Held' = Held,
           \/ steps' = steps
           \/ \E step \in StepType \ {"AGENT_DECISION"} :
                  steps' = Append(steps, step)
    PROVE  HistoryRows'
<1>1. Done' = Done
  BY DEF Done
<1>2. /\ Allowed \in Nat /\ MaxSteps \in Nat
      /\ Count("AGENT_DECISION") \in Nat
  BY AllowedType, CountType DEF HistoryInv, SerialInv
<1>3. /\ Count("AGENT_DECISION")' = Count("AGENT_DECISION")
      /\ Allowed' \in {Allowed, Allowed + MaxSteps}
  BY BudgetKept, BudgetAppended DEF HistoryInv, SerialInv
<1>4. Count("AGENT_DECISION")' <= Allowed' + MaxSteps
  BY <1>2, <1>3 DEF HistoryInv, HistoryRows
<1> QED  BY <1>1, <1>4 DEF HistoryInv, HistoryRows

\* The labels at which a handler knows something of the history.
HistoryAt == NotYetAt \cup TurnsAhead \cup {"dispatch"} \cup InCall \cup Pausing
                 \cup Deciding

\* A handler that goes where it knows nothing of the history.
LEMMA HistoryLeave ==
    ASSUME HistoryInv, SerialInv', NEW i \in Handlers, AtWork(i),
           req' = [req EXCEPT ![i] = req'[i]],
           req'[i].pc \notin HistoryAt, req'[i].tools = req[i].tools,
           agent' = agent, HistoryRows'
    PROVE  HistoryInv'
<1>1. HistoryOf(i, req[i])
  BY DEF HistoryInv
<1>2. HistoryOf(i, req[i])'
  BY <1>1 DEF HistoryOf, RoleOf, TalkOf, GrantsOf, BudgetOf, HistoryAt, NotYetAt,
     TurnsAhead, InCall, Pausing, Deciding
<1> QED  BY <1>2, Alone, HistoryStep DEF HistoryInv

LEMMA HistoryGoto ==
    ASSUME HistoryInv, SerialInv', NEW i \in Handlers, AtWork(i),
           NEW l, Goto(i, l), l \notin HistoryAt, agent' = agent,
           performed' = performed, Held' = Held,
           \/ steps' = steps
           \/ \E step \in StepType \ {"AGENT_DECISION"} :
                  steps' = Append(steps, step)
    PROVE  HistoryInv'
<1>1. /\ req' = [req EXCEPT ![i] = req'[i]]
      /\ req'[i].pc = l
      /\ req'[i].tools = req[i].tools
  BY Rows DEF Goto, HistoryInv, SerialInv, Request
<1> QED  BY <1>1, HistoryLeave, HistoryRowsKept

\* A handler that carries all it knows along.
LEMMA HistoryCarry ==
    ASSUME HistoryInv, SerialInv', NEW i \in Handlers, AtWork(i),
           NEW l, Goto(i, l), agent' = agent, run'.messages = run.messages,
           performed' = performed, Held' = Held,
           \/ steps' = steps
           \/ \E step \in StepType \ {"AGENT_DECISION"} :
                  steps' = Append(steps, step),
           \/ req[i].pc \in Pausing /\ l \in Pausing
           \/ req[i].pc = "recordCall" /\ l = "recordCallStep"
           \/ req[i].pc = "markRunning" /\ l = "recordInput"
           \/ req[i].pc = "recordInput" /\ l = "connect"
           \/ req[i].pc = "markResumed" /\ l = "connect"
           \/ req[i].pc = "decide" /\ l = "recordGranted"
    PROVE  HistoryInv'
<1>1. /\ req' = [req EXCEPT ![i] = req'[i]]
      /\ req'[i] = [req[i] EXCEPT !.pc = l]
  BY Rows DEF Goto, HistoryInv, SerialInv
<1>2. /\ req'[i].pc = l
      /\ req'[i].todo = req[i].todo
      /\ req'[i].talk = req[i].talk
      /\ req'[i].task = req[i].task
      /\ req'[i].tools = req[i].tools
      /\ req'[i].turn = req[i].turn
      /\ req[i].turn \in Nat
  BY <1>1, Rows DEF HistoryInv, SerialInv, Request
<1>3. HistoryRows'
  BY HistoryRowsKept
<1>4. HistoryOf(i, req[i])
  BY DEF HistoryInv
<1>5. /\ Allowed \in Nat /\ Count("AGENT_DECISION") \in Nat /\ MaxSteps \in Nat
      /\ Count("AGENT_DECISION")' = Count("AGENT_DECISION")
      /\ Allowed' \in {Allowed, Allowed + MaxSteps}
  BY AllowedType, CountType, BudgetKept, BudgetAppended DEF HistoryInv, SerialInv
<1>6. TalkOf(i, req[i])'
  BY <1>2, <1>4 DEF HistoryOf, RoleOf, Deciding, TalkOf, InCall, Pausing
<1>7. GrantsOf(req[i])'
  BY <1>2, <1>4 DEF HistoryOf, GrantsOf, Pausing
<1>8. BudgetOf(i, req[i])'
  BY <1>2, <1>4, <1>5 DEF HistoryOf, BudgetOf, InCall, Pausing, TurnsAhead, NotYetAt
<1>9. RoleOf(i, req[i])'
  BY <1>2, <1>4 DEF HistoryOf, RoleOf, Deciding, InCall, Pausing
<1> QED
  BY <1>1, <1>3, <1>6, <1>7, <1>8, <1>9, Alone, HistoryStep DEF HistoryOf, HistoryInv

LEMMA HistoryInit == Init => HistoryInv
<1> SUFFICES ASSUME Init  PROVE HistoryInv
  OBVIOUS
<1>0. SerialInv /\ TypeInv
  BY SerialInit DEF SerialInv
<1>1. HistoryRows
  <2>1. Occurrences("AGENT_DECISION") = {}
    BY DEF Init, Occurrences
  <2>2. Count("AGENT_DECISION") = 0
    BY <2>1, FS_EmptySet DEF Count
  <2>3. Done = {} /\ Held = {}
    BY DEF Init, Done, Held
  <2> QED  BY <1>0, <2>2, <2>3, AllowedType DEF HistoryRows
<1>2. ASSUME NEW i \in Handlers  PROVE HistoryOf(i, req[i])
  <2>1. req[i] = IdleRequest /\ steps = <<>>
    BY DEF Init
  <2>2. TalkOf(i, req[i])
    BY <2>1 DEF IdleRequest, TalkOf, InCall
  <2>3. GrantsOf(req[i])
    BY <2>1 DEF IdleRequest, GrantsOf, Pausing
  <2>4. BudgetOf(i, req[i])
    BY <2>1 DEF IdleRequest, BudgetOf, InCall, TurnsAhead
  <2>5. RoleOf(i, req[i])
    BY <2>1 DEF IdleRequest, RoleOf, Deciding, InCall
  <2> QED  BY <2>2, <2>3, <2>4, <2>5 DEF HistoryOf
<1> QED  BY <1>0, <1>1, <1>2 DEF HistoryInv

\* What the calls of a sequence are besides the first.
LEMMA ItemsTail ==
    ASSUME NEW calls \in Seq(Call), calls # <<>>
    PROVE  /\ Items(calls) \subseteq {Head(calls)} \cup Items(Tail(calls))
           /\ Head(calls) \in Items(calls)
           /\ Tail(calls) \in Seq(Call)
<1>1. /\ DOMAIN calls = 1 .. Len(calls)
      /\ Len(calls) \in Nat \ {0}
      /\ Head(calls) = calls[1]
      /\ Tail(calls) \in Seq(Call)
      /\ Len(Tail(calls)) = Len(calls) - 1
      /\ \A k \in 1 .. Len(Tail(calls)) : Tail(calls)[k] = calls[k + 1]
  BY EmptySeq, LenProperties, HeadTailProperties
<1>2. DOMAIN Tail(calls) = 1 .. Len(Tail(calls))
  BY <1>1, LenProperties
<1>3. ASSUME NEW k \in DOMAIN calls, k # 1
      PROVE  k - 1 \in DOMAIN Tail(calls) /\ calls[k] = Tail(calls)[k - 1]
  BY <1>1, <1>2, <1>3
<1>4. 1 \in DOMAIN calls
  BY <1>1
<1> QED  BY <1>1, <1>3, <1>4 DEF Items

\* Every action keeps HistoryInv.
LEMMA HistoryNext ==
    ASSUME ~Overlap, ~Editable
    PROVE  HistoryInv /\ [Next]_vars => HistoryInv'
<1> SUFFICES ASSUME HistoryInv, [Next]_vars  PROVE HistoryInv'
  OBVIOUS
<1>0. SerialInv'
  BY SerialNext DEF HistoryInv
<1>1. ASSUME NEW i \in Handlers, MarkCompleted(i)
      PROVE  HistoryInv'
  BY <1>1, <1>0, HistoryGoto, HeldKept
  DEF MarkCompleted, MarkRunStatus, At, AtWork, HistoryAt, NotYetAt, TurnsAhead, InCall, Pausing, Deciding
<1>2. ASSUME NEW i \in Handlers, MarkFailed(i)
      PROVE  HistoryInv'
  BY <1>2, <1>0, HistoryGoto, HeldKept
  DEF MarkFailed, MarkRunStatus, At, AtWork, HistoryAt, NotYetAt, TurnsAhead, InCall, Pausing, Deciding
<1>3. ASSUME NEW i \in Handlers, CatchFailed(i)
      PROVE  HistoryInv'
  BY <1>3, <1>0, HistoryGoto, HeldKept
  DEF CatchFailed, MarkRunStatus, At, AtWork, HistoryAt, NotYetAt, TurnsAhead, InCall, Pausing, Deciding
<1>4. ASSUME NEW i \in Handlers, MarkCancelled(i)
      PROVE  HistoryInv'
  BY <1>4, <1>0, HistoryGoto, HeldKept
  DEF MarkCancelled, MarkRunStatus, At, AtWork, HistoryAt, NotYetAt, TurnsAhead, InCall, Pausing, Deciding
<1>5. ASSUME NEW i \in Handlers, RecordCompleted(i)
      PROVE  HistoryInv'
  BY <1>5, <1>0, HistoryGoto, HeldKept
  DEF RecordCompleted, AddRunStep, StepType, At, AtWork, HistoryAt, NotYetAt, TurnsAhead, InCall, Pausing, Deciding
<1>6. ASSUME NEW i \in Handlers, RecordFailed(i)
      PROVE  HistoryInv'
  BY <1>6, <1>0, HistoryGoto, HeldKept
  DEF RecordFailed, AddRunStep, StepType, At, AtWork, HistoryAt, NotYetAt, TurnsAhead, InCall, Pausing, Deciding
<1>7. ASSUME NEW i \in Handlers, CatchRecord(i)
      PROVE  HistoryInv'
  BY <1>7, <1>0, HistoryGoto, HeldKept
  DEF CatchRecord, AddRunStep, StepType, At, AtWork, HistoryAt, NotYetAt, TurnsAhead, InCall, Pausing, Deciding
<1>8. ASSUME NEW i \in Handlers, RecordCancelled(i)
      PROVE  HistoryInv'
  BY <1>8, <1>0, HistoryGoto, HeldKept
  DEF RecordCancelled, AddRunStep, StepType, At, AtWork, HistoryAt, NotYetAt, TurnsAhead, InCall, Pausing, Deciding
<1>9. ASSUME NEW i \in Handlers, ExceedSteps(i)
      PROVE  HistoryInv'
  BY <1>9, <1>0, HistoryGoto, HeldKept
  DEF ExceedSteps, db, At, AtWork, HistoryAt, NotYetAt, TurnsAhead, InCall, Pausing, Deciding
<1>10. ASSUME NEW i \in Handlers, FinishPipeline(i)
      PROVE  HistoryInv'
  BY <1>10, <1>0, HistoryGoto, HeldKept
  DEF FinishPipeline, db, At, AtWork, HistoryAt, NotYetAt, TurnsAhead, InCall, Pausing, Deciding
<1>11. ASSUME NEW i \in Handlers, Return(i)
      PROVE  HistoryInv'
  BY <1>11, <1>0, HistoryGoto, HeldKept
  DEF Return, db, At, AtWork, HistoryAt, NotYetAt, TurnsAhead, InCall, Pausing, Deciding
<1>12. ASSUME NEW i \in Handlers, Throw(i)
      PROVE  HistoryInv'
  BY <1>12, <1>0, HistoryGoto, HeldKept
  DEF Throw, db, AtWork, InTry, BeforeTry, InCatch, HistoryAt, NotYetAt, TurnsAhead, InCall, Pausing, Deciding
<1>13. ASSUME NEW i \in Handlers, Crash(i)
      PROVE  HistoryInv'
  BY <1>13, <1>0, HistoryGoto, HeldKept DEF Crash, db, AtWork, HistoryAt, NotYetAt, TurnsAhead, InCall, Pausing, Deciding
<1>14. ASSUME NEW i \in Handlers, MarkRunning(i)
      PROVE  HistoryInv'
  <2>1. run'.messages = run.messages
    BY <1>14, Rows DEF MarkRunning, MarkRunStatus, HistoryInv, SerialInv
  <2> QED
    BY <1>14, <1>0, <2>1, HistoryCarry, HeldKept
    DEF MarkRunning, MarkRunStatus, At, AtWork, Pausing
<1>15. ASSUME NEW i \in Handlers, MarkWaiting(i)
      PROVE  HistoryInv'
  <2>1. run'.messages = run.messages
    BY <1>15, Rows DEF MarkWaiting, MarkRunStatus, HistoryInv, SerialInv
  <2> QED
    BY <1>15, <1>0, <2>1, HistoryCarry, HeldKept
    DEF MarkWaiting, MarkRunStatus, At, AtWork, Pausing
<1>16. ASSUME NEW i \in Handlers, MarkResumed(i)
      PROVE  HistoryInv'
  <2>1. run'.messages = run.messages
    BY <1>16, Rows DEF MarkResumed, MarkRunStatus, HistoryInv, SerialInv
  <2> QED
    BY <1>16, <1>0, <2>1, HistoryCarry, HeldKept
    DEF MarkResumed, MarkRunStatus, At, AtWork, Pausing
<1>17. ASSUME NEW i \in Handlers, RecordInput(i)
      PROVE  HistoryInv'
  BY <1>17, <1>0, HistoryCarry, HeldKept
  DEF RecordInput, AddRunStep, StepType, At, AtWork, Pausing
<1>18. ASSUME NEW i \in Handlers, RecordRequest(i)
      PROVE  HistoryInv'
  BY <1>18, <1>0, HistoryCarry, HeldKept
  DEF RecordRequest, AddRunStep, StepType, At, AtWork, Pausing
<1>19. ASSUME NEW i \in Handlers, RecordCall(i)
      PROVE  HistoryInv'
  BY <1>19, <1>0, HistoryCarry, HeldKept DEF RecordCall, At, AtWork
<1>20. ASSUME NEW i \in Handlers, LoadTools(i)
      PROVE  HistoryInv'
  <2>1. /\ AtWork(i) /\ req[i].pc = "loadTools"
        /\ agent' = agent /\ run'.messages = run.messages
        /\ performed' = performed /\ Held' = Held /\ steps' = steps
    BY <1>20, HeldKept DEF LoadTools, At, AtWork, db
  <2>2. /\ req' = [req EXCEPT ![i] = req'[i]]
        /\ req'[i].pc = IF i # Starter THEN "loadMessages"
                         ELSE IF req[i].mode = "LOOP" THEN "think" ELSE "pipeline"
        /\ req'[i].tools = agent.tools
        /\ req'[i].talk = req[i].talk
        /\ req'[i].turn = req[i].turn
    BY <1>20 DEF LoadTools, HistoryInv, SerialInv, TypeInv, TypeOK, Request
  <2>3. HistoryRows'
    BY <2>1, HistoryRowsKept
  <2>4. HistoryOf(i, req[i])
    BY DEF HistoryInv
  <2>5. Count("AGENT_DECISION")' = Count("AGENT_DECISION") /\ Allowed' = Allowed
    BY <2>1, BudgetKept
  <2>6. /\ Allowed \in Nat /\ Count("AGENT_DECISION") \in Nat /\ MaxSteps \in Nat
        /\ req[i].turn \in Nat
    BY AllowedType, CountType DEF HistoryInv, SerialInv, TypeInv, TypeOK, Request
  <2>9. HistoryOf(i, req[i])'
    BY <2>1, <2>2, <2>4, <2>5, <2>6
    DEF HistoryOf, RoleOf, TalkOf, GrantsOf, BudgetOf, NotYetAt, TurnsAhead,
        InCall, Pausing, Deciding, Open, NoTalk
  <2> QED  BY <1>0, <2>1, <2>2, <2>3, <2>9, Alone, HistoryStep DEF HistoryInv
<1>21. ASSUME NEW i \in Handlers, LoadMessages(i)
      PROVE  HistoryInv'
  <2>1. /\ AtWork(i) /\ req[i].pc = "loadMessages"
        /\ agent' = agent /\ run'.messages = run.messages
        /\ performed' = performed /\ Held' = Held /\ steps' = steps
    BY <1>21, HeldKept DEF LoadMessages, At, AtWork, db
  <2>2. /\ req' = [req EXCEPT ![i] = req'[i]]
        /\ req'[i].pc = "think"
        /\ req'[i].talk = run.messages
        /\ req'[i].tools = req[i].tools
        /\ req'[i].turn = req[i].turn
    BY <1>21 DEF LoadMessages, HistoryInv, SerialInv, TypeInv, TypeOK, Request
  <2>3. HistoryRows'
    BY <2>1, HistoryRowsKept
  <2>4. HistoryOf(i, req[i])
    BY DEF HistoryInv
  <2>5. Count("AGENT_DECISION")' = Count("AGENT_DECISION") /\ Allowed' = Allowed
    BY <2>1, BudgetKept
  <2>6. /\ Allowed \in Nat /\ Count("AGENT_DECISION") \in Nat /\ MaxSteps \in Nat
        /\ req[i].turn \in Nat
    BY AllowedType, CountType DEF HistoryInv, SerialInv, TypeInv, TypeOK, Request
  <2>9. HistoryOf(i, req[i])'
    BY <2>1, <2>2, <2>4, <2>5, <2>6
    DEF HistoryOf, RoleOf, TalkOf, GrantsOf, BudgetOf, NotYetAt, TurnsAhead,
        InCall, Pausing, Deciding
  <2> QED  BY <1>0, <2>1, <2>2, <2>3, <2>9, Alone, HistoryStep DEF HistoryInv
<1>22. ASSUME NEW i \in Handlers, FindRun(i)
      PROVE  HistoryInv'
  <2>1. /\ AtWork(i) /\ req[i].pc = "findRun"
        /\ agent' = agent /\ run'.messages = run.messages
        /\ performed' = performed /\ Held' = Held /\ steps' = steps
    BY <1>22, HeldKept DEF FindRun, At, AtWork, db
  <2>2. /\ req' = [req EXCEPT ![i] = req'[i]]
        /\ req'[i].pc \in {"findApproval", "ended"}
        /\ req'[i].tools = req[i].tools
        /\ req'[i].turn = req[i].turn
    BY <1>22 DEF FindRun, HistoryInv, SerialInv, TypeInv, TypeOK, Request
  <2>3. HistoryRows'
    BY <2>1, HistoryRowsKept
  <2>4. HistoryOf(i, req[i])
    BY DEF HistoryInv
  <2>5. Count("AGENT_DECISION")' = Count("AGENT_DECISION") /\ Allowed' = Allowed
    BY <2>1, BudgetKept
  <2>6. /\ Allowed \in Nat /\ Count("AGENT_DECISION") \in Nat /\ MaxSteps \in Nat
        /\ req[i].turn \in Nat
    BY AllowedType, CountType DEF HistoryInv, SerialInv, TypeInv, TypeOK, Request
  <2>9. HistoryOf(i, req[i])'
    BY <2>1, <2>2, <2>4, <2>5, <2>6
    DEF HistoryOf, RoleOf, TalkOf, GrantsOf, BudgetOf, NotYetAt, TurnsAhead,
        InCall, Pausing, Deciding
  <2> QED  BY <1>0, <2>1, <2>2, <2>3, <2>9, Alone, HistoryStep DEF HistoryInv
<1>23. ASSUME NEW i \in Handlers, FindApproval(i)
      PROVE  HistoryInv'
  <2>1. /\ AtWork(i) /\ req[i].pc = "findApproval"
        /\ agent' = agent /\ run'.messages = run.messages
        /\ performed' = performed /\ Held' = Held /\ steps' = steps
    BY <1>23, HeldKept DEF FindApproval, At, AtWork, db
  <2>2. /\ req' = [req EXCEPT ![i] = req'[i]]
        /\ req'[i].pc \in {"decide", "recordGranted", "markCancelled"}
        /\ req'[i].tools = req[i].tools
        /\ req'[i].turn = req[i].turn
    BY <1>23 DEF FindApproval, AfterDecision, HistoryInv, SerialInv, TypeInv, TypeOK, Request
  <2>3. HistoryRows'
    BY <2>1, HistoryRowsKept
  <2>4. HistoryOf(i, req[i])
    BY DEF HistoryInv
  <2>5. Count("AGENT_DECISION")' = Count("AGENT_DECISION") /\ Allowed' = Allowed
    BY <2>1, BudgetKept
  <2>6. /\ Allowed \in Nat /\ Count("AGENT_DECISION") \in Nat /\ MaxSteps \in Nat
        /\ req[i].turn \in Nat
    BY AllowedType, CountType DEF HistoryInv, SerialInv, TypeInv, TypeOK, Request
  <2>9. HistoryOf(i, req[i])'
    BY <2>1, <2>2, <2>4, <2>5, <2>6
    DEF HistoryOf, RoleOf, TalkOf, GrantsOf, BudgetOf, NotYetAt, TurnsAhead,
        InCall, Pausing, Deciding
  <2> QED  BY <1>0, <2>1, <2>2, <2>3, <2>9, Alone, HistoryStep DEF HistoryInv
<1>24. ASSUME NEW i \in Handlers, Decide(i)
      PROVE  HistoryInv'
  <2>1. AtWork(i) /\ req[i].pc = "decide" /\ Goto(i, AfterDecision(i))
        /\ UNCHANGED <<agent, run, steps, performed>>
    BY <1>24 DEF Decide, At, AtWork
  <2>2. Held' = Held
    BY <1>24, DecisionWritten DEF Held, HistoryInv, SerialInv
  <2>3. AfterDecision(i) \in {"recordGranted", "markCancelled"}
    BY DEF AfterDecision
  <2>4. CASE AfterDecision(i) = "recordGranted"
    BY <1>0, <2>1, <2>2, <2>4, HistoryCarry
  <2>5. CASE AfterDecision(i) = "markCancelled"
    BY <1>0, <2>1, <2>2, <2>5, HistoryGoto
    DEF HistoryAt, NotYetAt, TurnsAhead, InCall, Pausing, Deciding
  <2> QED  BY <2>3, <2>4, <2>5
<1>25. ASSUME NEW i \in Handlers, SaveMessages(i)
      PROVE  HistoryInv'
  <2>1. /\ AtWork(i) /\ req[i].pc = "saveMessages"
        /\ UNCHANGED <<agent, steps, approvals, performed>>
    BY <1>25 DEF SaveMessages, At, AtWork
  <2>2. /\ req' = [req EXCEPT ![i] = req'[i]]
        /\ req'[i].pc = "markWaiting"
        /\ req'[i].tools = req[i].tools
        /\ req'[i].todo = req[i].todo
    BY <1>25 DEF SaveMessages, Goto, HistoryInv, SerialInv, TypeInv, TypeOK, Request
  <2>3. HistoryRows'
    BY <2>1, HistoryRowsKept, HeldKept
  <2>4. HistoryOf(i, req[i])
    BY DEF HistoryInv
  <2>9. HistoryOf(i, req[i])'
    BY <2>1, <2>2, <2>4
    DEF HistoryOf, RoleOf, TalkOf, GrantsOf, BudgetOf, NotYetAt, TurnsAhead,
        InCall, Pausing, Deciding
  <2> QED  BY <1>0, <2>1, <2>2, <2>3, <2>9, Alone, HistoryStep DEF HistoryInv
<1>26. ASSUME NEW i \in Handlers, Connect(i)
      PROVE  HistoryInv'
  <2>1. /\ AtWork(i) /\ req[i].pc = "connect"
        /\ UNCHANGED <<agent, run, steps, approvals, performed>>
    BY <1>26 DEF Connect, At, AtWork, db
  <2>2. req' = [req EXCEPT ![i] = req'[i]]
    BY <1>26 DEF Connect, Goto, HistoryInv, SerialInv, TypeInv, TypeOK
  <2>3. HistoryRows'
    BY <2>1, HistoryRowsKept, HeldKept
  <2>4. HistoryOf(i, req[i])
    BY DEF HistoryInv
  <2>5. Count("AGENT_DECISION")' = Count("AGENT_DECISION") /\ Allowed' = Allowed
    BY <2>1, BudgetKept
  <2>6. /\ req'[i].tools = req[i].tools
        /\ req'[i].talk = req[i].talk
        /\ req'[i].turn = req[i].turn
        /\ \/ req'[i].pc \in {"loadTools", "markCompleted"}
           \/ /\ i # Starter
              /\ req'[i].pc = "execute"
              /\ req'[i].task = "heldBack"
              /\ req'[i].todo = <<approvals[req[i].held].call>>
              /\ req[i].held # 0
    <3>1. CASE i = Starter \/ ~HasHeldBack(i)
      <4>1. PICK l \in {"loadTools", "markCompleted"} : Goto(i, l)
        BY <1>26, <3>1 DEF Connect, AfterHeldBack
      <4> QED  BY <4>1 DEF Goto, HistoryInv, SerialInv, TypeInv, TypeOK, Request
    <3>2. CASE i # Starter /\ HasHeldBack(i)
      <4> DEFINE call == approvals[req[i].held].call
      <4>1. req' = [req EXCEPT ![i].pc = "execute", ![i].task = "heldBack",
                               ![i].todo = <<call>>]
        BY <1>26, <3>2 DEF Connect
      <4> HIDE DEF call
      <4>2. /\ req'[i].tools = req[i].tools
            /\ req'[i].talk = req[i].talk
            /\ req'[i].turn = req[i].turn
            /\ req'[i].pc = "execute"
            /\ req'[i].task = "heldBack"
            /\ req'[i].todo = <<call>>
        BY <4>1 DEF HistoryInv, SerialInv, TypeInv, TypeOK, Request
      <4> QED  BY <3>2, <4>2 DEF HasHeldBack, call
    <3> QED  BY <3>1, <3>2
  <2>7. req'[i].pc = "execute" => Head(req'[i].todo).tool \in agent.tools
    <3>1. SUFFICES ASSUME req'[i].pc = "execute"
                   PROVE  Head(req'[i].todo).tool \in agent.tools
      OBVIOUS
    <3>2. req[i].held \in DOMAIN approvals
      BY <2>6, <3>1 DEF HistoryInv, SerialInv, TypeInv, TypeOK, CallInHand
    <3>3. approvals[req[i].held].call \in Held
      BY <3>2 DEF Held
    <3>4. Head(req'[i].todo) = approvals[req[i].held].call
      BY <2>6, <3>1
    <3> QED  BY <3>3, <3>4 DEF HistoryInv, HistoryRows
  <2>9. HistoryOf(i, req[i])'
    BY <2>1, <2>4, <2>5, <2>6, <2>7
    DEF HistoryOf, RoleOf, TalkOf, GrantsOf, BudgetOf, NotYetAt, TurnsAhead,
        InCall, Pausing, Deciding
  <2> QED  BY <1>0, <2>1, <2>2, <2>3, <2>9, Alone, HistoryStep DEF HistoryInv
<1>27. ASSUME NEW i \in Handlers, Think(i)
      PROVE  HistoryInv'
  <2>1. /\ AtWork(i) /\ req[i].pc = "think" /\ req[i].turn < MaxSteps
        /\ UNCHANGED <<agent, run, steps, approvals, performed>>
    BY <1>27 DEF Think, BudgetLeft, At, AtWork, db
  <2>2. /\ req' = [req EXCEPT ![i] = req'[i]]
        /\ req'[i].pc = "recordDecision"
        /\ req'[i].talk = req[i].talk
        /\ req'[i].tools = req[i].tools
        /\ req'[i].turn = req[i].turn
    BY <1>27 DEF Think, HistoryInv, SerialInv, TypeInv, TypeOK, Request
  <2>3. HistoryRows'
    BY <2>1, HistoryRowsKept, HeldKept
  <2>4. HistoryOf(i, req[i])
    BY DEF HistoryInv
  <2>5. Count("AGENT_DECISION")' = Count("AGENT_DECISION") /\ Allowed' = Allowed
    BY <2>1, BudgetKept
  <2>9. HistoryOf(i, req[i])'
    BY <2>1, <2>2, <2>4, <2>5
    DEF HistoryOf, RoleOf, TalkOf, GrantsOf, BudgetOf, NotYetAt, TurnsAhead,
        InCall, Pausing, Deciding
  <2> QED  BY <1>0, <2>1, <2>2, <2>3, <2>9, Alone, HistoryStep DEF HistoryInv
<1>28. ASSUME NEW i \in Handlers, RecordDecision(i)
      PROVE  HistoryInv'
  <2>1. /\ AtWork(i) /\ req[i].pc = "recordDecision"
        /\ steps' = Append(steps, "AGENT_DECISION")
        /\ UNCHANGED <<agent, run, approvals, performed>>
    BY <1>28 DEF RecordDecision, At, AtWork
  <2>2. /\ req' = [req EXCEPT ![i] = req'[i]]
        /\ req'[i].pc \in {"dispatch", "markCompleted", "markFailed"}
        /\ req'[i].task = "turn"
        /\ req'[i].talk.asks = req[i].talk.asks \cup Items(req[i].todo)
        /\ req'[i].talk.answers = req[i].talk.answers
        /\ req'[i].todo = req[i].todo
        /\ req'[i].turn = req[i].turn
        /\ req'[i].tools = req[i].tools
    BY <1>28, DecisionRecorded DEF HistoryInv, SerialInv
  <2>4. HistoryOf(i, req[i])
    BY DEF HistoryInv
  <2>5. /\ Allowed \in Nat /\ Count("AGENT_DECISION") \in Nat /\ MaxSteps \in Nat
        /\ req[i].turn \in Nat
    BY AllowedType, CountType DEF HistoryInv, SerialInv, TypeInv, TypeOK, Request
  <2>6. /\ Count("AGENT_DECISION")' = Count("AGENT_DECISION") + 1
        /\ Allowed' = Allowed
    BY <2>1, BudgetAppended DEF StepType, HistoryInv, SerialInv
  <2>7. /\ Count("AGENT_DECISION") <= Allowed + req[i].turn
        /\ req[i].turn < MaxSteps
    BY <2>1, <2>4 DEF HistoryOf, BudgetOf, TurnsAhead
  <2>3. HistoryRows'
    <3>1. Done' = Done /\ Held' = Held
      BY <2>1 DEF Done, Held
    <3>2. Count("AGENT_DECISION")' <= Allowed' + MaxSteps
      BY <2>5, <2>6, <2>7
    <3> QED  BY <2>1, <3>1, <3>2 DEF HistoryInv, HistoryRows
  <2>8. Open(req'[i].talk) \subseteq Open(run.messages) \cup Items(req'[i].todo)
    BY <2>1, <2>2, <2>4 DEF HistoryOf, TalkOf, Open
  <2>10. Count("AGENT_DECISION")' <= Allowed' + req'[i].turn + 1
    BY <2>2, <2>5, <2>6, <2>7
  <2>9. HistoryOf(i, req[i])'
    <3>1. Open(req[i].talk)' = Open(req'[i].talk) /\ Open(run.messages)' = Open(run.messages)
      BY <2>1 DEF Open
    <3>2. TalkOf(i, req[i])'
      BY <2>1, <2>2, <2>8, <3>1 DEF TalkOf, InCall, Items, Open
    <3>3. GrantsOf(req[i])'
      BY <2>1, <2>2, <2>4 DEF HistoryOf, GrantsOf, Pausing
    <3>4. BudgetOf(i, req[i])'
      BY <2>1, <2>2, <2>7, <2>10 DEF BudgetOf, NotYetAt, TurnsAhead, InCall
    <3>5. RoleOf(i, req[i])'
      BY <2>2 DEF RoleOf, Deciding, InCall
    <3> QED  BY <3>2, <3>3, <3>4, <3>5 DEF HistoryOf
  <2> QED  BY <1>0, <2>1, <2>2, <2>3, <2>9, Alone, HistoryStep DEF HistoryInv
<1>29. ASSUME NEW i \in Handlers, Dispatch(i)
      PROVE  HistoryInv'
  <2>1. /\ AtWork(i) /\ req[i].pc = "dispatch"
        /\ UNCHANGED <<agent, run, steps, approvals, performed>>
    BY <1>29 DEF Dispatch, At, AtWork, db
  <2>2. /\ req' = [req EXCEPT ![i] = req'[i]]
        /\ req'[i].tools = req[i].tools
        /\ req'[i].talk = req[i].talk
        /\ req'[i].task = req[i].task
        /\ req'[i].todo = req[i].todo
    BY <1>29 DEF Dispatch, HistoryInv, SerialInv, TypeInv, TypeOK, Request
  <2>3. HistoryRows'
    BY <2>1, HistoryRowsKept, HeldKept
  <2>4. HistoryOf(i, req[i])
    BY DEF HistoryInv
  <2>5. Count("AGENT_DECISION")' = Count("AGENT_DECISION") /\ Allowed' = Allowed
    BY <2>1, BudgetKept
  <2>6. /\ Allowed \in Nat /\ Count("AGENT_DECISION") \in Nat /\ MaxSteps \in Nat
        /\ req[i].turn \in Nat
    BY AllowedType, CountType DEF HistoryInv, SerialInv, TypeInv, TypeOK, Request
  <2>7. /\ req[i].task = "turn"
        /\ Open(req[i].talk) \subseteq Open(run.messages) \cup Items(req[i].todo)
        /\ Count("AGENT_DECISION") <= Allowed + req[i].turn + 1
        /\ req[i].turn < MaxSteps
    BY <2>1, <2>4 DEF HistoryOf, TalkOf, BudgetOf
  <2>8. CASE req[i].todo = <<>>
    <3>1. req'[i].pc = "think" /\ req'[i].turn = req[i].turn + 1
      BY <1>29, <2>8 DEF Dispatch, HistoryInv, SerialInv, TypeInv, TypeOK, Request
    <3>2. Items(req[i].todo) = {}
      BY <2>8, ItemsEmpty DEF HistoryInv, SerialInv, TypeInv, TypeOK, Request
    <3>3. Open(req[i].talk) \subseteq Open(run.messages)
      BY <2>7, <3>2
    <3>4. /\ Count("AGENT_DECISION")' <= Allowed' + (req[i].turn + 1)
          /\ req[i].turn + 1 <= MaxSteps
      BY <2>5, <2>6, <2>7
    <3>9. HistoryOf(i, req[i])'
      BY <2>1, <2>2, <2>4, <3>1, <3>3, <3>4
      DEF HistoryOf, RoleOf, TalkOf, GrantsOf, BudgetOf, NotYetAt, TurnsAhead,
          InCall, Pausing, Deciding, Open
    <3> QED  BY <1>0, <2>1, <2>2, <2>3, <3>9, Alone, HistoryStep DEF HistoryInv
  <2>10. CASE req[i].todo # <<>>
    <3>1. /\ req'[i].pc = Route(i, Head(req[i].todo).tool, "saveMessages")
          /\ req'[i].turn = req[i].turn
      BY <1>29, <2>10 DEF Dispatch, HistoryInv, SerialInv, TypeInv, TypeOK, Request
    <3>2. /\ req'[i].pc \in {"recordCall", "execute", "saveMessages"}
          /\ req'[i].pc # "recordCall" => Head(req[i].todo).tool \in req[i].tools
      BY <3>1 DEF Route
    <3>3. req'[i].pc # "recordCall" => Head(req[i].todo).tool \in agent.tools
      BY <2>4, <3>2 DEF HistoryOf, GrantsOf
    <3>9. HistoryOf(i, req[i])'
      BY <2>1, <2>2, <2>4, <2>5, <2>7, <3>1, <3>2, <3>3
      DEF HistoryOf, RoleOf, TalkOf, GrantsOf, BudgetOf, NotYetAt, TurnsAhead,
          InCall, Pausing, Deciding, Open, Items
    <3> QED  BY <1>0, <2>1, <2>2, <2>3, <3>9, Alone, HistoryStep DEF HistoryInv
  <2> QED  BY <2>8, <2>10
<1>30. ASSUME NEW i \in Handlers, Execute(i)
      PROVE  HistoryInv'
  <2>1. /\ AtWork(i) /\ req[i].pc = "execute"
        /\ UNCHANGED <<agent, run, steps, approvals>>
    BY <1>30 DEF Execute, At, AtWork, db
  <2>2. /\ req' = [req EXCEPT ![i] = req'[i]]
        /\ req'[i].pc = "recordCall"
        /\ req'[i].todo = req[i].todo
        /\ req'[i].tools = req[i].tools
        /\ req'[i].talk = req[i].talk
        /\ req'[i].turn = req[i].turn
        /\ req'[i].task = req[i].task
    <3>1. PICK ok \in BOOLEAN :
               req' = [req EXCEPT ![i].pc = "recordCall", ![i].ok = ok]
      BY <1>30 DEF Execute
    <3> QED  BY <3>1 DEF HistoryInv, SerialInv, TypeInv, TypeOK, Request
  <2>4. HistoryOf(i, req[i])
    BY DEF HistoryInv
  <2>5. Count("AGENT_DECISION")' = Count("AGENT_DECISION") /\ Allowed' = Allowed
    BY <2>1, BudgetKept
  <2>3. HistoryRows'
    <3> DEFINE call == Head(req[i].todo)
               last == Len(performed) + 1
    <3>1. /\ DOMAIN performed' = DOMAIN performed \cup {last}
          /\ \A k \in DOMAIN performed : performed'[k] = performed[k]
          /\ performed'[last].call = call
          /\ last \notin DOMAIN performed
      BY <1>30, CallPerformed DEF HistoryInv, SerialInv
    <3>2. call.tool \in agent.tools
      BY <2>1, <2>4 DEF HistoryOf, GrantsOf
    <3> HIDE DEF call, last
    <3>3. Done' = Done \cup {call} /\ Held' = Held
      BY <2>1, <3>1 DEF Done, Held
    <3> QED  BY <2>1, <2>5, <3>2, <3>3 DEF HistoryInv, HistoryRows
  <2>9. HistoryOf(i, req[i])'
    BY <2>1, <2>2, <2>4, <2>5
    DEF HistoryOf, RoleOf, TalkOf, GrantsOf, BudgetOf, NotYetAt, TurnsAhead,
        InCall, Pausing, Deciding, Open, Items
  <2> QED  BY <1>0, <2>1, <2>2, <2>3, <2>9, Alone, HistoryStep DEF HistoryInv
<1>31. ASSUME NEW i \in Handlers, RecordCallStep(i)
      PROVE  HistoryInv'
  <2>1. /\ AtWork(i) /\ req[i].pc = "recordCallStep" /\ req[i].todo # <<>>
        /\ steps' = Append(steps, "TOOL_CALL")
        /\ UNCHANGED <<agent, run, approvals, performed>>
    BY <1>31 DEF RecordCallStep, At, AtWork, HistoryInv, SerialInv, TypeInv,
       CallInHand, InHand
  <2>2. /\ req' = [req EXCEPT ![i] = req'[i]]
        /\ req'[i].pc = AfterCall(i)
        /\ req'[i].todo = Tail(req[i].todo)
        /\ req'[i].task = req[i].task
        /\ req'[i].tools = req[i].tools
        /\ req'[i].turn = req[i].turn
        /\ req'[i].talk.asks = req[i].talk.asks
        /\ req[i].task = "turn" =>
               req'[i].talk.answers = req[i].talk.answers \cup {Head(req[i].todo)}
    <3> DEFINE more == IF Answered(i) THEN req[i].talk.answers \cup {Head(req[i].todo)}
                       ELSE req[i].talk.answers
               l == AfterCall(i)
    <3>1. req' = [req EXCEPT ![i].pc = l, ![i].talk.answers = more,
                             ![i].todo = Tail(@)]
      BY <1>31 DEF RecordCallStep
    <3>2. req[i].task = "turn" => more = req[i].talk.answers \cup {Head(req[i].todo)}
      BY DEF Answered
    <3> HIDE DEF more, l
    <3>3. /\ req' = [req EXCEPT ![i] = req'[i]]
          /\ req'[i] = [req[i] EXCEPT !.pc = l, !.talk = [@ EXCEPT !.answers = more],
                                      !.todo = Tail(@)]
      BY <3>1 DEF HistoryInv, SerialInv, TypeInv, TypeOK, Request
    <3>4. req[i] \in Request /\ req[i].talk \in Conversation
      BY DEF HistoryInv, SerialInv, TypeInv, TypeOK, Request
    <3>5. /\ req'[i].pc = l
          /\ req'[i].todo = Tail(req[i].todo)
          /\ req'[i].task = req[i].task
          /\ req'[i].tools = req[i].tools
          /\ req'[i].turn = req[i].turn
          /\ req'[i].talk = [req[i].talk EXCEPT !.answers = more]
      BY <3>3, <3>4 DEF Request
    <3>6. /\ req'[i].talk.asks = req[i].talk.asks
          /\ req'[i].talk.answers = more
      BY <3>4, <3>5 DEF Conversation
    <3> QED  BY <3>2, <3>3, <3>5, <3>6 DEF l
  <2>3. HistoryRows'
    BY <2>1, HistoryRowsKept, HeldKept DEF StepType
  <2>4. HistoryOf(i, req[i])
    BY DEF HistoryInv
  <2>5. Count("AGENT_DECISION")' = Count("AGENT_DECISION") /\ Allowed' = Allowed
    BY <2>1, BudgetAppended DEF StepType, HistoryInv, SerialInv
  <2>6. CASE req[i].task = "turn"
    <3>1. req'[i].pc = "dispatch"
      BY <2>2, <2>6 DEF AfterCall
    <3>2. Items(req[i].todo) \subseteq {Head(req[i].todo)} \cup Items(Tail(req[i].todo))
      BY <2>1, ItemsTail DEF HistoryInv, SerialInv, TypeInv, TypeOK, Request
    <3>3. /\ Open(req[i].talk) \subseteq Open(run.messages) \cup Items(req[i].todo)
          /\ Count("AGENT_DECISION") <= Allowed + req[i].turn + 1
          /\ req[i].turn < MaxSteps
      BY <2>1, <2>4, <2>6 DEF HistoryOf, TalkOf, BudgetOf, InCall
    <3>4. Open(req'[i].talk) \subseteq Open(run.messages) \cup Items(req'[i].todo)
      BY <2>2, <2>6, <3>2, <3>3 DEF Open
    <3>5. Open(req[i].talk)' = Open(req'[i].talk) /\ Items(req[i].todo)' = Items(req'[i].todo)
          /\ Open(run.messages)' = Open(run.messages)
      BY <2>1 DEF Open, Items
    <3>6. TalkOf(i, req[i])'
      BY <2>2, <2>6, <3>1, <3>4, <3>5 DEF TalkOf, InCall
    <3>7. BudgetOf(i, req[i])'
      BY <2>2, <2>5, <3>1, <3>3 DEF BudgetOf, InCall, TurnsAhead, NotYetAt
    <3>8. GrantsOf(req[i])' /\ RoleOf(i, req[i])'
      BY <2>1, <2>2, <2>4, <3>1 DEF HistoryOf, GrantsOf, RoleOf, Pausing, Deciding, InCall
    <3>9. HistoryOf(i, req[i])'
      BY <3>6, <3>7, <3>8 DEF HistoryOf
    <3> QED  BY <1>0, <2>1, <2>2, <2>3, <3>9, Alone, HistoryStep DEF HistoryInv
  <2>7. CASE req[i].task # "turn"
    <3>1. /\ req'[i].pc \in {"pipeline", "markCompleted", "markFailed", "loadTools"}
          /\ req'[i].pc = "loadTools" => req[i].task = "heldBack" /\ i # Starter
      <4>1. AfterCall(i) = "loadTools" => req[i].task \notin {"turn", "lookup", "act"}
        BY DEF AfterCall
      <4>2. req[i].task \in {"turn", "lookup", "act", "heldBack"}
        BY DEF HistoryInv, SerialInv, TypeInv, TypeOK, Request
      <4>3. AfterCall(i) \in {"pipeline", "markCompleted", "markFailed", "loadTools"}
        BY <2>7 DEF AfterCall, AfterHeldBack
      <4> QED  BY <2>1, <2>2, <2>4, <4>1, <4>2, <4>3 DEF HistoryOf, RoleOf, InCall
    <3>9. HistoryOf(i, req[i])'
      BY <2>1, <2>2, <2>4, <2>5, <3>1
      DEF HistoryOf, RoleOf, TalkOf, GrantsOf, BudgetOf, NotYetAt, TurnsAhead,
          InCall, Pausing, Deciding
    <3> QED  BY <1>0, <2>1, <2>2, <2>3, <3>9, Alone, HistoryStep DEF HistoryInv
  <2> QED  BY <2>6, <2>7
<1>32. ASSUME NEW i \in Handlers, Lookup(i)
      PROVE  HistoryInv'
  <2>1. /\ AtWork(i) /\ req[i].pc = "pipeline"
        /\ UNCHANGED <<agent, run, steps, approvals, performed>>
    BY <1>32 DEF Lookup, At, AtWork, db
  <2>5. PICK tool \in Tools \ Gated :
             req' = [req EXCEPT ![i].pc = Route(i, tool, "execute"), ![i].task = "lookup",
                                ![i].ok = FALSE, ![i].turn = @ + 1,
                                ![i].todo = Numbered(<<tool>>)]
    BY <1>32 DEF Lookup
  <2>2. /\ req' = [req EXCEPT ![i] = req'[i]]
        /\ req'[i].pc = Route(i, tool, "execute")
        /\ req'[i].todo = Numbered(<<tool>>)
        /\ req'[i].task = "lookup"
        /\ req'[i].tools = req[i].tools
    BY <2>5 DEF HistoryInv, SerialInv, TypeInv, TypeOK, Request
  <2>3. HistoryRows'
    BY <2>1, HistoryRowsKept, HeldKept
  <2>4. HistoryOf(i, req[i])
    BY DEF HistoryInv
  <2>6. Head(req'[i].todo).tool = tool
    BY <2>2, HeadNumbered, ToolsAssumption DEF HistoryInv, SerialInv
  <2>7. /\ req'[i].pc \in {"recordCall", "execute", "markWaiting"}
        /\ req'[i].pc # "recordCall" => tool \in req[i].tools
    BY <2>2 DEF Route
  <2>9. HistoryOf(i, req[i])'
    BY <2>1, <2>2, <2>4, <2>6, <2>7
    DEF HistoryOf, RoleOf, TalkOf, GrantsOf, BudgetOf, NotYetAt, TurnsAhead,
        InCall, Pausing, Deciding
  <2> QED  BY <1>0, <2>1, <2>2, <2>3, <2>9, Alone, HistoryStep DEF HistoryInv
<1>33. ASSUME NEW i \in Handlers, ProposeAction(i)
      PROVE  HistoryInv'
  <2>1. /\ AtWork(i) /\ req[i].pc = "pipeline"
        /\ UNCHANGED <<agent, run, steps, approvals, performed>>
    BY <1>33 DEF ProposeAction, At, AtWork, db
  <2>5. PICK tool \in Tools :
             req' = [req EXCEPT ![i].pc = Route(i, tool, "markWaiting"), ![i].task = "act",
                                ![i].ok = FALSE,
                                ![i].todo = Numbered(<<tool>>)]
    BY <1>33 DEF ProposeAction
  <2>2. /\ req' = [req EXCEPT ![i] = req'[i]]
        /\ req'[i].pc = Route(i, tool, "markWaiting")
        /\ req'[i].todo = Numbered(<<tool>>)
        /\ req'[i].task = "act"
        /\ req'[i].tools = req[i].tools
    BY <2>5 DEF HistoryInv, SerialInv, TypeInv, TypeOK, Request
  <2>3. HistoryRows'
    BY <2>1, HistoryRowsKept, HeldKept
  <2>4. HistoryOf(i, req[i])
    BY DEF HistoryInv
  <2>6. Head(req'[i].todo).tool = tool
    BY <2>2, HeadNumbered, ToolsAssumption DEF HistoryInv, SerialInv
  <2>7. /\ req'[i].pc \in {"recordCall", "execute", "markWaiting"}
        /\ req'[i].pc # "recordCall" => tool \in req[i].tools
    BY <2>2 DEF Route
  <2>9. HistoryOf(i, req[i])'
    BY <2>1, <2>2, <2>4, <2>6, <2>7
    DEF HistoryOf, RoleOf, TalkOf, GrantsOf, BudgetOf, NotYetAt, TurnsAhead,
        InCall, Pausing, Deciding
  <2> QED  BY <1>0, <2>1, <2>2, <2>3, <2>9, Alone, HistoryStep DEF HistoryInv
<1>34. ASSUME NEW i \in Handlers, RecordGranted(i)
      PROVE  HistoryInv'
  <2>1. /\ AtWork(i) /\ req[i].pc = "recordGranted"
        /\ steps' = Append(steps, "APPROVAL_GRANTED")
        /\ UNCHANGED <<agent, run, approvals, performed>>
    BY <1>34 DEF RecordGranted, AddRunStep, At, AtWork
  <2>2. /\ req' = [req EXCEPT ![i] = req'[i]]
        /\ req'[i].pc = "markResumed"
        /\ req'[i].tools = req[i].tools
        /\ req'[i].turn = req[i].turn
    BY <1>34 DEF RecordGranted, AddRunStep, Goto, HistoryInv, SerialInv, TypeInv, TypeOK, Request
  <2>3. HistoryRows'
    BY <2>1, HistoryRowsKept, HeldKept DEF StepType
  <2>4. HistoryOf(i, req[i])
    BY DEF HistoryInv
  <2>5. /\ Count("AGENT_DECISION")' = Count("AGENT_DECISION")
        /\ Allowed' = Allowed + MaxSteps
    BY <2>1, BudgetAppended DEF StepType, HistoryInv, SerialInv
  <2>6. /\ Allowed \in Nat /\ Count("AGENT_DECISION") \in Nat /\ MaxSteps \in Nat
        /\ Count("AGENT_DECISION") <= Allowed + MaxSteps
    BY AllowedType, CountType DEF HistoryInv, HistoryRows, SerialInv
  <2>7. req[i].turn = 0
    BY <2>1, <2>4 DEF HistoryOf, BudgetOf, NotYetAt
  <2>9. HistoryOf(i, req[i])'
    BY <2>1, <2>2, <2>4, <2>5, <2>6, <2>7
    DEF HistoryOf, RoleOf, TalkOf, GrantsOf, BudgetOf, NotYetAt, TurnsAhead,
        InCall, Pausing, Deciding
  <2> QED  BY <1>0, <2>1, <2>2, <2>3, <2>9, Alone, HistoryStep DEF HistoryInv
<1>35. ASSUME NEW i \in Handlers, CreateApproval(i)
      PROVE  HistoryInv'
  <2>1. /\ AtWork(i) /\ req[i].pc = "createApproval"
        /\ UNCHANGED <<agent, run, steps, performed>>
        /\ Goto(i, "returning")
    BY <1>35 DEF CreateApproval, At, AtWork
  <2>2. /\ req' = [req EXCEPT ![i] = req'[i]]
        /\ req'[i].pc = "returning"
        /\ req'[i].tools = req[i].tools
    BY <2>1 DEF Goto, HistoryInv, SerialInv, TypeInv, TypeOK, Request
  <2>4. HistoryOf(i, req[i])
    BY DEF HistoryInv
  <2>3. HistoryRows'
    <3> DEFINE call == Head(req[i].todo)
               last == Len(approvals) + 1
    <3>1. /\ DOMAIN approvals' = DOMAIN approvals \cup {last}
          /\ \A k \in DOMAIN approvals : approvals'[k] = approvals[k]
          /\ approvals'[last] = [call |-> call, status |-> "PENDING"]
      BY <1>35, ApprovalAdded DEF HistoryInv, SerialInv
    <3>2. call.tool \in agent.tools
      BY <2>1, <2>4 DEF HistoryOf, GrantsOf, Pausing
    <3> HIDE DEF call, last
    <3>3. approvals'[last].call = call
      BY <3>1
    <3>4. Done' = Done /\ Held' \subseteq Held \cup {call}
      BY <2>1, <3>1, <3>3 DEF Done, Held
    <3>5. Count("AGENT_DECISION")' = Count("AGENT_DECISION") /\ Allowed' = Allowed
      BY <2>1, BudgetKept
    <3> QED  BY <2>1, <3>2, <3>4, <3>5 DEF HistoryInv, HistoryRows
  <2> QED
    BY <1>0, <2>1, <2>2, <2>3, HistoryLeave
    DEF HistoryAt, NotYetAt, TurnsAhead, InCall, Pausing, Deciding
<1>36. ASSUME NEW i \in Handlers, CreateRun(i)
      PROVE  HistoryInv'
  <2>1. /\ \A j \in Handlers : req[j].pc = "idle"
        /\ i = Starter
        /\ run'.messages = run.messages
        /\ UNCHANGED <<agent, steps, approvals, performed>>
    BY <1>36, Rows DEF CreateRun, At, HistoryInv, SerialInv, Created
  <2>2. /\ req' = [req EXCEPT ![i] = req'[i]]
        /\ req'[i].pc = "markRunning"
        /\ req'[i].talk = req[i].talk
        /\ req'[i].tools = req[i].tools
        /\ req'[i].turn = req[i].turn
    BY <1>36 DEF CreateRun, HistoryInv, SerialInv, TypeInv, TypeOK, Request
  <2>3. HistoryRows'
    BY <2>1, HistoryRowsKept, HeldKept
  <2>4. HistoryOf(i, req[i]) /\ req[i].pc = "idle"
    BY <2>1 DEF HistoryInv
  <2>5. Count("AGENT_DECISION")' = 0
    <3>1. steps = <<>>
      BY <2>1, <2>4 DEF HistoryOf, BudgetOf
    <3>2. Occurrences("AGENT_DECISION")' = {}
      BY <2>1, <3>1 DEF Occurrences
    <3> QED  BY <3>2, FS_EmptySet DEF Count
  <2>6. Allowed' \in Nat /\ MaxSteps \in Nat /\ req[i].turn = 0
    BY <2>1, <2>4, AllowedType, BudgetKept DEF HistoryOf, BudgetOf, NotYetAt, HistoryInv, SerialInv
  <2>9. HistoryOf(i, req[i])'
    BY <2>1, <2>2, <2>4, <2>5, <2>6
    DEF HistoryOf, RoleOf, TalkOf, GrantsOf, BudgetOf, NotYetAt, TurnsAhead,
        InCall, Pausing, Deciding
  <2> QED  BY <1>0, <2>1, <2>2, <2>3, <2>9, HistoryStep DEF HistoryInv
<1>37. ASSUME NEW i \in Handlers, StartDecision(i)
      PROVE  HistoryInv'
  <2>1. /\ Quiet /\ i # Starter /\ req[i].pc = "idle"
        /\ UNCHANGED <<agent, run, steps, approvals, performed>>
    BY <1>37 DEF StartDecision, At, db
  <2>2. /\ req' = [req EXCEPT ![i] = req'[i]]
        /\ req'[i].pc = "findRun"
        /\ req'[i].tools = req[i].tools
        /\ req'[i].turn = req[i].turn
    <3>1. PICK choice \in Choices :
               req' = [req EXCEPT ![i].pc = "findRun", ![i].choice = choice]
      BY <1>37 DEF StartDecision
    <3> QED  BY <3>1 DEF HistoryInv, SerialInv, TypeInv, TypeOK, Request
  <2>3. HistoryRows'
    BY <2>1, HistoryRowsKept, HeldKept
  <2>4. HistoryOf(i, req[i])
    BY DEF HistoryInv
  <2>9. HistoryOf(i, req[i])'
    BY <2>1, <2>2, <2>4
    DEF HistoryOf, RoleOf, TalkOf, GrantsOf, BudgetOf, NotYetAt, TurnsAhead,
        InCall, Pausing, Deciding
  <2> QED  BY <1>0, <2>1, <2>2, <2>3, <2>9, HistoryStep DEF Quiet, HistoryInv
<1>38. CASE UNCHANGED vars
  <2>1. UNCHANGED <<agent, run, steps, approvals, performed, req>>
    BY <1>38 DEF vars
  <2>2. HistoryRows'
    BY <2>1, HistoryRowsKept, HeldKept
  <2>3. ASSUME NEW i \in Handlers  PROVE HistoryOf(i, req[i])'
    <3>1. HistoryOf(i, req[i])
      BY DEF HistoryInv
    <3>2. Count("AGENT_DECISION")' = Count("AGENT_DECISION") /\ Allowed' = Allowed
      BY <2>1, BudgetKept
    <3> QED
      BY <2>1, <3>1, <3>2 DEF HistoryOf, RoleOf, TalkOf, GrantsOf, BudgetOf, Open, Items
  <2> QED  BY <1>0, <2>2, <2>3 DEF HistoryInv
<1>39. ~EditAgent
  BY DEF EditAgent
<1> QED
  BY
     <1>0, <1>1, <1>2, <1>3, <1>4, <1>5, <1>6, <1>7, <1>8, <1>9, <1>10,
     <1>11, <1>12, <1>13, <1>14, <1>15, <1>16, <1>17, <1>18, <1>19,
     <1>20, <1>21, <1>22, <1>23, <1>24, <1>25, <1>26, <1>27, <1>28,
     <1>29, <1>30, <1>31, <1>32, <1>33, <1>34, <1>35, <1>36, <1>37,
     <1>38,
     <1>39
  DEF Next, Work

\* The turns allowed, as the property counts them.
LEMMA BudgetHolds == HistoryInv => StepBudget
<1> SUFFICES ASSUME HistoryInv  PROVE StepBudget
  OBVIOUS
<1>1. Count("APPROVAL_GRANTED") \in Nat /\ MaxSteps \in Nat
  BY CountType, BoundsAssumption DEF HistoryInv, SerialInv
<1>2. MaxSteps * (1 + Count("APPROVAL_GRANTED"))
          = MaxSteps * Count("APPROVAL_GRANTED") + MaxSteps
  BY <1>1, AllowedMore
<1>3. Count("AGENT_DECISION")
          <= MaxSteps * (1 + Count("APPROVAL_GRANTED"))
  BY <1>2 DEF HistoryInv, HistoryRows, Allowed
<1> QED  BY <1>3 DEF StepBudget, Count

\* The model is asked for a turn only with every call of this invocation
\* answered, only granted tools execute, and the turns stay within MaxSteps for
\* the start and for each click that granted an approval, whatever fails, when
\* decisions arrive one at a time and the agent is not edited meanwhile.
THEOREM ConversationAlwaysSound ==
    ASSUME ~Overlap, ~Editable
    PROVE  Spec => []ConversationSound
<1>1. HistoryInv => ConversationSound
  <2> SUFFICES ASSUME HistoryInv  PROVE ConversationSound
    OBVIOUS
  <2>1. ConversationAnswered
    BY DEF HistoryInv, HistoryOf, TalkOf, Open, ConversationAnswered, At
  <2>2. GrantedToolsOnly
    BY DEF HistoryInv, HistoryRows, Done, GrantedToolsOnly
  <2> QED  BY <2>1, <2>2, BudgetHolds DEF ConversationSound
<1> QED  BY <1>1, HistoryInit, HistoryNext, PTL DEF Spec

-----------------------------------------------------------------------------
(* The rows of a run whose calls to the model are all that may fail.        *)

Pending == {k \in DOMAIN approvals : approvals[k].status = "PENDING"}

\* What the log and the approvals say of the status once all handlers rest.
Explanation(status) ==
    CASE status = "COMPLETED" -> "RUN_COMPLETED"
      [] status = "FAILED"    -> "RUN_FAILED"
      [] status = "CANCELLED" -> "RUN_CANCELLED"
      [] status = "WAITING_FOR_APPROVAL" -> "APPROVAL_REQUESTED"
      [] OTHER                -> "NONE"

OnePending ==
    IF run.status = "WAITING_FOR_APPROVAL" THEN \E k \in Pending : Pending = {k}
    ELSE Pending = {}

Settled == LastStep = Explanation(run.status) /\ OnePending

\* The labels at which a handler rests, and those at which the approval to
\* decide is still pending.  At every other nothing is.
Resting == {"idle", "ended"}
Found == {"findApproval", "decide"}

\* What the rows say while a handler in state r is at work.
RowsOf(r) ==
    /\ r.pc \in {"findRun", "returning"} => Settled
    /\ r.pc \in Found => OnePending
    /\ r.pc \notin Resting \cup Found \cup {"findRun", "returning"} => Pending = {}
    /\ r.pc = "createApproval" => LastStep = "APPROVAL_REQUESTED"
    /\ r.pc = "decide" => r.held \in Pending

SentBy(i) == \E k \in DOMAIN performed : performed[k].by = i

\* The labels that only the LOOP or a pipeline itself reaches.
OwnTurnAt == {"loadTools", "loadMessages", "think", "recordDecision",
              "dispatch", "pipeline"} \cup Pausing

\* A click found the approval it decides; one on a pipeline's run does nothing
\* but execute the call held back there.
ClickOf(i, r) ==
    i # Starter =>
        /\ r.pc \notin {"markRunning", "recordInput"}
        /\ r.pc \in {"recordGranted", "markResumed", "connect"} => r.held # 0
        /\ r.mode = "HARNESS" =>
               /\ r.pc \notin OwnTurnAt
               /\ r.pc \in InCall => r.task = "heldBack"
               /\ r.pc \in {"recordCall", "recordCallStep", "markCompleted",
                            "recordCompleted"} => SentBy(i)

\* A call executed is recorded, or still in the hand that executed it.
Written == {toolCalls[k].call : k \in DOMAIN toolCalls}
InTransit == {Head(req[i].todo) : i \in {j \in Handlers : req[j].pc = "recordCall"}}

AuditInv ==
    /\ SerialInv
    /\ Done \subseteq Written \cup InTransit
    /\ Quiet => Settled
    /\ \A i \in Handlers : RowsOf(req[i]) /\ ClickOf(i, req[i])

\* A step of handler i while the others rest.
LEMMA AuditStep ==
    ASSUME AuditInv, SerialInv', NEW i \in Handlers,
           \A j \in Handlers \ {i} : req[j].pc \in Resting,
           req' = [req EXCEPT ![i] = req'[i]],
           Done' \subseteq Written' \cup InTransit',
           req'[i].pc \in Resting => Settled',
           RowsOf(req[i])', ClickOf(i, req[i])'
    PROVE  AuditInv'
<1>1. \A j \in Handlers \ {i} : req'[j] = req[j]
  BY DEF AuditInv, SerialInv, TypeInv, TypeOK
<1>2. ASSUME NEW j \in Handlers \ {i}  PROVE RowsOf(req[j])' /\ ClickOf(j, req[j])'
  BY <1>1 DEF RowsOf, ClickOf, Resting, Found, OwnTurnAt, Pausing, InCall
<1>3. Quiet' => Settled'
  BY DEF Quiet, Resting
<1> QED  BY <1>2, <1>3 DEF AuditInv

\* Calls already executed stay accounted for unless a handler leaves recordCall.
LEMMA RecordedKept ==
    ASSUME AuditInv, NEW i \in Handlers, AtWork(i), req[i].pc # "recordCall",
           performed' = performed, toolCalls' = toolCalls
    PROVE  Done' \subseteq Written' \cup InTransit'
<1>1. InTransit = {}
  BY Alone DEF AuditInv, InTransit
<1> QED  BY <1>1 DEF AuditInv, Done, Written

\* A step between two labels at which no approval is pending.
LEMMA AuditBusy ==
    ASSUME AuditInv, SerialInv', NEW i \in Handlers, AtWork(i),
           req' = [req EXCEPT ![i] = req'[i]],
           req[i].pc \notin Resting \cup Found \cup {"findRun", "returning"},
           req'[i].pc \notin Resting \cup Found \cup {"findRun", "returning",
                                                     "createApproval"},
           approvals' = approvals,
           Done' \subseteq Written' \cup InTransit',
           ClickOf(i, req[i])'
    PROVE  AuditInv'
<1>1. Pending' = {}
  BY DEF AuditInv, RowsOf, Pending
<1>2. RowsOf(req[i])'
  BY <1>1 DEF RowsOf, Found
<1> QED  BY <1>2, Alone, AuditStep DEF AuditInv, Resting

\* A handler that only moves on, and knows of a click what it knew.
LEMMA AuditMove ==
    ASSUME AuditInv, SerialInv', NEW i \in Handlers, AtWork(i), NEW l, Goto(i, l),
           req[i].pc \notin Found \cup {"findRun", "returning", "recordCall"},
           l \notin Resting \cup Found \cup {"findRun", "returning", "createApproval"},
           performed' = performed, toolCalls' = toolCalls, approvals' = approvals,
           ClickOf(i, [req[i] EXCEPT !.pc = l])
    PROVE  AuditInv'
<1>1. /\ req' = [req EXCEPT ![i] = req'[i]]
      /\ req'[i] = [req[i] EXCEPT !.pc = l]
  BY Rows DEF Goto, AuditInv, SerialInv
<1>2. ClickOf(i, req[i])'
  BY <1>1 DEF ClickOf, SentBy
<1>3. req'[i].pc = l
  BY <1>1, Rows DEF AuditInv, SerialInv, Request
<1> QED  BY <1>1, <1>2, <1>3, RecordedKept, AuditBusy DEF AtWork, Resting

\* A row appended is the last one.
LEMMA LastAppended ==
    ASSUME TypeInv, NEW step \in StepType, steps' = Append(steps, step)
    PROVE  LastStep' = step
<1>1. steps \in Seq(StepType) /\ Len(steps) \in Nat
  BY LenProperties DEF TypeInv, TypeOK, RowsOK
<1>2. /\ Append(steps, step) \in Seq(StepType)
      /\ Len(Append(steps, step)) = Len(steps) + 1
      /\ Append(steps, step)[Len(steps) + 1] = step
  BY <1>1, AppendProperties
<1>3. steps' # <<>>
  BY <1>1, <1>2, EmptySeq
<1> QED  BY <1>2, <1>3 DEF LastStep

\* A step that ends a run, to the last row of which it adds the explanation.
LEMMA AuditEnd ==
    ASSUME AuditInv, SerialInv', NEW i \in Handlers, NEW here, NEW step, NEW next,
           AddRunStep(i, here, step, next),
           \/ here = "recordCompleted" /\ step = "RUN_COMPLETED"
           \/ here = "recordFailed" /\ step = "RUN_FAILED"
           \/ here = "catchRecord" /\ step = "RUN_FAILED"
           \/ here = "recordCancelled" /\ step = "RUN_CANCELLED",
           next \in {"returning", "ended"}
    PROVE  AuditInv'
<1>1. /\ AtWork(i) /\ req[i].pc = here /\ Goto(i, next)
      /\ UNCHANGED <<run, approvals, performed, toolCalls>>
      /\ step \in StepType /\ steps' = Append(steps, step)
  BY DEF AddRunStep, At, AtWork, StepType
<1>2. /\ req' = [req EXCEPT ![i] = req'[i]]
      /\ req'[i].pc = next
      /\ req'[i].mode = req[i].mode
  BY <1>1, Rows DEF Goto, AuditInv, SerialInv, Request
<1>3. StatusFits(req[i].pc, run.status)
  BY DEF AuditInv, SerialInv
<1>4. LastStep' = Explanation(run'.status)
  BY <1>1, <1>3, LastAppended DEF StatusFits, Explanation, AuditInv, SerialInv
<1>5. Pending = {} /\ Pending' = Pending
  BY <1>1 DEF AuditInv, RowsOf, Found, Resting, Pending
<1>6. run'.status # "WAITING_FOR_APPROVAL"
  BY <1>1, <1>3 DEF StatusFits
<1>7. Settled'
  BY <1>4, <1>5, <1>6 DEF Settled, OnePending
<1>8. RowsOf(req[i])'
  BY <1>2, <1>7 DEF RowsOf, Resting, Found
<1>9. ClickOf(i, req[i])'
  BY <1>2 DEF ClickOf, OwnTurnAt, Pausing, InCall
<1> QED
  BY <1>1, <1>2, <1>7, <1>8, <1>9, RecordedKept, Alone, AuditStep
  DEF AuditInv, Resting

LEMMA AuditInit == Init => AuditInv
<1> SUFFICES ASSUME Init  PROVE AuditInv
  OBVIOUS
<1>0. SerialInv
  BY SerialInit
<1>1. Done = {}
  BY DEF Init, Done
<1>2. Settled
  BY DEF Init, Settled, OnePending, Pending, LastStep, Explanation
<1>3. ASSUME NEW i \in Handlers  PROVE RowsOf(req[i]) /\ ClickOf(i, req[i])
  BY DEF Init, IdleRequest, RowsOf, ClickOf, Found, Resting, OwnTurnAt, InCall
<1> QED  BY <1>0, <1>1, <1>2, <1>3 DEF AuditInv

\* Every action keeps AuditInv.
LEMMA AuditNext ==
    ASSUME ~Overlap, Faults \subseteq {"llm"}
    PROVE  AuditInv /\ [Next]_vars => AuditInv'
<1> SUFFICES ASSUME AuditInv, [Next]_vars  PROVE AuditInv'
  OBVIOUS
<1>0. SerialInv'
  BY SerialNext DEF AuditInv
<1>1. ASSUME NEW i \in Handlers, MarkRunning(i)
      PROVE  AuditInv'
  <2>1. AtWork(i) /\ ClickOf(i, req[i])
    BY <1>1 DEF MarkRunning, MarkRunStatus, At, AtWork, AuditInv
  <2>2. ASSUME NEW l  PROVE /\ [req[i] EXCEPT !.pc = l].pc = l
                            /\ [req[i] EXCEPT !.pc = l].mode = req[i].mode
                            /\ [req[i] EXCEPT !.pc = l].held = req[i].held
                            /\ [req[i] EXCEPT !.pc = l].task = req[i].task
    BY Rows DEF AuditInv, SerialInv, Request
  <2> QED
    BY <1>1, <1>0, <2>1, <2>2, AuditMove DEF MarkRunning, MarkRunStatus, At, ClickOf, Resting, Found, OwnTurnAt, Pausing, InCall
<1>2. ASSUME NEW i \in Handlers, MarkCompleted(i)
      PROVE  AuditInv'
  <2>1. AtWork(i) /\ ClickOf(i, req[i])
    BY <1>2 DEF MarkCompleted, MarkRunStatus, At, AtWork, AuditInv
  <2>2. ASSUME NEW l  PROVE /\ [req[i] EXCEPT !.pc = l].pc = l
                            /\ [req[i] EXCEPT !.pc = l].mode = req[i].mode
                            /\ [req[i] EXCEPT !.pc = l].held = req[i].held
                            /\ [req[i] EXCEPT !.pc = l].task = req[i].task
    BY Rows DEF AuditInv, SerialInv, Request
  <2> QED
    BY <1>2, <1>0, <2>1, <2>2, AuditMove DEF MarkCompleted, MarkRunStatus, At, ClickOf, Resting, Found, OwnTurnAt, Pausing, InCall
<1>3. ASSUME NEW i \in Handlers, MarkFailed(i)
      PROVE  AuditInv'
  <2>1. AtWork(i) /\ ClickOf(i, req[i])
    BY <1>3 DEF MarkFailed, MarkRunStatus, At, AtWork, AuditInv
  <2>2. ASSUME NEW l  PROVE /\ [req[i] EXCEPT !.pc = l].pc = l
                            /\ [req[i] EXCEPT !.pc = l].mode = req[i].mode
                            /\ [req[i] EXCEPT !.pc = l].held = req[i].held
                            /\ [req[i] EXCEPT !.pc = l].task = req[i].task
    BY Rows DEF AuditInv, SerialInv, Request
  <2> QED
    BY <1>3, <1>0, <2>1, <2>2, AuditMove DEF MarkFailed, MarkRunStatus, At, ClickOf, Resting, Found, OwnTurnAt, Pausing, InCall
<1>4. ASSUME NEW i \in Handlers, MarkCancelled(i)
      PROVE  AuditInv'
  <2>1. AtWork(i) /\ ClickOf(i, req[i])
    BY <1>4 DEF MarkCancelled, MarkRunStatus, At, AtWork, AuditInv
  <2>2. ASSUME NEW l  PROVE /\ [req[i] EXCEPT !.pc = l].pc = l
                            /\ [req[i] EXCEPT !.pc = l].mode = req[i].mode
                            /\ [req[i] EXCEPT !.pc = l].held = req[i].held
                            /\ [req[i] EXCEPT !.pc = l].task = req[i].task
    BY Rows DEF AuditInv, SerialInv, Request
  <2> QED
    BY <1>4, <1>0, <2>1, <2>2, AuditMove DEF MarkCancelled, MarkRunStatus, At, ClickOf, Resting, Found, OwnTurnAt, Pausing, InCall
<1>5. ASSUME NEW i \in Handlers, CatchFailed(i)
      PROVE  AuditInv'
  <2>1. AtWork(i) /\ ClickOf(i, req[i])
    BY <1>5 DEF CatchFailed, MarkRunStatus, At, AtWork, AuditInv
  <2>2. ASSUME NEW l  PROVE /\ [req[i] EXCEPT !.pc = l].pc = l
                            /\ [req[i] EXCEPT !.pc = l].mode = req[i].mode
                            /\ [req[i] EXCEPT !.pc = l].held = req[i].held
                            /\ [req[i] EXCEPT !.pc = l].task = req[i].task
    BY Rows DEF AuditInv, SerialInv, Request
  <2> QED
    BY <1>5, <1>0, <2>1, <2>2, AuditMove DEF CatchFailed, MarkRunStatus, At, ClickOf, Resting, Found, OwnTurnAt, Pausing, InCall
<1>6. ASSUME NEW i \in Handlers, MarkWaiting(i)
      PROVE  AuditInv'
  <2>1. AtWork(i) /\ ClickOf(i, req[i])
    BY <1>6 DEF MarkWaiting, MarkRunStatus, At, AtWork, AuditInv
  <2>2. ASSUME NEW l  PROVE /\ [req[i] EXCEPT !.pc = l].pc = l
                            /\ [req[i] EXCEPT !.pc = l].mode = req[i].mode
                            /\ [req[i] EXCEPT !.pc = l].held = req[i].held
                            /\ [req[i] EXCEPT !.pc = l].task = req[i].task
    BY Rows DEF AuditInv, SerialInv, Request
  <2> QED
    BY <1>6, <1>0, <2>1, <2>2, AuditMove DEF MarkWaiting, MarkRunStatus, At, ClickOf, Resting, Found, OwnTurnAt, Pausing, InCall
<1>7. ASSUME NEW i \in Handlers, MarkResumed(i)
      PROVE  AuditInv'
  <2>1. AtWork(i) /\ ClickOf(i, req[i])
    BY <1>7 DEF MarkResumed, MarkRunStatus, At, AtWork, AuditInv
  <2>2. ASSUME NEW l  PROVE /\ [req[i] EXCEPT !.pc = l].pc = l
                            /\ [req[i] EXCEPT !.pc = l].mode = req[i].mode
                            /\ [req[i] EXCEPT !.pc = l].held = req[i].held
                            /\ [req[i] EXCEPT !.pc = l].task = req[i].task
    BY Rows DEF AuditInv, SerialInv, Request
  <2> QED
    BY <1>7, <1>0, <2>1, <2>2, AuditMove DEF MarkResumed, MarkRunStatus, At, ClickOf, Resting, Found, OwnTurnAt, Pausing, InCall
<1>8. ASSUME NEW i \in Handlers, RecordInput(i)
      PROVE  AuditInv'
  <2>1. AtWork(i) /\ ClickOf(i, req[i])
    BY <1>8 DEF RecordInput, AddRunStep, At, AtWork, AuditInv
  <2>2. ASSUME NEW l  PROVE /\ [req[i] EXCEPT !.pc = l].pc = l
                            /\ [req[i] EXCEPT !.pc = l].mode = req[i].mode
                            /\ [req[i] EXCEPT !.pc = l].held = req[i].held
                            /\ [req[i] EXCEPT !.pc = l].task = req[i].task
    BY Rows DEF AuditInv, SerialInv, Request
  <2> QED
    BY <1>8, <1>0, <2>1, <2>2, AuditMove DEF RecordInput, AddRunStep, At, ClickOf, Resting, Found, OwnTurnAt, Pausing, InCall
<1>9. ASSUME NEW i \in Handlers, RecordGranted(i)
      PROVE  AuditInv'
  <2>1. AtWork(i) /\ ClickOf(i, req[i])
    BY <1>9 DEF RecordGranted, AddRunStep, At, AtWork, AuditInv
  <2>2. ASSUME NEW l  PROVE /\ [req[i] EXCEPT !.pc = l].pc = l
                            /\ [req[i] EXCEPT !.pc = l].mode = req[i].mode
                            /\ [req[i] EXCEPT !.pc = l].held = req[i].held
                            /\ [req[i] EXCEPT !.pc = l].task = req[i].task
    BY Rows DEF AuditInv, SerialInv, Request
  <2> QED
    BY <1>9, <1>0, <2>1, <2>2, AuditMove DEF RecordGranted, AddRunStep, At, ClickOf, Resting, Found, OwnTurnAt, Pausing, InCall
<1>10. ASSUME NEW i \in Handlers, ExceedSteps(i)
      PROVE  AuditInv'
  <2>1. AtWork(i) /\ ClickOf(i, req[i])
    BY <1>10 DEF ExceedSteps, db, At, AtWork, AuditInv
  <2>2. ASSUME NEW l  PROVE /\ [req[i] EXCEPT !.pc = l].pc = l
                            /\ [req[i] EXCEPT !.pc = l].mode = req[i].mode
                            /\ [req[i] EXCEPT !.pc = l].held = req[i].held
                            /\ [req[i] EXCEPT !.pc = l].task = req[i].task
    BY Rows DEF AuditInv, SerialInv, Request
  <2> QED
    BY <1>10, <1>0, <2>1, <2>2, AuditMove DEF ExceedSteps, db, At, ClickOf, Resting, Found, OwnTurnAt, Pausing, InCall
<1>11. ASSUME NEW i \in Handlers, FinishPipeline(i)
      PROVE  AuditInv'
  <2>1. AtWork(i) /\ ClickOf(i, req[i])
    BY <1>11 DEF FinishPipeline, db, At, AtWork, AuditInv
  <2>2. ASSUME NEW l  PROVE /\ [req[i] EXCEPT !.pc = l].pc = l
                            /\ [req[i] EXCEPT !.pc = l].mode = req[i].mode
                            /\ [req[i] EXCEPT !.pc = l].held = req[i].held
                            /\ [req[i] EXCEPT !.pc = l].task = req[i].task
    BY Rows DEF AuditInv, SerialInv, Request
  <2> QED
    BY <1>11, <1>0, <2>1, <2>2, AuditMove DEF FinishPipeline, db, At, ClickOf, Resting, Found, OwnTurnAt, Pausing, InCall
<1>12. ASSUME NEW i \in Handlers, SaveMessages(i)
      PROVE  AuditInv'
  <2>1. AtWork(i) /\ ClickOf(i, req[i])
    BY <1>12 DEF SaveMessages, db, At, AtWork, AuditInv
  <2>2. ASSUME NEW l  PROVE /\ [req[i] EXCEPT !.pc = l].pc = l
                            /\ [req[i] EXCEPT !.pc = l].mode = req[i].mode
                            /\ [req[i] EXCEPT !.pc = l].held = req[i].held
                            /\ [req[i] EXCEPT !.pc = l].task = req[i].task
    BY Rows DEF AuditInv, SerialInv, Request
  <2> QED
    BY <1>12, <1>0, <2>1, <2>2, AuditMove DEF SaveMessages, db, At, ClickOf, Resting, Found, OwnTurnAt, Pausing, InCall
<1>13. ASSUME NEW i \in Handlers, RecordCompleted(i)
      PROVE  AuditInv'
  BY <1>13, <1>0, AuditEnd DEF RecordCompleted
<1>14. ASSUME NEW i \in Handlers, RecordFailed(i)
      PROVE  AuditInv'
  BY <1>14, <1>0, AuditEnd DEF RecordFailed
<1>15. ASSUME NEW i \in Handlers, CatchRecord(i)
      PROVE  AuditInv'
  BY <1>15, <1>0, AuditEnd DEF CatchRecord
<1>16. ASSUME NEW i \in Handlers, RecordCancelled(i)
      PROVE  AuditInv'
  BY <1>16, <1>0, AuditEnd DEF RecordCancelled
<1>17. ASSUME NEW i \in Handlers, Throw(i)
      PROVE  AuditInv'
  <2>1. req[i].pc \in {"think", "pipeline"}
    BY <1>17 DEF Throw, FaultAt
  <2>2. Goto(i, "catchFailed") /\ UNCHANGED <<performed, toolCalls, approvals>>
    BY <1>17, <2>1 DEF Throw, db, BeforeTry, InCatch
  <2>3. [req[i] EXCEPT !.pc = "catchFailed"].pc = "catchFailed"
    BY Rows DEF AuditInv, SerialInv, Request
  <2> QED
    BY <1>0, <2>1, <2>2, <2>3, AuditMove DEF AtWork, ClickOf, Resting, Found, OwnTurnAt, Pausing, InCall
<1>18. ASSUME NEW i \in Handlers, LoadTools(i)
      PROVE  AuditInv'
  <2>1. /\ AtWork(i) /\ req[i].pc = "loadTools"
        /\ UNCHANGED <<approvals, performed, toolCalls>>
        /\ RowsOf(req[i]) /\ ClickOf(i, req[i])
    BY <1>18 DEF LoadTools, At, AtWork, db, AuditInv
  <2>2. /\ req' = [req EXCEPT ![i] = req'[i]]
        /\ req'[i].pc \in {"loadMessages", "think", "pipeline"}
        /\ req'[i].mode = req[i].mode
        /\ req'[i].held = req[i].held
    BY <1>18 DEF LoadTools, AuditInv, SerialInv, TypeInv, TypeOK, Request
  <2>8. Done' \subseteq Written' \cup InTransit'
    BY <2>1, RecordedKept
  <2>9. ClickOf(i, req[i])'
    BY <2>1, <2>2 DEF ClickOf, SentBy, Resting, Found, OwnTurnAt, Pausing, InCall
  <2> QED  BY <1>0, <2>1, <2>2, <2>8, <2>9, AuditBusy DEF Resting, Found, OwnTurnAt, Pausing, InCall
<1>19. ASSUME NEW i \in Handlers, LoadMessages(i)
      PROVE  AuditInv'
  <2>1. /\ AtWork(i) /\ req[i].pc = "loadMessages"
        /\ UNCHANGED <<approvals, performed, toolCalls>>
        /\ RowsOf(req[i]) /\ ClickOf(i, req[i])
    BY <1>19 DEF LoadMessages, At, AtWork, db, AuditInv
  <2>2. /\ req' = [req EXCEPT ![i] = req'[i]]
        /\ req'[i].pc = "think"
        /\ req'[i].mode = req[i].mode
        /\ req'[i].held = req[i].held
    BY <1>19 DEF LoadMessages, AuditInv, SerialInv, TypeInv, TypeOK, Request
  <2>8. Done' \subseteq Written' \cup InTransit'
    BY <2>1, RecordedKept
  <2>9. ClickOf(i, req[i])'
    BY <2>1, <2>2 DEF ClickOf, SentBy, Resting, Found, OwnTurnAt, Pausing, InCall
  <2> QED  BY <1>0, <2>1, <2>2, <2>8, <2>9, AuditBusy DEF Resting, Found, OwnTurnAt, Pausing, InCall
<1>20. ASSUME NEW i \in Handlers, Think(i)
      PROVE  AuditInv'
  <2>1. /\ AtWork(i) /\ req[i].pc = "think"
        /\ UNCHANGED <<approvals, performed, toolCalls>>
        /\ RowsOf(req[i]) /\ ClickOf(i, req[i])
    BY <1>20 DEF Think, At, AtWork, db, AuditInv
  <2>2. /\ req' = [req EXCEPT ![i] = req'[i]]
        /\ req'[i].pc = "recordDecision"
        /\ req'[i].mode = req[i].mode
        /\ req'[i].held = req[i].held
    BY <1>20 DEF Think, AuditInv, SerialInv, TypeInv, TypeOK, Request
  <2>8. Done' \subseteq Written' \cup InTransit'
    BY <2>1, RecordedKept
  <2>9. ClickOf(i, req[i])'
    BY <2>1, <2>2 DEF ClickOf, SentBy, Resting, Found, OwnTurnAt, Pausing, InCall
  <2> QED  BY <1>0, <2>1, <2>2, <2>8, <2>9, AuditBusy DEF Resting, Found, OwnTurnAt, Pausing, InCall
<1>21. ASSUME NEW i \in Handlers, RecordDecision(i)
      PROVE  AuditInv'
  <2>1. /\ AtWork(i) /\ req[i].pc = "recordDecision"
        /\ UNCHANGED <<approvals, performed, toolCalls>>
        /\ RowsOf(req[i]) /\ ClickOf(i, req[i])
    BY <1>21 DEF RecordDecision, At, AtWork, AuditInv
  <2>2. /\ req' = [req EXCEPT ![i] = req'[i]]
        /\ req'[i].pc \in {"dispatch", "markCompleted", "markFailed"}
        /\ req'[i].mode = req[i].mode
        /\ req'[i].held = req[i].held
    BY <1>21, DecisionRecorded DEF AuditInv, SerialInv
  <2>8. Done' \subseteq Written' \cup InTransit'
    BY <2>1, RecordedKept
  <2>9. ClickOf(i, req[i])'
    BY <2>1, <2>2 DEF ClickOf, SentBy, Resting, Found, OwnTurnAt, Pausing, InCall
  <2> QED  BY <1>0, <2>1, <2>2, <2>8, <2>9, AuditBusy DEF Resting, Found, OwnTurnAt, Pausing, InCall
<1>22. ASSUME NEW i \in Handlers, Dispatch(i)
      PROVE  AuditInv'
  <2>1. /\ AtWork(i) /\ req[i].pc = "dispatch"
        /\ UNCHANGED <<approvals, performed, toolCalls>>
        /\ RowsOf(req[i]) /\ ClickOf(i, req[i])
    BY <1>22 DEF Dispatch, At, AtWork, db, AuditInv
  <2>2. /\ req' = [req EXCEPT ![i] = req'[i]]
        /\ req'[i].pc \in {"think", "recordCall", "execute", "saveMessages"}
        /\ req'[i].mode = req[i].mode
        /\ req'[i].held = req[i].held
    BY <1>22 DEF Dispatch, Route, AuditInv, SerialInv, TypeInv, TypeOK, Request
  <2>8. Done' \subseteq Written' \cup InTransit'
    BY <2>1, RecordedKept
  <2>9. ClickOf(i, req[i])'
    BY <2>1, <2>2 DEF ClickOf, SentBy, Resting, Found, OwnTurnAt, Pausing, InCall
  <2> QED  BY <1>0, <2>1, <2>2, <2>8, <2>9, AuditBusy DEF Resting, Found, OwnTurnAt, Pausing, InCall
<1>23. ASSUME NEW i \in Handlers, Lookup(i)
      PROVE  AuditInv'
  <2>1. /\ AtWork(i) /\ req[i].pc = "pipeline"
        /\ UNCHANGED <<approvals, performed, toolCalls>>
        /\ RowsOf(req[i]) /\ ClickOf(i, req[i])
    BY <1>23 DEF Lookup, At, AtWork, db, AuditInv
  <2>0. PICK tool \in Tools \ Gated :
             req' = [req EXCEPT ![i].pc = Route(i, tool, "execute"), ![i].task = "lookup",
                                ![i].ok = FALSE, ![i].turn = @ + 1,
                                ![i].todo = Numbered(<<tool>>)]
    BY <1>23 DEF Lookup
  <2>2. /\ req' = [req EXCEPT ![i] = req'[i]]
        /\ req'[i].pc = Route(i, tool, "execute")
        /\ req'[i].mode = req[i].mode
        /\ req'[i].held = req[i].held
    BY <2>0 DEF AuditInv, SerialInv, TypeInv, TypeOK, Request
  <2>3. Route(i, tool, "execute") \in {"recordCall", "execute"}
    BY DEF Route
  <2>8. Done' \subseteq Written' \cup InTransit'
    BY <2>1, RecordedKept
  <2>9. ClickOf(i, req[i])'
    BY <2>1, <2>2, <2>3 DEF ClickOf, SentBy, Resting, Found, OwnTurnAt, Pausing, InCall
  <2> QED  BY <1>0, <2>1, <2>2, <2>3, <2>8, <2>9, AuditBusy DEF Resting, Found, OwnTurnAt, Pausing, InCall
<1>24. ASSUME NEW i \in Handlers, ProposeAction(i)
      PROVE  AuditInv'
  <2>1. /\ AtWork(i) /\ req[i].pc = "pipeline"
        /\ UNCHANGED <<approvals, performed, toolCalls>>
        /\ RowsOf(req[i]) /\ ClickOf(i, req[i])
    BY <1>24 DEF ProposeAction, At, AtWork, db, AuditInv
  <2>0. PICK tool \in Tools :
             req' = [req EXCEPT ![i].pc = Route(i, tool, "markWaiting"), ![i].task = "act",
                                ![i].ok = FALSE, ![i].todo = Numbered(<<tool>>)]
    BY <1>24 DEF ProposeAction
  <2>2. /\ req' = [req EXCEPT ![i] = req'[i]]
        /\ req'[i].pc = Route(i, tool, "markWaiting")
        /\ req'[i].mode = req[i].mode
        /\ req'[i].held = req[i].held
    BY <2>0 DEF AuditInv, SerialInv, TypeInv, TypeOK, Request
  <2>3. Route(i, tool, "markWaiting") \in {"recordCall", "execute", "markWaiting"}
    BY DEF Route
  <2>8. Done' \subseteq Written' \cup InTransit'
    BY <2>1, RecordedKept
  <2>9. ClickOf(i, req[i])'
    BY <2>1, <2>2, <2>3 DEF ClickOf, SentBy, Resting, Found, OwnTurnAt, Pausing, InCall
  <2> QED  BY <1>0, <2>1, <2>2, <2>3, <2>8, <2>9, AuditBusy DEF Resting, Found, OwnTurnAt, Pausing, InCall
<1>25. ASSUME NEW i \in Handlers, Connect(i)
      PROVE  AuditInv'
  <2>1. /\ AtWork(i) /\ req[i].pc = "connect"
        /\ UNCHANGED <<approvals, performed, toolCalls>>
        /\ RowsOf(req[i]) /\ ClickOf(i, req[i])
    BY <1>25 DEF Connect, At, AtWork, db, AuditInv
  <2>2. /\ req' = [req EXCEPT ![i] = req'[i]]
        /\ req'[i].mode = req[i].mode
        /\ \/ i = Starter /\ req'[i].pc = "loadTools"
           \/ i # Starter /\ req'[i].pc = "execute" /\ req'[i].task = "heldBack"
    <3>1. CASE i = Starter
      BY <1>25, <3>1 DEF Connect, Goto, AuditInv, SerialInv, TypeInv, TypeOK, Request
    <3>2. CASE i # Starter
      <4>1. req[i].held # 0
        BY <2>1, <3>2 DEF ClickOf
      <4> DEFINE call == approvals[req[i].held].call
      <4>2. req' = [req EXCEPT ![i].pc = "execute", ![i].task = "heldBack",
                               ![i].todo = <<call>>]
        BY <1>25, <3>2, <4>1 DEF Connect, HasHeldBack
      <4> HIDE DEF call
      <4> QED  BY <3>2, <4>2 DEF AuditInv, SerialInv, TypeInv, TypeOK, Request
    <3> QED  BY <3>1, <3>2
  <2>8. Done' \subseteq Written' \cup InTransit'
    BY <2>1, RecordedKept
  <2>9. ClickOf(i, req[i])'
    BY <2>1, <2>2 DEF ClickOf, SentBy, Resting, Found, OwnTurnAt, Pausing, InCall
  <2> QED  BY <1>0, <2>1, <2>2, <2>8, <2>9, AuditBusy DEF Resting, Found, OwnTurnAt, Pausing, InCall
<1>26. ASSUME NEW i \in Handlers, Execute(i)
      PROVE  AuditInv'
  <2>1. /\ AtWork(i) /\ req[i].pc = "execute"
        /\ UNCHANGED <<approvals, toolCalls>>
        /\ RowsOf(req[i]) /\ ClickOf(i, req[i])
    BY <1>26 DEF Execute, At, AtWork, db, AuditInv
  <2>2. /\ req' = [req EXCEPT ![i] = req'[i]]
        /\ req'[i].pc = "recordCall"
        /\ req'[i].mode = req[i].mode
        /\ req'[i].task = req[i].task
        /\ req'[i].todo = req[i].todo
    <3>1. PICK ok \in BOOLEAN :
               req' = [req EXCEPT ![i].pc = "recordCall", ![i].ok = ok]
      BY <1>26 DEF Execute
    <3> QED  BY <3>1 DEF AuditInv, SerialInv, TypeInv, TypeOK, Request
  <2> DEFINE call == Head(req[i].todo)
             last == Len(performed) + 1
  <2>3. /\ DOMAIN performed' = DOMAIN performed \cup {last}
        /\ \A k \in DOMAIN performed : performed'[k] = performed[k]
        /\ performed'[last].call = call
        /\ performed'[last].by = i
    BY <1>26, CallPerformed DEF AuditInv, SerialInv
  <2>4. call \in InTransit'
    BY <2>2 DEF InTransit
  <2> HIDE DEF call, last
  <2>5. Done' = Done \cup {call}
    BY <2>3 DEF Done
  <2>6. InTransit = {}
    BY <2>1, Alone DEF AuditInv, InTransit
  <2>8. Done' \subseteq Written' \cup InTransit'
    BY <2>1, <2>4, <2>5, <2>6 DEF AuditInv, Written
  <2>7. SentBy(i)'
    BY <2>3 DEF SentBy
  <2>9. ClickOf(i, req[i])'
    BY <2>1, <2>2, <2>7 DEF ClickOf, Resting, Found, OwnTurnAt, Pausing, InCall
  <2> QED  BY <1>0, <2>1, <2>2, <2>8, <2>9, AuditBusy DEF Resting, Found, OwnTurnAt, Pausing, InCall
<1>27. ASSUME NEW i \in Handlers, RecordCall(i)
      PROVE  AuditInv'
  <2>1. /\ AtWork(i) /\ req[i].pc = "recordCall" /\ req[i].todo # <<>>
        /\ UNCHANGED <<approvals, performed>>
        /\ toolCalls' = Append(toolCalls, [call |-> Head(req[i].todo), ok |-> req[i].ok])
        /\ RowsOf(req[i]) /\ ClickOf(i, req[i])
    BY <1>27 DEF RecordCall, At, AtWork, AuditInv, SerialInv, TypeInv, CallInHand, InHand
  <2>2. /\ req' = [req EXCEPT ![i] = req'[i]]
        /\ req'[i].pc = "recordCallStep"
        /\ req'[i].mode = req[i].mode
        /\ req'[i].task = req[i].task
    BY <1>27 DEF RecordCall, Goto, AuditInv, SerialInv, TypeInv, TypeOK, Request
  <2>3. InTransit \subseteq {Head(req[i].todo)}
    BY <2>1, Alone DEF AuditInv, InTransit
  <2>4. Written' = Written \cup {Head(req[i].todo)}
    <3> DEFINE Row == [call : Call, ok : BOOLEAN]
               new == [call |-> Head(req[i].todo), ok |-> req[i].ok]
               last == Len(toolCalls) + 1
    <3>1. toolCalls \in Seq(Row)
      BY DEF AuditInv, SerialInv, TypeInv, TypeOK, RowsOK
    <3>2. new \in Row /\ new.call = Head(req[i].todo)
      BY <2>1, InHandTyped DEF AuditInv, SerialInv, TypeInv, TypeOK, Request
    <3> HIDE DEF Row, new
    <3>3. /\ Append(toolCalls, new) \in Seq(Row)
          /\ Len(Append(toolCalls, new)) = last
          /\ Append(toolCalls, new)[last] = new
          /\ \A k \in 1 .. Len(toolCalls) : Append(toolCalls, new)[k] = toolCalls[k]
      BY <3>1, <3>2, AppendProperties
    <3>4. /\ DOMAIN toolCalls = 1 .. Len(toolCalls)
          /\ Len(toolCalls) \in Nat
          /\ DOMAIN Append(toolCalls, new) = 1 .. last
      BY <3>1, <3>3, LenProperties
    <3>5. toolCalls' = Append(toolCalls, new)
      BY <2>1 DEF new
    <3>6. /\ DOMAIN toolCalls' = DOMAIN toolCalls \cup {last}
          /\ \A k \in DOMAIN toolCalls : toolCalls'[k] = toolCalls[k]
          /\ toolCalls'[last] = new
      BY <3>3, <3>4, <3>5
    <3> QED  BY <3>2, <3>6 DEF Written
  <2>8. Done' \subseteq Written' \cup InTransit'
    BY <2>1, <2>3, <2>4 DEF AuditInv, Done
  <2>9. ClickOf(i, req[i])'
    BY <2>1, <2>2 DEF ClickOf, SentBy, Resting, Found, OwnTurnAt, Pausing, InCall
  <2> QED  BY <1>0, <2>1, <2>2, <2>8, <2>9, AuditBusy DEF Resting, Found, OwnTurnAt, Pausing, InCall
<1>28. ASSUME NEW i \in Handlers, RecordCallStep(i)
      PROVE  AuditInv'
  <2>1. /\ AtWork(i) /\ req[i].pc = "recordCallStep"
        /\ UNCHANGED <<approvals, performed, toolCalls>>
        /\ RowsOf(req[i]) /\ ClickOf(i, req[i])
    BY <1>28 DEF RecordCallStep, At, AtWork, AuditInv
  <2>2. /\ req' = [req EXCEPT ![i] = req'[i]]
        /\ req'[i].pc = AfterCall(i)
        /\ req'[i].mode = req[i].mode
    BY <1>28 DEF RecordCallStep, AuditInv, SerialInv, TypeInv, TypeOK, Request
  <2>3. /\ AfterCall(i) \in {"dispatch", "pipeline", "markCompleted", "markFailed", "loadTools"}
        /\ req[i].task = "heldBack" /\ req[i].mode = "HARNESS" =>
               AfterCall(i) \in {"markCompleted", "markFailed"}
    BY DEF AfterCall, AfterHeldBack
  <2>8. Done' \subseteq Written' \cup InTransit'
    BY <2>1, RecordedKept
  <2>9. ClickOf(i, req[i])'
    BY <2>1, <2>2, <2>3 DEF ClickOf, SentBy, Resting, Found, OwnTurnAt, Pausing, InCall
  <2> QED  BY <1>0, <2>1, <2>2, <2>3, <2>8, <2>9, AuditBusy DEF Resting, Found, OwnTurnAt, Pausing, InCall
<1>29. ASSUME NEW i \in Handlers, RecordRequest(i)
      PROVE  AuditInv'
  <2>1. /\ AtWork(i) /\ req[i].pc = "recordRequest"
        /\ UNCHANGED <<approvals, performed, toolCalls>>
        /\ RowsOf(req[i]) /\ ClickOf(i, req[i])
        /\ steps' = Append(steps, "APPROVAL_REQUESTED")
    BY <1>29 DEF RecordRequest, AddRunStep, At, AtWork, AuditInv
  <2>2. /\ req' = [req EXCEPT ![i] = req'[i]]
        /\ req'[i].pc = "createApproval"
        /\ req'[i].mode = req[i].mode
    BY <1>29 DEF RecordRequest, AddRunStep, Goto, AuditInv, SerialInv, TypeInv, TypeOK, Request
  <2>3. LastStep' = "APPROVAL_REQUESTED"
    BY <2>1, LastAppended DEF StepType, AuditInv, SerialInv
  <2>4. Pending' = {}
    BY <2>1 DEF RowsOf, Pending, Resting, Found, OwnTurnAt, Pausing, InCall
  <2>7. RowsOf(req[i])'
    BY <2>2, <2>3, <2>4 DEF RowsOf, Resting, Found, OwnTurnAt, Pausing, InCall
  <2>8. Done' \subseteq Written' \cup InTransit'
    BY <2>1, RecordedKept
  <2>9. ClickOf(i, req[i])'
    BY <2>1, <2>2 DEF ClickOf, Resting, Found, OwnTurnAt, Pausing, InCall
  <2> QED
    BY <1>0, <2>1, <2>2, <2>7, <2>8, <2>9, Alone, AuditStep DEF AuditInv, Resting, Found, OwnTurnAt, Pausing, InCall
<1>30. ASSUME NEW i \in Handlers, CreateApproval(i)
      PROVE  AuditInv'
  <2>1. /\ AtWork(i) /\ req[i].pc = "createApproval"
        /\ UNCHANGED <<run, steps, performed, toolCalls>>
        /\ RowsOf(req[i]) /\ ClickOf(i, req[i])
    BY <1>30 DEF CreateApproval, At, AtWork, AuditInv
  <2>2. /\ req' = [req EXCEPT ![i] = req'[i]]
        /\ req'[i].pc = "returning"
        /\ req'[i].mode = req[i].mode
    BY <1>30 DEF CreateApproval, Goto, AuditInv, SerialInv, TypeInv, TypeOK, Request
  <2> DEFINE last == Len(approvals) + 1
  <2>3. /\ last \notin DOMAIN approvals
        /\ DOMAIN approvals' = DOMAIN approvals \cup {last}
        /\ \A k \in DOMAIN approvals : approvals'[k] = approvals[k]
        /\ approvals'[last] = [call |-> Head(req[i].todo), status |-> "PENDING"]
    BY <1>30, ApprovalAdded DEF AuditInv, SerialInv
  <2> HIDE DEF last
  <2>4. Pending = {}
    BY <2>1 DEF RowsOf, Resting, Found, OwnTurnAt, Pausing, InCall
  <2>5. Pending' = {last}
    <3>1. approvals'[last].status = "PENDING"
      BY <2>3
    <3> QED  BY <2>3, <2>4, <3>1 DEF Pending
  <2>6. run.status = "WAITING_FOR_APPROVAL" /\ LastStep' = "APPROVAL_REQUESTED"
    BY <2>1 DEF RowsOf, LastStep, AuditInv, SerialInv, StatusFits, WaitingAt
  <2>7. Settled'
    BY <2>1, <2>5, <2>6 DEF Settled, OnePending, Explanation
  <2>8. Done' \subseteq Written' \cup InTransit'
    BY <2>1, RecordedKept
  <2>9. ClickOf(i, req[i])'
    BY <2>1, <2>2 DEF ClickOf, Resting, Found, OwnTurnAt, Pausing, InCall
  <2>10. RowsOf(req[i])'
    BY <2>2, <2>7 DEF RowsOf, Resting, Found, OwnTurnAt, Pausing, InCall
  <2> QED
    BY <1>0, <2>1, <2>2, <2>8, <2>9, <2>10, Alone, AuditStep DEF AuditInv, Resting, Found, OwnTurnAt, Pausing, InCall
<1>31. ASSUME NEW i \in Handlers, Return(i)
      PROVE  AuditInv'
  <2>1. /\ AtWork(i) /\ req[i].pc = "returning"
        /\ UNCHANGED <<run, steps, approvals, performed, toolCalls>>
        /\ RowsOf(req[i]) /\ ClickOf(i, req[i])
    BY <1>31 DEF Return, At, AtWork, db, AuditInv
  <2>2. /\ req' = [req EXCEPT ![i] = req'[i]]
        /\ req'[i].pc = "ended"
    BY <1>31 DEF Return, Goto, AuditInv, SerialInv, TypeInv, TypeOK, Request
  <2>3. Settled' = Settled /\ OnePending' = OnePending /\ Pending' = Pending
    BY <2>1 DEF Settled, OnePending, Pending, LastStep
  <2>8. Done' \subseteq Written' \cup InTransit'
    BY <2>1, RecordedKept
  <2>9. RowsOf(req[i])' /\ ClickOf(i, req[i])' /\ Settled'
    BY <2>1, <2>2, <2>3 DEF RowsOf, ClickOf, Resting, Found, OwnTurnAt, Pausing, InCall
  <2> QED  BY <1>0, <2>1, <2>2, <2>8, <2>9, Alone, AuditStep DEF AuditInv, Resting, Found, OwnTurnAt, Pausing, InCall
<1>32. ASSUME NEW i \in Handlers, FindRun(i)
      PROVE  AuditInv'
  <2>1. /\ AtWork(i) /\ req[i].pc = "findRun"
        /\ UNCHANGED <<run, steps, approvals, performed, toolCalls>>
        /\ RowsOf(req[i]) /\ ClickOf(i, req[i])
    BY <1>32 DEF FindRun, At, AtWork, db, AuditInv
  <2>2. /\ req' = [req EXCEPT ![i] = req'[i]]
        /\ req'[i].pc \in {"findApproval", "ended"}
    BY <1>32 DEF FindRun, AuditInv, SerialInv, TypeInv, TypeOK, Request
  <2>3. Settled' = Settled /\ OnePending' = OnePending /\ Pending' = Pending
    BY <2>1 DEF Settled, OnePending, Pending, LastStep
  <2>8. Done' \subseteq Written' \cup InTransit'
    BY <2>1, RecordedKept
  <2>9. RowsOf(req[i])' /\ ClickOf(i, req[i])' /\ Settled'
    BY <2>1, <2>2, <2>3 DEF RowsOf, ClickOf, Settled, Resting, Found, OwnTurnAt, Pausing, InCall
  <2> QED  BY <1>0, <2>1, <2>2, <2>8, <2>9, Alone, AuditStep DEF AuditInv, Resting, Found, OwnTurnAt, Pausing, InCall
<1>33. ASSUME NEW i \in Handlers, FindApproval(i)
      PROVE  AuditInv'
  <2>1. /\ AtWork(i) /\ req[i].pc = "findApproval"
        /\ UNCHANGED <<run, steps, approvals, performed, toolCalls>>
        /\ RowsOf(req[i]) /\ ClickOf(i, req[i])
    BY <1>33 DEF FindApproval, At, AtWork, db, AuditInv
  <2>2. /\ req' = [req EXCEPT ![i] = req'[i]]
        /\ req'[i].held = LatestPending
        /\ req'[i].pc = IF LatestPending = 0 THEN AfterDecision(i) ELSE "decide"
    BY <1>33 DEF FindApproval, AuditInv, SerialInv, TypeInv, TypeOK, Request
  <2>3. Settled' = Settled /\ OnePending' = OnePending /\ Pending' = Pending
    BY <2>1 DEF Settled, OnePending, Pending, LastStep
  <2>8. Done' \subseteq Written' \cup InTransit'
    BY <2>1, RecordedKept
  <2>4. Pending # {}
    BY <2>1 DEF RowsOf, OnePending, AuditInv, SerialInv, StatusFits, WaitingAt, Resting, Found, OwnTurnAt, Pausing, InCall
  <2>5. LatestPending \in Pending /\ LatestPending # 0
    <3>1. DOMAIN approvals = 1 .. Len(approvals) /\ Len(approvals) \in Nat
      BY LenProperties DEF AuditInv, SerialInv, TypeInv, TypeOK, RowsOK
    <3>2. LatestPending = CHOOSE k \in Pending : \A j \in Pending : j <= k
      BY <2>4 DEF LatestPending, Pending
    <3>3. \E k \in Pending : \A j \in Pending : j <= k
      BY <2>4, <3>1, GreatestIndex DEF Pending
    <3>4. LatestPending \in Pending
      BY <3>2, <3>3
    <3> QED  BY <3>1, <3>4 DEF Pending
  <2>9. RowsOf(req[i])' /\ ClickOf(i, req[i])'
    BY <2>1, <2>2, <2>3, <2>5 DEF RowsOf, ClickOf, Resting, Found, OwnTurnAt, Pausing, InCall
  <2> QED  BY <1>0, <2>1, <2>2, <2>5, <2>8, <2>9, Alone, AuditStep DEF AuditInv, Resting, Found, OwnTurnAt, Pausing, InCall
<1>34. ASSUME NEW i \in Handlers, Decide(i)
      PROVE  AuditInv'
  <2>1. /\ AtWork(i) /\ req[i].pc = "decide"
        /\ UNCHANGED <<run, steps, performed, toolCalls>>
        /\ RowsOf(req[i]) /\ ClickOf(i, req[i])
    BY <1>34 DEF Decide, At, AtWork, db, AuditInv
  <2>2. /\ req' = [req EXCEPT ![i] = req'[i]]
        /\ req'[i].held = req[i].held
        /\ req'[i].mode = req[i].mode
        /\ req'[i].pc = AfterDecision(i)
    BY <1>34 DEF Decide, Goto, AuditInv, SerialInv, TypeInv, TypeOK, Request
  <2>3. /\ req[i].held # 0 /\ req[i].held \in Pending
        /\ req[i].choice \in Choices
    BY <2>1 DEF RowsOf, AuditInv, SerialInv, TypeInv, TypeOK, CallInHand, Request
  <2>4. Pending = {req[i].held}
    BY <2>1, <2>3 DEF RowsOf, OnePending, Resting, Found, OwnTurnAt, Pausing, InCall
  <2>5. /\ DOMAIN approvals' = DOMAIN approvals
        /\ \A k \in DOMAIN approvals :
               approvals'[k].status = IF k = req[i].held THEN req[i].choice
                                      ELSE approvals[k].status
    BY <1>34, DecisionWritten DEF AuditInv, SerialInv
  <2>6. Pending' = {}
    <3>1. req[i].choice # "PENDING"
      BY <2>3 DEF Choices
    <3> QED  BY <2>4, <2>5, <3>1 DEF Pending
  <2>7. AfterDecision(i) \in {"recordGranted", "markCancelled"}
    BY DEF AfterDecision
  <2>8. Done' \subseteq Written' \cup InTransit'
    BY <2>1, RecordedKept
  <2>9. RowsOf(req[i])' /\ ClickOf(i, req[i])'
    BY <2>2, <2>3, <2>6, <2>7 DEF RowsOf, ClickOf, Resting, Found, OwnTurnAt, Pausing, InCall
  <2> QED  BY <1>0, <2>1, <2>2, <2>7, <2>8, <2>9, Alone, AuditStep DEF AuditInv, Resting, Found, OwnTurnAt, Pausing, InCall
<1>35. ASSUME NEW i \in Handlers, CreateRun(i)
      PROVE  AuditInv'
  <2>1. /\ \A j \in Handlers : req[j].pc = "idle"
        /\ i = Starter /\ run.status = "NONE"
        /\ UNCHANGED <<approvals, performed, toolCalls>>
    BY <1>35 DEF CreateRun, At, AuditInv, SerialInv, Created
  <2>2. /\ req' = [req EXCEPT ![i] = req'[i]]
        /\ req'[i].pc = "markRunning"
    BY <1>35 DEF CreateRun, AuditInv, SerialInv, TypeInv, TypeOK, Request
  <2>3. Pending = {} /\ Pending' = {}
    <3>1. Settled
      BY <2>1 DEF AuditInv, Quiet
    <3> QED  BY <2>1, <3>1 DEF Settled, OnePending, Pending
  <2>4. InTransit = {}
    BY <2>1 DEF InTransit
  <2>8. Done' \subseteq Written' \cup InTransit'
    BY <2>1, <2>4 DEF AuditInv, Done, Written
  <2>9. RowsOf(req[i])' /\ ClickOf(i, req[i])'
    BY <2>1, <2>2, <2>3 DEF RowsOf, ClickOf, Resting, Found, OwnTurnAt, Pausing, InCall
  <2> QED  BY <1>0, <2>1, <2>2, <2>8, <2>9, AuditStep DEF Resting, Found, OwnTurnAt, Pausing, InCall
<1>36. ASSUME NEW i \in Handlers, StartDecision(i)
      PROVE  AuditInv'
  <2>1. /\ Quiet /\ i # Starter
        /\ UNCHANGED <<run, steps, approvals, performed, toolCalls>>
    BY <1>36 DEF StartDecision, db
  <2>2. /\ req' = [req EXCEPT ![i] = req'[i]]
        /\ req'[i].pc = "findRun"
    <3>1. PICK choice \in Choices :
               req' = [req EXCEPT ![i].pc = "findRun", ![i].choice = choice]
      BY <1>36 DEF StartDecision
    <3> QED  BY <3>1 DEF AuditInv, SerialInv, TypeInv, TypeOK, Request
  <2>3. Settled'
    BY <2>1 DEF AuditInv, Settled, OnePending, Pending, LastStep
  <2>4. InTransit = {}
    BY <2>1 DEF InTransit, Quiet
  <2>8. Done' \subseteq Written' \cup InTransit'
    BY <2>1, <2>4 DEF AuditInv, Done, Written
  <2>9. RowsOf(req[i])' /\ ClickOf(i, req[i])'
    BY <2>2, <2>3 DEF RowsOf, ClickOf, Resting, Found, OwnTurnAt, Pausing, InCall
  <2> QED  BY <1>0, <2>1, <2>2, <2>8, <2>9, AuditStep DEF Quiet, Resting, Found, OwnTurnAt, Pausing, InCall
<1>37. ASSUME EditAgent
      PROVE  AuditInv'
  <2>1. UNCHANGED <<run, steps, approvals, performed, toolCalls, req>>
    BY <1>37 DEF EditAgent
  <2>2. Settled' = Settled /\ OnePending' = OnePending /\ Pending' = Pending
    BY <2>1 DEF Settled, OnePending, Pending, LastStep
  <2>3. ASSUME NEW i \in Handlers  PROVE RowsOf(req[i])' /\ ClickOf(i, req[i])'
    <3>1. RowsOf(req[i]) /\ ClickOf(i, req[i])
      BY DEF AuditInv
    <3> QED  BY <2>1, <2>2, <3>1 DEF RowsOf, ClickOf, SentBy, LastStep
  <2>4. Done' \subseteq Written' \cup InTransit' /\ (Quiet' => Settled')
    BY <2>1, <2>2 DEF AuditInv, Done, Written, InTransit, Quiet
  <2> QED  BY <1>0, <2>3, <2>4 DEF AuditInv
<1>38. CASE UNCHANGED vars
  <2>1. UNCHANGED <<run, steps, approvals, performed, toolCalls, req>>
    BY <1>38 DEF vars
  <2>2. Settled' = Settled /\ OnePending' = OnePending /\ Pending' = Pending
    BY <2>1 DEF Settled, OnePending, Pending, LastStep
  <2>3. ASSUME NEW i \in Handlers  PROVE RowsOf(req[i])' /\ ClickOf(i, req[i])'
    <3>1. RowsOf(req[i]) /\ ClickOf(i, req[i])
      BY DEF AuditInv
    <3> QED  BY <2>1, <2>2, <3>1 DEF RowsOf, ClickOf, SentBy, LastStep
  <2>4. Done' \subseteq Written' \cup InTransit' /\ (Quiet' => Settled')
    BY <2>1, <2>2 DEF AuditInv, Done, Written, InTransit, Quiet
  <2> QED  BY <1>0, <2>3, <2>4 DEF AuditInv
<1>39. \A i \in Handlers : ~Crash(i)
  BY DEF Crash
<1> QED
  BY
     <1>0, <1>1, <1>2, <1>3, <1>4, <1>5, <1>6, <1>7, <1>8, <1>9, <1>10,
     <1>11, <1>12, <1>13, <1>14, <1>15, <1>16, <1>17, <1>18, <1>19,
     <1>20, <1>21, <1>22, <1>23, <1>24, <1>25, <1>26, <1>27, <1>28,
     <1>29, <1>30, <1>31, <1>32, <1>33, <1>34, <1>35, <1>36, <1>37,
     <1>38, <1>39
  DEF Next, Work

\* The rows of a run agree with its status once every handler has stopped, a
\* pipeline reports as sent what was sent, and every call executed has its row,
\* when decisions arrive one at a time and only calls to the model may fail; the
\* agent may be edited meanwhile.
THEOREM AuditAlwaysTrue ==
    ASSUME ~Overlap, Faults \subseteq {"llm"}
    PROVE  Spec => []AuditTrue
<1>1. AuditInv => AuditTrue
  <2> SUFFICES ASSUME AuditInv  PROVE AuditTrue
    OBVIOUS
  <2>1. AuditMatchesStatus
    BY DEF AuditInv, Settled, Explanation, AuditMatchesStatus
  <2>2. SentMeansSent
    <3>1. \A i \in Deciders : i \in Handlers /\ i # Starter
      BY HandlersAssumption DEF Handlers
    <3> QED  BY <3>1 DEF AuditInv, ClickOf, SentBy, SentMeansSent, At
  <2>3. EveryCallRecorded
    <3>1. Quiet => InTransit = {}
      BY DEF Quiet, InTransit
    <3> QED  BY <3>1 DEF AuditInv, Done, Written, EveryCallRecorded
  <2> QED  BY <2>1, <2>2, <2>3 DEF AuditTrue
<1> QED  BY <1>1, AuditInit, AuditNext, PTL DEF Spec

\* Under the same conditions a run that rests waits for approval exactly if
\* there is a pending approval, and there are never two.
THEOREM WaitingAlwaysPending ==
    ASSUME ~Overlap, Faults \subseteq {"llm"}
    PROVE  Spec => []WaitingMeansPending
<1>1. AuditInv => WaitingMeansPending
  <2> SUFFICES ASSUME AuditInv, Quiet
               PROVE  Cardinality(Pending) =
                          IF run.status = "WAITING_FOR_APPROVAL" THEN 1 ELSE 0
    BY DEF WaitingMeansPending, Pending
  <2>1. OnePending
    BY DEF AuditInv, Settled
  <2>2. CASE run.status = "WAITING_FOR_APPROVAL"
    <3>1. PICK k \in Pending : Pending = {k}
      BY <2>1, <2>2 DEF OnePending
    <3> QED  BY <2>2, <3>1, FS_Singleton
  <2>3. CASE run.status # "WAITING_FOR_APPROVAL"
    BY <2>1, <2>3, FS_EmptySet DEF OnePending
  <2> QED  BY <2>2, <2>3
<1> QED  BY <1>1, AuditInit, AuditNext, PTL DEF Spec
=============================================================================
