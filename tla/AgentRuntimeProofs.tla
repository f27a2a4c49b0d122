------------------------- MODULE AgentRuntimeProofs -------------------------
(***************************************************************************)
(* Proofs about AgentRuntime for every set of handlers and tools, every    *)
(* bound, and every setting of Editable and Faults.  The theorems from     *)
(* ResumedWaitingWhenSerial to AlwaysImplementsGate assume that decisions  *)
(* arrive one at a time, that is ~Overlap; those before and after do not.  *)
(***************************************************************************)
EXTENDS AgentRuntime, FiniteSetTheorems, SequenceTheorems, WellFoundedInduction, TLAPS

-----------------------------------------------------------------------------
(* Type correctness.                                                        *)

\* The labels at which a handler has a call in hand: the head of todo.
InHand == {"execute", "recordCall", "recordCallStep", "saveMessages",
           "markWaiting", "recordRequest", "createApproval"}

\* A handler that is about to execute, record or propose a call has one, and
\* the approval it decides exists.
CallInHand ==
    \A i \in Handlers :
        /\ req[i].pc \in InHand => req[i].todo # <<>>
        /\ req[i].held # 0 => req[i].held \in DOMAIN approvals
        /\ req[i].pc = "decide" => req[i].held # 0

TypeInv == TypeOK /\ CallInHand

\* The calls of an answer are calls.
LEMMA NumberedType ==
    ASSUME TypeOK, NEW tools \in Seq(Tools)
    PROVE  /\ Numbered(tools) \in Seq(Call)
           /\ Len(Numbered(tools)) = Len(tools)
<1>1. /\ DOMAIN tools = 1 .. Len(tools)
      /\ Len(tools) \in Nat
  BY LenProperties
<1>2. ASSUME NEW k \in 1 .. Len(tools)
      PROVE  [tool |-> tools[k], n |-> asked + k] \in Call
  <2>1. tools[k] \in Tools
    BY ElementOfSeq
  <2>2. asked + k \in Nat
    BY <1>1 DEF TypeOK, RowsOK
  <2> QED  BY <2>1, <2>2 DEF Call
<1>3. Numbered(tools) \in [1 .. Len(tools) -> Call]
  BY <1>1, <1>2 DEF Numbered
<1> QED  BY <1>1, <1>3, SeqDef, LenProperties

\* Every answer of the model is a sequence of tools with at least one call.
LEMMA AnswersType ==
    ASSUME NEW answer \in Answers
    PROVE  answer \in Seq(Tools) /\ Len(answer) \in Nat \ {0}
<1>1. PICK n \in 1 .. MaxCalls : answer \in [1 .. n -> Tools]
  BY DEF Answers
<1>2. n \in Nat \ {0}
  BY BoundsAssumption
<1>3. answer \in Seq(Tools)
  BY <1>1, <1>2, SeqDef
<1>4. Len(answer) = n
  BY <1>1, <1>2, <1>3, LenProperties
<1> QED  BY <1>2, <1>3, <1>4

\* Moving a handler to a label leaves everything else about it alone.
LEMMA GotoType ==
    ASSUME TypeOK, NEW i \in Handlers, NEW l \in Label, Goto(i, l)
    PROVE  /\ req' \in [Handlers -> Request]
           /\ req'[i].pc = l
           /\ req'[i].todo = req[i].todo
           /\ req'[i].held = req[i].held
           /\ req'[i].choice = req[i].choice
           /\ \A j \in Handlers \ {i} : req'[j] = req[j]
  BY DEF TypeOK, Goto, Request

\* The two generic steps of the repository keep TypeInv.
LEMMA MarkRunStatusType ==
    ASSUME TypeInv, NEW i \in Handlers, NEW here, NEW status \in Status,
           NEW next \in Label, here \in InHand \/ next \notin InHand,
           next # "decide", MarkRunStatus(i, here, status, next)
    PROVE  TypeInv'
<1> USE DEF TypeInv
<1>1. Goto(i, next)
  BY DEF MarkRunStatus
<1>2. TypeOK'
  BY <1>1, GotoType DEF MarkRunStatus, TypeOK, RowsOK
<1>3. CallInHand'
  <2> SUFFICES ASSUME NEW j \in Handlers
               PROVE  /\ req[j].pc' \in InHand => req[j].todo' # <<>>
                      /\ req[j].held' # 0 => req[j].held' \in DOMAIN approvals'
                      /\ req[j].pc' = "decide" => req[j].held' # 0
    BY DEF CallInHand
  <2>1. approvals' = approvals /\ req[i].pc = here
    BY DEF MarkRunStatus, At
  <2>2. CASE j = i
    BY <1>1, <2>1, <2>2, GotoType DEF CallInHand
  <2>3. CASE j # i
    BY <1>1, <2>1, <2>3, GotoType DEF CallInHand
  <2> QED  BY <2>2, <2>3
<1> QED  BY <1>2, <1>3

\* An AddRunStep to a well-typed place keeps TypeInv.
LEMMA AddRunStepType ==
    ASSUME TypeInv, NEW i \in Handlers, NEW here, NEW step \in StepType,
           NEW next \in Label, here \in InHand \/ next \notin InHand,
           next # "decide", AddRunStep(i, here, step, next)
    PROVE  TypeInv'
<1> USE DEF TypeInv
<1>1. Goto(i, next)
  BY DEF AddRunStep
<1>2. TypeOK'
  BY <1>1, GotoType, AppendProperties DEF AddRunStep, TypeOK, RowsOK
<1>3. CallInHand'
  <2> SUFFICES ASSUME NEW j \in Handlers
               PROVE  /\ req[j].pc' \in InHand => req[j].todo' # <<>>
                      /\ req[j].held' # 0 => req[j].held' \in DOMAIN approvals'
                      /\ req[j].pc' = "decide" => req[j].held' # 0
    BY DEF CallInHand
  <2>1. approvals' = approvals /\ req[i].pc = here
    BY DEF AddRunStep, At
  <2>2. CASE j = i
    BY <1>1, <2>1, <2>2, GotoType DEF CallInHand
  <2>3. CASE j # i
    BY <1>1, <2>1, <2>3, GotoType DEF CallInHand
  <2> QED  BY <2>2, <2>3
<1> QED  BY <1>2, <1>3

\* A step of handler i keeps TypeInv if it leaves the rows well typed, never
\* drops an approval, and leaves i itself in a sound state.
Sound(r) ==
    /\ r \in Request
    /\ r.pc \in InHand => r.todo # <<>>
    /\ r.held # 0 => r.held \in DOMAIN approvals
    /\ r.pc = "decide" => r.held # 0


LEMMA HandlerStep ==
    ASSUME TypeInv, NEW i \in Handlers, RowsOK',
           DOMAIN approvals \subseteq DOMAIN approvals',
           NEW r, req' = [req EXCEPT ![i] = r], Sound(r)
    PROVE  TypeInv'
<1>1. req' \in [Handlers -> Request]
  BY DEF TypeInv, TypeOK, Sound
<1>2. ASSUME NEW j \in Handlers
      PROVE  /\ req'[j].pc \in InHand => req'[j].todo # <<>>
             /\ req'[j].held # 0 => req'[j].held \in DOMAIN approvals'
             /\ req'[j].pc = "decide" => req'[j].held # 0
  <2>1. CASE j = i
    BY <2>1 DEF TypeInv, TypeOK, Sound
  <2>2. CASE j # i
    BY <2>2 DEF TypeInv, TypeOK, CallInHand
  <2> QED  BY <2>1, <2>2
<1> QED  BY <1>1, <1>2 DEF TypeInv, TypeOK, CallInHand

\* A handler that only moves on.
LEMMA MoveType ==
    ASSUME TypeInv, NEW i \in Handlers, NEW l \in Label \ (InHand \cup {"decide"}),
           Goto(i, l), UNCHANGED <<db, performed, asked>>
    PROVE  TypeInv'
<1>1. RowsOK'
  BY DEF TypeInv, TypeOK, RowsOK, db
<1>2. Sound([req[i] EXCEPT !.pc = l])
  BY DEF TypeInv, TypeOK, CallInHand, Sound, Request
<1> QED  BY <1>1, <1>2, HandlerStep DEF Goto, db

\* The labels of the handlers, as facts the steps below cite.
LEMMA LabelsType ==
    /\ \A l \in BeforeTry \cup InTry \cup InCatch \cup {"idle", "ended"} : l \in Label
    /\ InHand \subseteq Label
  BY DEF Label, InHand, InTry

\* The initial states are well typed.
LEMMA InitType == Init => TypeInv
<1> SUFFICES ASSUME Init  PROVE TypeInv
  OBVIOUS
<1>1. NoTalk \in Conversation
  BY DEF NoTalk, Conversation
<1>2. IdleRequest \in Request
  BY <1>1 DEF IdleRequest, Request, Label, Modes, Choices
<1>3. TypeOK
  BY <1>1, <1>2, EmptySeq DEF Init, TypeOK, RowsOK, Status
<1>4. CallInHand
  BY DEF Init, CallInHand, IdleRequest, InHand
<1> QED  BY <1>3, <1>4 DEF TypeInv

\* A nonempty set of indices has a greatest one.
LEMMA GreatestIndex ==
    ASSUME NEW n \in Nat, NEW S, S \subseteq 1 .. n, S # {}
    PROVE  \E k \in S : \A j \in S : j <= k
<1> DEFINE T == {n - k : k \in S}
<1>0. \A k \in S : k \in Int /\ 1 <= k /\ k <= n
  OBVIOUS
<1>1. T \subseteq Nat /\ T # {}
  <2>1. ASSUME NEW k \in S  PROVE n - k \in Nat
    BY <1>0
  <2>2. T # {}
    <3>1. PICK k \in S : TRUE
      OBVIOUS
    <3>2. n - k \in T
      BY <3>1
    <3> QED  BY <3>2
  <2> QED  BY <2>1, <2>2
<1>2. PICK x \in T : \A y \in T : ~ (<<y, x>> \in OpToRel(<, Nat))
  <2> HIDE DEF T
  <2> QED  BY <1>1, WFMin, NatLessThanWellFounded
<1>3. \A y \in T : x <= y
  <2> SUFFICES ASSUME NEW y \in T  PROVE x <= y
    OBVIOUS
  <2> HIDE DEF T
  <2>1. x \in Nat /\ y \in Nat
    BY <1>1
  <2>2. ~ (y < x)
    BY <1>2, <2>1 DEF OpToRel
  <2> QED  BY <2>1, <2>2
<1>4. PICK k \in S : x = n - k
  BY <1>2
<1>5. ASSUME NEW j \in S  PROVE j <= k
  <2>1. n - j \in T
    BY <1>5
  <2>2. n - k <= n - j
    <3> HIDE DEF T
    <3> QED  BY <1>3, <1>4, <2>1
  <2> QED  BY <2>2, <1>0, <1>5
<1> QED  BY <1>5

\* The approval a decision goes on with is one of the rows.
LEMMA PendingTyped ==
    ASSUME TypeOK
    PROVE  /\ LatestPending \in Nat
           /\ LatestPending # 0 => LatestPending \in DOMAIN approvals
<1> DEFINE pending == {k \in DOMAIN approvals : approvals[k].status = "PENDING"}
<1>1. DOMAIN approvals = 1 .. Len(approvals) /\ Len(approvals) \in Nat
  BY LenProperties DEF TypeOK, RowsOK
<1>2. LatestPending = IF pending = {} THEN 0
                      ELSE CHOOSE k \in pending : \A j \in pending : j <= k
  BY DEF LatestPending
<1>3. pending # {} => \E k \in pending : \A j \in pending : j <= k
  BY <1>1, GreatestIndex
<1>4. pending \subseteq DOMAIN approvals /\ DOMAIN approvals \subseteq Nat
  BY <1>1
<1> HIDE DEF pending
<1>5. LatestPending = 0 \/ LatestPending \in pending
  BY <1>2, <1>3
<1> QED  BY <1>4, <1>5

\* A handler is in a sound state, and a call in hand is a call.
LEMMA SoundHandler ==
    ASSUME TypeInv, NEW i \in Handlers
    PROVE  Sound(req[i])
  BY DEF TypeInv, TypeOK, CallInHand, Sound

\* What is in hand is a call, and what follows it are calls.
LEMMA InHandTyped ==
    ASSUME TypeInv, NEW i \in Handlers, req[i].todo # <<>>
    PROVE  /\ req[i].todo \in Seq(Call)
           /\ Head(req[i].todo) \in Call
           /\ Tail(req[i].todo) \in Seq(Call)
<1>1. req[i].todo \in Seq(Call)
  BY SoundHandler DEF Sound, Request
<1> QED  BY <1>1, HeadTailProperties

\* Every action keeps TypeInv.
LEMMA NextType == TypeInv /\ [Next]_vars => TypeInv'
<1> SUFFICES ASSUME TypeInv, [Next]_vars  PROVE TypeInv'
  OBVIOUS
<1>1. ASSUME NEW i \in Handlers, MarkRunning(i)
      PROVE  TypeInv'
  BY <1>1, LabelsType, MarkRunStatusType DEF MarkRunning, InHand, Status, Terminal, BeforeTry, InTry, InCatch
<1>2. ASSUME NEW i \in Handlers, MarkWaiting(i)
      PROVE  TypeInv'
  BY <1>2, LabelsType, MarkRunStatusType DEF MarkWaiting, InHand, Status, Terminal, BeforeTry, InTry, InCatch
<1>3. ASSUME NEW i \in Handlers, MarkCompleted(i)
      PROVE  TypeInv'
  BY <1>3, LabelsType, MarkRunStatusType DEF MarkCompleted, InHand, Status, Terminal, BeforeTry, InTry, InCatch
<1>4. ASSUME NEW i \in Handlers, MarkFailed(i)
      PROVE  TypeInv'
  BY <1>4, LabelsType, MarkRunStatusType DEF MarkFailed, InHand, Status, Terminal, BeforeTry, InTry, InCatch
<1>5. ASSUME NEW i \in Handlers, CatchFailed(i)
      PROVE  TypeInv'
  BY <1>5, LabelsType, MarkRunStatusType DEF CatchFailed, InHand, Status, Terminal, BeforeTry, InTry, InCatch
<1>6. ASSUME NEW i \in Handlers, MarkResumed(i)
      PROVE  TypeInv'
  BY <1>6, LabelsType, MarkRunStatusType DEF MarkResumed, InHand, Status, Terminal, BeforeTry, InTry, InCatch
<1>7. ASSUME NEW i \in Handlers, MarkCancelled(i)
      PROVE  TypeInv'
  BY <1>7, LabelsType, MarkRunStatusType DEF MarkCancelled, InHand, Status, Terminal, BeforeTry, InTry, InCatch
<1>8. ASSUME NEW i \in Handlers, RecordInput(i)
      PROVE  TypeInv'
  BY <1>8, LabelsType, AddRunStepType DEF RecordInput, InHand, StepType, BeforeTry, InTry, InCatch
<1>9. ASSUME NEW i \in Handlers, RecordRequest(i)
      PROVE  TypeInv'
  BY <1>9, LabelsType, AddRunStepType DEF RecordRequest, InHand, StepType, BeforeTry, InTry, InCatch
<1>10. ASSUME NEW i \in Handlers, RecordCompleted(i)
      PROVE  TypeInv'
  BY <1>10, LabelsType, AddRunStepType DEF RecordCompleted, InHand, StepType, BeforeTry, InTry, InCatch
<1>11. ASSUME NEW i \in Handlers, RecordFailed(i)
      PROVE  TypeInv'
  BY <1>11, LabelsType, AddRunStepType DEF RecordFailed, InHand, StepType, BeforeTry, InTry, InCatch
<1>12. ASSUME NEW i \in Handlers, CatchRecord(i)
      PROVE  TypeInv'
  BY <1>12, LabelsType, AddRunStepType DEF CatchRecord, InHand, StepType, BeforeTry, InTry, InCatch
<1>13. ASSUME NEW i \in Handlers, RecordGranted(i)
      PROVE  TypeInv'
  BY <1>13, LabelsType, AddRunStepType DEF RecordGranted, InHand, StepType, BeforeTry, InTry, InCatch
<1>14. ASSUME NEW i \in Handlers, RecordCancelled(i)
      PROVE  TypeInv'
  BY <1>14, LabelsType, AddRunStepType DEF RecordCancelled, InHand, StepType, BeforeTry, InTry, InCatch
<1>15. ASSUME NEW i \in Handlers, ExceedSteps(i)
      PROVE  TypeInv'
  BY <1>15, LabelsType, MoveType DEF ExceedSteps, InHand, BeforeTry, InTry, InCatch
<1>16. ASSUME NEW i \in Handlers, FinishPipeline(i)
      PROVE  TypeInv'
  BY <1>16, LabelsType, MoveType DEF FinishPipeline, InHand, BeforeTry, InTry, InCatch
<1>17. ASSUME NEW i \in Handlers, Return(i)
      PROVE  TypeInv'
  BY <1>17, LabelsType, MoveType DEF Return, InHand, BeforeTry, InTry, InCatch
<1>18. ASSUME NEW i \in Handlers, Throw(i)
      PROVE  TypeInv'
  BY <1>18, LabelsType, MoveType DEF Throw, InHand, BeforeTry, InTry, InCatch
<1>19. ASSUME NEW i \in Handlers, Crash(i)
      PROVE  TypeInv'
  BY <1>19, LabelsType, MoveType DEF Crash, InHand, BeforeTry, InTry, InCatch
<1>20. ASSUME NEW i \in Handlers, CreateRun(i)
      PROVE  TypeInv'
  <2>1. RowsOK' /\ DOMAIN approvals \subseteq DOMAIN approvals'
    BY <1>20 DEF CreateRun, TypeInv, TypeOK, RowsOK, Status
  <2>2. Sound(req'[i])
    <3>1. agent.mode \in Modes
      BY DEF TypeInv, TypeOK, RowsOK
    <3> QED  BY <1>20, <3>1, SoundHandler, LabelsType DEF CreateRun, Sound, Request, TypeInv, TypeOK, InHand, BeforeTry
  <2>3. req' = [req EXCEPT ![i] = req'[i]]
    BY <1>20 DEF CreateRun, TypeInv, TypeOK, Goto
  <2> QED  BY <2>1, <2>2, <2>3, HandlerStep
<1>21. ASSUME NEW i \in Handlers, Connect(i)
      PROVE  TypeInv'
  <2>1. RowsOK' /\ DOMAIN approvals \subseteq DOMAIN approvals'
    BY <1>21 DEF Connect, TypeInv, TypeOK, RowsOK, db
  <2>2. Sound(req'[i])
    <3>1. ASSUME req[i].held # 0
          PROVE  /\ approvals[req[i].held].call \in Call
                 /\ <<approvals[req[i].held].call>> \in Seq(Call)
                 /\ <<approvals[req[i].held].call>> # <<>>
      <4>1. approvals[req[i].held] \in [call : Call, status : Choices \cup {"PENDING"}]
        <5> DEFINE Row == [call : Call, status : Choices \cup {"PENDING"}]
        <5>1. approvals \in Seq(Row)
          BY DEF TypeInv, TypeOK, RowsOK
        <5>2. req[i].held \in DOMAIN approvals
          BY <3>1, SoundHandler DEF Sound
        <5> HIDE DEF Row
        <5>3. approvals[req[i].held] \in Row
          BY <5>1, <5>2, ElementOfSeq, LenProperties
        <5> QED  BY <5>3 DEF Row
      <4>2. approvals[req[i].held].call \in Call
        BY <4>1
      <4> QED  BY <4>2, Z3
    <3>2. CASE i = Starter
      <4>1. Goto(i, "loadTools") /\ "loadTools" \in Label \ (InHand \cup {"decide"})
        BY <1>21, <3>2, LabelsType DEF Connect, InHand, InTry
      <4> QED  BY <4>1, SoundHandler DEF Sound, Request, TypeInv, TypeOK, Goto
    <3>3. CASE i # Starter /\ HasHeldBack(i)
      <4>1. /\ req' = [req EXCEPT ![i].pc = "execute", ![i].task = "heldBack",
                                  ![i].todo = <<approvals[req[i].held].call>>]
            /\ "execute" \in Label
            /\ approvals' = approvals
        BY <1>21, <3>3, LabelsType DEF Connect, InTry, db
      <4> QED  BY <3>1, <3>3, <4>1, SoundHandler DEF Sound, Request, TypeInv, TypeOK, HasHeldBack
    <3>4. CASE i # Starter /\ ~HasHeldBack(i)
      <4> DEFINE l == AfterHeldBack(req[i].mode, TRUE)
      <4>1. Goto(i, l) /\ l \in Label \ (InHand \cup {"decide"})
        BY <1>21, <3>4, LabelsType DEF Connect, AfterHeldBack, InHand, InTry
      <4> HIDE DEF l
      <4> QED  BY <4>1, SoundHandler DEF Sound, Request, TypeInv, TypeOK, Goto
    <3> QED  BY <3>2, <3>3, <3>4
  <2>3. req' = [req EXCEPT ![i] = req'[i]]
    BY <1>21 DEF Connect, TypeInv, TypeOK, Goto
  <2> QED  BY <2>1, <2>2, <2>3, HandlerStep
<1>22. ASSUME NEW i \in Handlers, LoadTools(i)
      PROVE  TypeInv'
  <2>1. RowsOK' /\ DOMAIN approvals \subseteq DOMAIN approvals'
    BY <1>22 DEF LoadTools, TypeInv, TypeOK, RowsOK, db
  <2>2. Sound(req'[i])
    BY <1>22, SoundHandler, LabelsType DEF LoadTools, Sound, Request, At, Goto, InHand, BeforeTry, InTry, InCatch, TypeInv, TypeOK, RowsOK
  <2>3. req' = [req EXCEPT ![i] = req'[i]]
    BY <1>22 DEF LoadTools, TypeInv, TypeOK, Goto
  <2> QED  BY <2>1, <2>2, <2>3, HandlerStep
<1>23. ASSUME NEW i \in Handlers, LoadMessages(i)
      PROVE  TypeInv'
  <2>1. RowsOK' /\ DOMAIN approvals \subseteq DOMAIN approvals'
    BY <1>23 DEF LoadMessages, TypeInv, TypeOK, RowsOK, db
  <2>2. Sound(req'[i])
    BY <1>23, SoundHandler, LabelsType DEF LoadMessages, Sound, Request, At, Goto, InHand, BeforeTry, InTry, InCatch, TypeInv, TypeOK, RowsOK
  <2>3. req' = [req EXCEPT ![i] = req'[i]]
    BY <1>23 DEF LoadMessages, TypeInv, TypeOK, Goto
  <2> QED  BY <2>1, <2>2, <2>3, HandlerStep
<1>24. ASSUME NEW i \in Handlers, Dispatch(i)
      PROVE  TypeInv'
  <2>1. RowsOK' /\ DOMAIN approvals \subseteq DOMAIN approvals'
    BY <1>24 DEF Dispatch, TypeInv, TypeOK, RowsOK, db
  <2>2. Sound(req'[i])
    <3>1. CASE req[i].todo = <<>>
      <4>1. req' = [req EXCEPT ![i].pc = "think", ![i].turn = @ + 1] /\ "think" \in Label
        BY <1>24, <3>1, LabelsType DEF Dispatch, InTry
      <4>2. "think" \notin InHand \cup {"decide"}
        BY DEF InHand
      <4> QED  BY <4>1, <4>2, SoundHandler DEF Sound, Request, TypeInv, TypeOK
    <3>2. CASE req[i].todo # <<>>
      <4> DEFINE l == Route(i, Head(req[i].todo).tool, "saveMessages")
      <4>1. req' = [req EXCEPT ![i].ok = FALSE, ![i].pc = l]
        BY <1>24, <3>2 DEF Dispatch
      <4>2. l \in Label /\ l # "decide"
        BY LabelsType DEF Route, InTry
      <4> HIDE DEF l
      <4> QED  BY <3>2, <4>1, <4>2, SoundHandler DEF Sound, Request, TypeInv, TypeOK
    <3> QED  BY <3>1, <3>2
  <2>3. req' = [req EXCEPT ![i] = req'[i]]
    BY <1>24 DEF Dispatch, TypeInv, TypeOK, Goto
  <2> QED  BY <2>1, <2>2, <2>3, HandlerStep
<1>25. ASSUME NEW i \in Handlers, SaveMessages(i)
      PROVE  TypeInv'
  <2>1. RowsOK' /\ DOMAIN approvals \subseteq DOMAIN approvals'
    <3>1. req[i].talk \in Conversation
      BY SoundHandler DEF Sound, Request
    <3> QED  BY <1>25, <3>1 DEF SaveMessages, TypeInv, TypeOK, RowsOK
  <2>2. Sound(req'[i])
    BY <1>25, SoundHandler, LabelsType DEF SaveMessages, Sound, Request, At, Goto, InHand, BeforeTry, InTry, InCatch, TypeInv, TypeOK
  <2>3. req' = [req EXCEPT ![i] = req'[i]]
    BY <1>25 DEF SaveMessages, TypeInv, TypeOK, Goto
  <2> QED  BY <2>1, <2>2, <2>3, HandlerStep
<1>26. ASSUME NEW i \in Handlers, CreateApproval(i)
      PROVE  TypeInv'
  <2>0. Head(req[i].todo) \in Call /\ Tail(req[i].todo) \in Seq(Call)
    BY <1>26, SoundHandler, InHandTyped DEF CreateApproval, Sound, At, InHand
  <2>1. RowsOK' /\ DOMAIN approvals \subseteq DOMAIN approvals'
    <3>1. [call |-> Head(req[i].todo), status |-> "PENDING"]
              \in [call : Call, status : Choices \cup {"PENDING"}]
      BY <2>0
    <3> QED  BY <1>26, <3>1, AppendProperties, LenProperties DEF CreateApproval, TypeInv, TypeOK, RowsOK
  <2>2. Sound(req'[i])
    BY <1>26, SoundHandler, LabelsType DEF CreateApproval, Sound, Request, At, Goto, InHand, BeforeTry, InTry, InCatch, TypeInv, TypeOK
  <2>3. req' = [req EXCEPT ![i] = req'[i]]
    BY <1>26 DEF CreateApproval, TypeInv, TypeOK, Goto
  <2> QED  BY <2>1, <2>2, <2>3, HandlerStep
<1>27. ASSUME NEW i \in Handlers, Execute(i)
      PROVE  TypeInv'
  <2>0. Head(req[i].todo) \in Call /\ Tail(req[i].todo) \in Seq(Call)
    BY <1>27, SoundHandler, InHandTyped DEF Execute, Sound, At, InHand
  <2>1. RowsOK' /\ DOMAIN approvals \subseteq DOMAIN approvals'
    <3>1. [call |-> Head(req[i].todo), by |-> i] \in [call : Call, by : Handlers]
      BY <2>0
    <3> QED  BY <1>27, <3>1, AppendProperties DEF Execute, TypeInv, TypeOK, RowsOK, db
  <2>2. Sound(req'[i])
    <3>1. PICK ok \in BOOLEAN : req' = [req EXCEPT ![i].pc = "recordCall", ![i].ok = ok]
      BY <1>27 DEF Execute
    <3>2. "recordCall" \in Label /\ req[i].todo # <<>>
      BY <1>27, SoundHandler, LabelsType DEF Execute, Sound, At, InHand, InTry
    <3> QED  BY <3>1, <3>2, SoundHandler DEF Sound, Request, TypeInv, TypeOK
  <2>3. req' = [req EXCEPT ![i] = req'[i]]
    BY <1>27 DEF Execute, TypeInv, TypeOK, Goto
  <2> QED  BY <2>1, <2>2, <2>3, HandlerStep
<1>28. ASSUME NEW i \in Handlers, RecordCall(i)
      PROVE  TypeInv'
  <2>0. Head(req[i].todo) \in Call /\ Tail(req[i].todo) \in Seq(Call)
    BY <1>28, SoundHandler, InHandTyped DEF RecordCall, Sound, At, InHand
  <2>1. RowsOK' /\ DOMAIN approvals \subseteq DOMAIN approvals'
    <3>1. [call |-> Head(req[i].todo), ok |-> req[i].ok] \in [call : Call, ok : BOOLEAN]
      BY <2>0, SoundHandler DEF Sound, Request
    <3> QED  BY <1>28, <3>1, AppendProperties DEF RecordCall, TypeInv, TypeOK, RowsOK
  <2>2. Sound(req'[i])
    BY <1>28, SoundHandler, LabelsType DEF RecordCall, Sound, Request, At, Goto, InHand, BeforeTry, InTry, InCatch, TypeInv, TypeOK
  <2>3. req' = [req EXCEPT ![i] = req'[i]]
    BY <1>28 DEF RecordCall, TypeInv, TypeOK, Goto
  <2> QED  BY <2>1, <2>2, <2>3, HandlerStep
<1>29. ASSUME NEW i \in Handlers, RecordDecision(i)
      PROVE  TypeInv'
  <2>1. RowsOK' /\ DOMAIN approvals \subseteq DOMAIN approvals'
    BY <1>29, AppendProperties DEF RecordDecision, TypeInv, TypeOK, RowsOK, StepType
  <2>2. Sound(req'[i])
    <3> DEFINE calls == {req[i].todo[k] : k \in DOMAIN req[i].todo}
               l == IF calls # {} THEN "dispatch"
                    ELSE IF req[i].ok THEN "markCompleted" ELSE "markFailed"
    <3>1. calls \subseteq Call
      BY SoundHandler, ElementOfSeq, LenProperties DEF Sound, Request
    <3>2. l \in Label \ (InHand \cup {"decide"})
      BY LabelsType DEF InHand, InTry
    <3> DEFINE new == req[i].talk.asks \cup calls
    <3>3. req' = [req EXCEPT ![i].pc = l, ![i].talk.asks = new, ![i].task = "turn"]
      BY <1>29 DEF RecordDecision
    <3>4. new \subseteq Call
      BY <3>1, SoundHandler DEF Sound, Request, Conversation
    <3> HIDE DEF calls, new, l
    <3>5. req'[i] = [req[i] EXCEPT !.pc = l, !.talk = [@ EXCEPT !.asks = new],
                                   !.task = "turn"]
      BY <3>3 DEF TypeInv, TypeOK, Request
    <3>6. [req[i].talk EXCEPT !.asks = new] \in Conversation
      BY <3>4, SoundHandler DEF Sound, Request, Conversation
    <3>7. req'[i] \in Request
      BY <3>2, <3>5, <3>6, SoundHandler DEF Sound, Request
    <3> QED  BY <3>2, <3>5, <3>7, SoundHandler DEF Sound, Request
  <2>3. req' = [req EXCEPT ![i] = req'[i]]
    BY <1>29 DEF RecordDecision, TypeInv, TypeOK
  <2> QED  BY <2>1, <2>2, <2>3, HandlerStep
<1>30. ASSUME NEW i \in Handlers, RecordCallStep(i)
      PROVE  TypeInv'
  <2>0. Head(req[i].todo) \in Call /\ Tail(req[i].todo) \in Seq(Call)
    BY <1>30, SoundHandler, InHandTyped DEF RecordCallStep, Sound, At, InHand
  <2>1. RowsOK' /\ DOMAIN approvals \subseteq DOMAIN approvals'
    BY <1>30, AppendProperties DEF RecordCallStep, TypeInv, TypeOK, RowsOK, StepType
  <2>2. Sound(req'[i])
    <3> DEFINE l == AfterCall(i)
               new == IF Answered(i) THEN req[i].talk.answers \cup {Head(req[i].todo)}
                      ELSE req[i].talk.answers
    <3>1. new \subseteq Call
      BY <2>0, SoundHandler DEF Sound, Request, Conversation
    <3>2. l \in Label \ (InHand \cup {"decide"})
      BY LabelsType DEF AfterCall, AfterHeldBack, InHand, InTry
    <3>3. req' = [req EXCEPT ![i].pc = l, ![i].talk.answers = new, ![i].todo = Tail(@)]
      BY <1>30 DEF RecordCallStep
    <3> HIDE DEF new, l
    <3>4. req'[i] = [req[i] EXCEPT !.pc = l, !.talk = [@ EXCEPT !.answers = new],
                                   !.todo = Tail(@)]
      BY <3>3 DEF TypeInv, TypeOK, Request
    <3>5. [req[i].talk EXCEPT !.answers = new] \in Conversation
      BY <3>1, SoundHandler DEF Sound, Request, Conversation
    <3> QED  BY <2>0, <3>2, <3>4, <3>5, SoundHandler DEF Sound, Request
  <2>3. req' = [req EXCEPT ![i] = req'[i]]
    BY <1>30 DEF RecordCallStep, TypeInv, TypeOK, Goto
  <2> QED  BY <2>1, <2>2, <2>3, HandlerStep
<1>31. ASSUME NEW i \in Handlers, Think(i)
      PROVE  TypeInv'
  <2>1. RowsOK' /\ DOMAIN approvals \subseteq DOMAIN approvals'
    BY <1>31, AnswersType DEF Think, TypeInv, TypeOK, RowsOK, db
  <2>2. Sound(req'[i])
    <3>1. "recordDecision" \in Label \ (InHand \cup {"decide"})
      BY LabelsType DEF InHand, InTry
    <3>2. ASSUME NEW plain \in BOOLEAN,
                 req' = [req EXCEPT ![i].pc = "recordDecision", ![i].todo = <<>>, ![i].ok = plain]
          PROVE  Sound(req'[i])
      <4>1. <<>> \in Seq(Call)
        BY EmptySeq
      <4> QED  BY <3>1, <3>2, <4>1, SoundHandler DEF Sound, Request, TypeInv, TypeOK
    <3>3. ASSUME NEW answer \in Answers,
                 req' = [req EXCEPT ![i].pc = "recordDecision", ![i].todo = Numbered(answer)]
          PROVE  Sound(req'[i])
      <4>1. Numbered(answer) \in Seq(Call)
        BY AnswersType, NumberedType DEF TypeInv
      <4> QED  BY <3>1, <3>3, <4>1, SoundHandler DEF Sound, Request, TypeInv, TypeOK
    <3> QED  BY <1>31, <3>2, <3>3 DEF Think
  <2>3. req' = [req EXCEPT ![i] = req'[i]]
    BY <1>31 DEF Think, TypeInv, TypeOK, Goto
  <2> QED  BY <2>1, <2>2, <2>3, HandlerStep
<1>32. ASSUME NEW i \in Handlers, Lookup(i)
      PROVE  TypeInv'
  <2>1. RowsOK' /\ DOMAIN approvals \subseteq DOMAIN approvals'
    BY <1>32 DEF Lookup, TypeInv, TypeOK, RowsOK, db
  <2>2. Sound(req'[i])
    <3>1. PICK tool \in Tools :
             req' = [req EXCEPT ![i].pc = Route(i, tool, "execute"), ![i].task = "lookup",
                                ![i].ok = FALSE, ![i].turn = @ + 1,
                                ![i].todo = Numbered(<<tool>>)]
      BY <1>32 DEF Lookup
    <3> DEFINE l == Route(i, tool, "execute")
    <3>2. l \in Label /\ l # "decide"
      BY LabelsType DEF Route, InTry
    <3>3. Numbered(<<tool>>) \in Seq(Call) /\ Numbered(<<tool>>) # <<>>
      <4>1. <<tool>> \in Seq(Tools) /\ Len(<<tool>>) = 1
        OBVIOUS
      <4> QED  BY <4>1, NumberedType, EmptySeq DEF TypeInv
    <3> HIDE DEF l
    <3>4. req' = [req EXCEPT ![i].pc = l, ![i].task = "lookup", ![i].ok = FALSE, ![i].turn = @ + 1,
                             ![i].todo = Numbered(<<tool>>)]
      BY <3>1 DEF l
    <3> QED  BY <3>2, <3>3, <3>4, SoundHandler DEF Sound, Request, TypeInv, TypeOK
  <2>3. req' = [req EXCEPT ![i] = req'[i]]
    BY <1>32 DEF Lookup, TypeInv, TypeOK, Goto
  <2> QED  BY <2>1, <2>2, <2>3, HandlerStep
<1>33. ASSUME NEW i \in Handlers, ProposeAction(i)
      PROVE  TypeInv'
  <2>1. RowsOK' /\ DOMAIN approvals \subseteq DOMAIN approvals'
    BY <1>33 DEF ProposeAction, TypeInv, TypeOK, RowsOK, db
  <2>2. Sound(req'[i])
    <3>1. PICK tool \in Tools :
             req' = [req EXCEPT ![i].pc = Route(i, tool, "markWaiting"), ![i].task = "act",
                                ![i].ok = FALSE,
                                ![i].todo = Numbered(<<tool>>)]
      BY <1>33 DEF ProposeAction
    <3> DEFINE l == Route(i, tool, "markWaiting")
    <3>2. l \in Label /\ l # "decide"
      BY LabelsType DEF Route, InTry
    <3>3. Numbered(<<tool>>) \in Seq(Call) /\ Numbered(<<tool>>) # <<>>
      <4>1. <<tool>> \in Seq(Tools) /\ Len(<<tool>>) = 1
        OBVIOUS
      <4> QED  BY <4>1, NumberedType, EmptySeq DEF TypeInv
    <3> HIDE DEF l
    <3>4. req' = [req EXCEPT ![i].pc = l, ![i].task = "act", ![i].ok = FALSE,
                             ![i].todo = Numbered(<<tool>>)]
      BY <3>1 DEF l
    <3> QED  BY <3>2, <3>3, <3>4, SoundHandler DEF Sound, Request, TypeInv, TypeOK
  <2>3. req' = [req EXCEPT ![i] = req'[i]]
    BY <1>33 DEF ProposeAction, TypeInv, TypeOK, Goto
  <2> QED  BY <2>1, <2>2, <2>3, HandlerStep
<1>34. ASSUME NEW i \in Handlers, StartDecision(i)
      PROVE  TypeInv'
  <2>1. RowsOK' /\ DOMAIN approvals \subseteq DOMAIN approvals'
    BY <1>34 DEF StartDecision, TypeInv, TypeOK, RowsOK, db
  <2>2. Sound(req'[i])
    <3>1. PICK choice \in Choices : req' = [req EXCEPT ![i].pc = "findRun", ![i].choice = choice]
      BY <1>34 DEF StartDecision
    <3>2. "findRun" \in Label \ (InHand \cup {"decide"})
      BY LabelsType DEF InHand, BeforeTry
    <3> QED  BY <3>1, <3>2, SoundHandler DEF Sound, Request, TypeInv, TypeOK
  <2>3. req' = [req EXCEPT ![i] = req'[i]]
    BY <1>34 DEF StartDecision, TypeInv, TypeOK, Goto
  <2> QED  BY <2>1, <2>2, <2>3, HandlerStep
<1>35. ASSUME NEW i \in Handlers, FindRun(i)
      PROVE  TypeInv'
  <2>1. RowsOK' /\ DOMAIN approvals \subseteq DOMAIN approvals'
    BY <1>35 DEF FindRun, TypeInv, TypeOK, RowsOK, db
  <2>2. Sound(req'[i])
    BY <1>35, SoundHandler, LabelsType DEF FindRun, Sound, Request, At, Goto, InHand, BeforeTry, InTry, InCatch, TypeInv, TypeOK, RowsOK, Decidable
  <2>3. req' = [req EXCEPT ![i] = req'[i]]
    BY <1>35 DEF FindRun, TypeInv, TypeOK, Goto
  <2> QED  BY <2>1, <2>2, <2>3, HandlerStep
<1>36. ASSUME NEW i \in Handlers, FindApproval(i)
      PROVE  TypeInv'
  <2>1. RowsOK' /\ DOMAIN approvals \subseteq DOMAIN approvals'
    BY <1>36 DEF FindApproval, TypeInv, TypeOK, RowsOK, db
  <2>2. Sound(req'[i])
    <3> DEFINE l == IF LatestPending = 0 THEN AfterDecision(i) ELSE "decide"
    <3>1. l \in Label \ InHand /\ (l = "decide" => LatestPending # 0)
      BY LabelsType DEF AfterDecision, InHand, BeforeTry
    <3>2. req' = [req EXCEPT ![i].held = LatestPending, ![i].pc = l]
      BY <1>36 DEF FindApproval
    <3> HIDE DEF l
    <3> QED  BY <3>1, <3>2, PendingTyped, SoundHandler DEF Sound, Request, TypeInv, TypeOK
  <2>3. req' = [req EXCEPT ![i] = req'[i]]
    BY <1>36 DEF FindApproval, TypeInv, TypeOK, Goto
  <2> QED  BY <2>1, <2>2, <2>3, HandlerStep
<1>37. ASSUME NEW i \in Handlers, Decide(i)
      PROVE  TypeInv'
  <2>0. req[i].held \in DOMAIN approvals /\ req[i].choice \in Choices
    BY <1>37, SoundHandler DEF Decide, Sound, Request, At
  <2>1. RowsOK' /\ DOMAIN approvals \subseteq DOMAIN approvals'
    <3> DEFINE Row == [call : Call, status : Choices \cup {"PENDING"}]
    <3>1. approvals \in Seq(Row) /\ DOMAIN approvals = 1 .. Len(approvals)
      BY LenProperties DEF TypeInv, TypeOK, RowsOK
    <3>2. approvals' = [approvals EXCEPT ![req[i].held] = [@ EXCEPT !.status = req[i].choice]]
      BY <1>37 DEF Decide
    <3>3. [approvals[req[i].held] EXCEPT !.status = req[i].choice] \in Row
      <4>1. approvals[req[i].held] \in Row
        <5> HIDE DEF Row
        <5> QED  BY <2>0, <3>1, ElementOfSeq
      <4> QED  BY <2>0, <4>1
    <3> HIDE DEF Row
    <3>4. approvals' \in Seq(Row) /\ DOMAIN approvals' = DOMAIN approvals
      BY <2>0, <3>1, <3>2, <3>3, ExceptSeq
    <3> QED  BY <1>37, <3>4 DEF Decide, TypeInv, TypeOK, RowsOK, Row
  <2>2. Sound(req'[i])
    <3>1. AfterDecision(i) \in Label \ (InHand \cup {"decide"})
      BY LabelsType DEF AfterDecision, InHand, BeforeTry
    <3> QED  BY <1>37, <3>1, SoundHandler DEF Decide, Goto, Sound, Request, TypeInv, TypeOK
  <2>3. req' = [req EXCEPT ![i] = req'[i]]
    BY <1>37 DEF Decide, Goto, TypeInv, TypeOK
  <2> QED  BY <2>1, <2>2, <2>3, HandlerStep
<1>38. ASSUME EditAgent
      PROVE  TypeInv'
  BY <1>38 DEF EditAgent, TypeInv, TypeOK, RowsOK, CallInHand
<1>39. CASE UNCHANGED vars
  BY <1>39 DEF vars, TypeInv, TypeOK, RowsOK, CallInHand
<1> QED
  BY <1>1, <1>2, <1>3, <1>4, <1>5, <1>6, <1>7, <1>8, <1>9, <1>10, <1>11, <1>12, <1>13, <1>14, <1>15, <1>16, <1>17, <1>18, <1>19, <1>20, <1>21, <1>22, <1>23, <1>24, <1>25, <1>26, <1>27, <1>28, <1>29, <1>30, <1>31, <1>32, <1>33, <1>34, <1>35, <1>36, <1>37, <1>38, <1>39 DEF Next, Work

\* The rows, the handlers' variables and the calls in hand are well typed in
\* every state: no handler ever executes, records or asks approval for a call
\* it does not have, or decides an approval that is not there.
THEOREM TypeCorrect == Spec => []TypeOK
<1>1. TypeInv => TypeOK
  BY DEF TypeInv
<1> QED  BY <1>1, InitType, NextType, PTL DEF Spec

-----------------------------------------------------------------------------
(* Held-back calls are executed only by the click that approved them.       *)

\* The labels of a handler that has not looked for its approval yet.
Early == {"idle", "findRun", "findApproval"}

\* The labels on the way to the MCP connection.
Resuming == {"markRunning", "recordInput", "recordGranted", "markResumed", "connect"}

\* What a handler in state r must satisfy: a gated call in its hand is the one
\* it approved, and a decision that resumes the run is an approval.
Cleared(i, r) ==
    /\ r.pc = "execute" /\ Head(r.todo).tool \in Gated
         => /\ i \in Deciders
            /\ r.choice = "APPROVED"
            /\ r.held \in DOMAIN approvals
            /\ approvals[r.held].call = Head(r.todo)
    /\ i # Starter /\ r.pc \in Resuming => r.choice = "APPROVED"

\* A performed gated call was approved, and the handler that performed it never
\* goes back to where its choice and its approval are still open.
PerformedApproved ==
    \A k \in DOMAIN performed :
        performed[k].call.tool \in Gated
            => /\ ApprovedBy(performed[k].by, performed[k].call)
               /\ req[performed[k].by].pc \notin Early

GateInv ==
    /\ TypeInv
    /\ \A i \in Handlers : Cleared(i, req[i])
    /\ PerformedApproved

\* No step takes an approval away or changes its call.
CallsKept ==
    /\ DOMAIN approvals \subseteq DOMAIN approvals'
    /\ \A k \in DOMAIN approvals : approvals'[k].call = approvals[k].call

\* A handler past the search for its approval keeps its choice and approval.
ChoiceKept(old, new) ==
    old.pc \notin Early
        => /\ new.pc \notin Early
           /\ new.choice = old.choice
           /\ new.held = old.held

\* A step of handler i that executes nothing keeps GateInv if it leaves i
\* cleared and keeps the calls of the approvals and i's choice.
LEMMA GateStep ==
    ASSUME GateInv, TypeInv', NEW i \in Handlers, NEW r,
           req' = [req EXCEPT ![i] = r], CallsKept, performed' = performed,
           Cleared(i, r), ChoiceKept(req[i], r)
    PROVE  GateInv'
<1>1. /\ req'[i] = r
      /\ \A j \in Handlers \ {i} : req'[j] = req[j]
  BY DEF GateInv, TypeInv, TypeOK
<1>2. ASSUME NEW j \in Handlers  PROVE Cleared(j, req[j])'
  <2>1. CASE j = i
    BY <1>1, <2>1 DEF Cleared, CallsKept
  <2>2. CASE j # i
    BY <1>1, <2>2 DEF GateInv, Cleared, CallsKept
  <2> QED  BY <2>1, <2>2
<1>3. PerformedApproved'
  <2> SUFFICES ASSUME NEW k \in DOMAIN performed',
                      performed'[k].call.tool \in Gated
               PROVE  (/\ ApprovedBy(performed[k].by, performed[k].call)
                       /\ req[performed[k].by].pc \notin Early)'
    BY DEF PerformedApproved
  <2>1. PICK j, c : j = performed[k].by /\ c = performed[k].call
    OBVIOUS
  <2>2. ApprovedBy(j, c) /\ req[j].pc \notin Early
    BY <2>1 DEF GateInv, PerformedApproved
  <2>3. j \in Deciders /\ j \in Handlers
    BY <2>2 DEF ApprovedBy, Handlers
  <2>4. /\ req'[j].pc \notin Early
        /\ req'[j].choice = req[j].choice
        /\ req'[j].held = req[j].held
    BY <1>1, <2>2, <2>3 DEF ChoiceKept
  <2>5. /\ req'[j].choice = "APPROVED"
        /\ req'[j].held \in DOMAIN approvals'
        /\ approvals'[req'[j].held].call = c
    BY <2>2, <2>4 DEF ApprovedBy, CallsKept
  <2> QED  BY <2>1, <2>3, <2>4, <2>5 DEF ApprovedBy
<1> QED  BY <1>2, <1>3 DEF GateInv

\* A handler that only moves on, to where it neither executes nor starts over.
LEMMA GateMove ==
    ASSUME GateInv, TypeInv', NEW i \in Handlers, NEW l, Goto(i, l),
           l \notin Early \cup {"execute"},
           i # Starter /\ l \in Resuming => req[i].choice = "APPROVED",
           CallsKept, performed' = performed
    PROVE  GateInv'
<1> DEFINE r == [req[i] EXCEPT !.pc = l]
<1>1. req[i] \in Request
  BY DEF GateInv, TypeInv, TypeOK
<1>2. /\ r.pc = l
      /\ r.choice = req[i].choice
      /\ r.held = req[i].held
  BY <1>1 DEF Request
<1>3. req' = [req EXCEPT ![i] = r]
  BY DEF Goto
<1> HIDE DEF r
<1>4. Cleared(i, r)
  BY <1>2 DEF Cleared
<1>5. ChoiceKept(req[i], r)
  BY <1>2 DEF ChoiceKept
<1> QED  BY <1>3, <1>4, <1>5, GateStep

\* A handler that moves on to a label where it neither executes a call nor
\* starts over.
LEMMA GateStays ==
    ASSUME GateInv, TypeInv', NEW i \in Handlers, NEW r,
           req' = [req EXCEPT ![i] = r],
           r.choice = req[i].choice, r.held = req[i].held,
           r.pc \notin Early \cup Resuming \cup {"execute"},
           CallsKept, performed' = performed
    PROVE  GateInv'
<1>1. Cleared(i, r)
  BY DEF Cleared
<1>2. ChoiceKept(req[i], r)
  BY DEF ChoiceKept
<1> QED  BY <1>1, <1>2, GateStep

\* Nothing is held back, decided or performed initially.
LEMMA GateInit == Init => GateInv
<1> SUFFICES ASSUME Init  PROVE GateInv
  OBVIOUS
<1>1. \A i \in Handlers : Cleared(i, req[i])
  BY DEF Init, IdleRequest, Cleared, Resuming
<1>2. PerformedApproved
  BY DEF Init, PerformedApproved
<1> QED  BY <1>1, <1>2, InitType DEF GateInv

\* The first of an answer's numbered calls is to the first of its tools.
LEMMA HeadNumbered ==
    ASSUME TypeInv, NEW tool \in Tools
    PROVE  Head(Numbered(<<tool>>)).tool = tool
<1>1. /\ <<tool>> \in Seq(Tools)
      /\ Len(<<tool>>) = 1
      /\ <<tool>>[1] = tool
      /\ DOMAIN <<tool>> = {1}
  OBVIOUS
<1>2. /\ Numbered(<<tool>>) \in Seq(Call)
      /\ Len(Numbered(<<tool>>)) = 1
  BY <1>1, NumberedType DEF TypeInv
<1>3. Numbered(<<tool>>)[1] = [tool |-> tool, n |-> asked + 1]
  BY <1>1 DEF Numbered
<1>4. Head(Numbered(<<tool>>)) = Numbered(<<tool>>)[1]
  BY <1>2, EmptySeq, HeadTailProperties
<1> QED  BY <1>3, <1>4

\* A step that leaves the approvals alone keeps their calls.
LEMMA KeepsApprovals == approvals' = approvals => CallsKept
  BY DEF CallsKept

\* Every action keeps GateInv.
LEMMA GateNext == GateInv /\ [Next]_vars => GateInv'
<1> SUFFICES ASSUME GateInv, [Next]_vars  PROVE GateInv'
  OBVIOUS
<1>0. TypeInv'
  BY NextType DEF GateInv
<1>1. ASSUME NEW i \in Handlers, MarkWaiting(i)
      PROVE  GateInv'
  BY <1>1, <1>0, GateMove, KeepsApprovals DEF MarkWaiting, MarkRunStatus, Early, Resuming
<1>2. ASSUME NEW i \in Handlers, MarkCompleted(i)
      PROVE  GateInv'
  BY <1>2, <1>0, GateMove, KeepsApprovals DEF MarkCompleted, MarkRunStatus, Early, Resuming
<1>3. ASSUME NEW i \in Handlers, MarkFailed(i)
      PROVE  GateInv'
  BY <1>3, <1>0, GateMove, KeepsApprovals DEF MarkFailed, MarkRunStatus, Early, Resuming
<1>4. ASSUME NEW i \in Handlers, CatchFailed(i)
      PROVE  GateInv'
  BY <1>4, <1>0, GateMove, KeepsApprovals DEF CatchFailed, MarkRunStatus, Early, Resuming
<1>5. ASSUME NEW i \in Handlers, MarkCancelled(i)
      PROVE  GateInv'
  BY <1>5, <1>0, GateMove, KeepsApprovals DEF MarkCancelled, MarkRunStatus, Early, Resuming
<1>6. ASSUME NEW i \in Handlers, RecordRequest(i)
      PROVE  GateInv'
  BY <1>6, <1>0, GateMove, KeepsApprovals DEF RecordRequest, AddRunStep, Early, Resuming
<1>7. ASSUME NEW i \in Handlers, RecordCompleted(i)
      PROVE  GateInv'
  BY <1>7, <1>0, GateMove, KeepsApprovals DEF RecordCompleted, AddRunStep, Early, Resuming
<1>8. ASSUME NEW i \in Handlers, RecordFailed(i)
      PROVE  GateInv'
  BY <1>8, <1>0, GateMove, KeepsApprovals DEF RecordFailed, AddRunStep, Early, Resuming
<1>9. ASSUME NEW i \in Handlers, CatchRecord(i)
      PROVE  GateInv'
  BY <1>9, <1>0, GateMove, KeepsApprovals DEF CatchRecord, AddRunStep, Early, Resuming
<1>10. ASSUME NEW i \in Handlers, RecordCancelled(i)
      PROVE  GateInv'
  BY <1>10, <1>0, GateMove, KeepsApprovals DEF RecordCancelled, AddRunStep, Early, Resuming
<1>11. ASSUME NEW i \in Handlers, MarkRunning(i)
      PROVE  GateInv'
  <2>1. i # Starter => req[i].choice = "APPROVED"
    BY <1>11 DEF MarkRunning, MarkRunStatus, At, GateInv, Cleared, Resuming
  <2> QED  BY <1>11, <1>0, <2>1, GateMove, KeepsApprovals DEF MarkRunning, MarkRunStatus, Early
<1>12. ASSUME NEW i \in Handlers, MarkResumed(i)
      PROVE  GateInv'
  <2>1. i # Starter => req[i].choice = "APPROVED"
    BY <1>12 DEF MarkResumed, MarkRunStatus, At, GateInv, Cleared, Resuming
  <2> QED  BY <1>12, <1>0, <2>1, GateMove, KeepsApprovals DEF MarkResumed, MarkRunStatus, Early
<1>13. ASSUME NEW i \in Handlers, RecordInput(i)
      PROVE  GateInv'
  <2>1. i # Starter => req[i].choice = "APPROVED"
    BY <1>13 DEF RecordInput, AddRunStep, At, GateInv, Cleared, Resuming
  <2> QED  BY <1>13, <1>0, <2>1, GateMove, KeepsApprovals DEF RecordInput, AddRunStep, Early
<1>14. ASSUME NEW i \in Handlers, RecordGranted(i)
      PROVE  GateInv'
  <2>1. i # Starter => req[i].choice = "APPROVED"
    BY <1>14 DEF RecordGranted, AddRunStep, At, GateInv, Cleared, Resuming
  <2> QED  BY <1>14, <1>0, <2>1, GateMove, KeepsApprovals DEF RecordGranted, AddRunStep, Early
<1>15. ASSUME NEW i \in Handlers, ExceedSteps(i)
      PROVE  GateInv'
  BY <1>15, <1>0, GateMove, KeepsApprovals DEF ExceedSteps, db, Early, Resuming
<1>16. ASSUME NEW i \in Handlers, FinishPipeline(i)
      PROVE  GateInv'
  BY <1>16, <1>0, GateMove, KeepsApprovals DEF FinishPipeline, db, Early, Resuming
<1>17. ASSUME NEW i \in Handlers, Return(i)
      PROVE  GateInv'
  BY <1>17, <1>0, GateMove, KeepsApprovals DEF Return, db, Early, Resuming
<1>18. ASSUME NEW i \in Handlers, Throw(i)
      PROVE  GateInv'
  BY <1>18, <1>0, GateMove, KeepsApprovals DEF Throw, db, Early, Resuming
<1>19. ASSUME NEW i \in Handlers, Crash(i)
      PROVE  GateInv'
  BY <1>19, <1>0, GateMove, KeepsApprovals DEF Crash, db, Early, Resuming
<1>20. ASSUME NEW i \in Handlers, SaveMessages(i)
      PROVE  GateInv'
  BY <1>20, <1>0, GateMove, KeepsApprovals DEF SaveMessages, db, Early, Resuming
<1>21. ASSUME NEW i \in Handlers, RecordCall(i)
      PROVE  GateInv'
  BY <1>21, <1>0, GateMove, KeepsApprovals DEF RecordCall, db, Early, Resuming
<1>22. ASSUME NEW i \in Handlers, CreateApproval(i)
      PROVE  GateInv'
  <2>1. approvals \in Seq([call : Call, status : Choices \cup {"PENDING"}])
    BY DEF GateInv, TypeInv, TypeOK, RowsOK
  <2>2. /\ DOMAIN approvals = 1 .. Len(approvals)
        /\ DOMAIN approvals' = 1 .. Len(approvals) + 1
        /\ \A k \in 1 .. Len(approvals) : approvals'[k] = approvals[k]
    BY <1>22, <2>1, AppendProperties, LenProperties DEF CreateApproval
  <2>3. CallsKept
    BY <2>1, <2>2, LenProperties DEF CallsKept
  <2> QED  BY <1>22, <1>0, <2>3, GateMove DEF CreateApproval, Early, Resuming
<1>23. ASSUME NEW i \in Handlers, Decide(i)
      PROVE  GateInv'
  <2>1. CallsKept
    <3>1. req[i].held \in DOMAIN approvals
      BY <1>23 DEF Decide, At, GateInv, TypeInv, CallInHand
    <3> DEFINE Row == [call : Call, status : Choices \cup {"PENDING"}]
    <3>2. \A k \in DOMAIN approvals : approvals[k] \in Row
      <4>1. approvals \in Seq(Row)
        BY DEF GateInv, TypeInv, TypeOK, RowsOK
      <4> HIDE DEF Row
      <4> QED  BY <4>1, ElementOfSeq, LenProperties
    <3>3. [approvals[req[i].held] EXCEPT !.status = req[i].choice].call
              = approvals[req[i].held].call
      BY <3>1, <3>2
    <3>4. approvals' = [approvals EXCEPT ![req[i].held] = [@ EXCEPT !.status = req[i].choice]]
      BY <1>23 DEF Decide
    <3> HIDE DEF Row
    <3> QED  BY <3>1, <3>3, <3>4 DEF CallsKept
  <2>2. AfterDecision(i) \in Resuming => req[i].choice = "APPROVED"
    BY DEF AfterDecision, Resuming
  <2>3. AfterDecision(i) \notin Early \cup {"execute"}
    BY DEF AfterDecision, Early
  <2> QED  BY <1>23, <1>0, <2>1, <2>2, <2>3, GateMove DEF Decide
<1>24. ASSUME NEW i \in Handlers, LoadTools(i)
      PROVE  GateInv'
  <2>1. req' = [req EXCEPT ![i] = req'[i]]
    BY <1>24 DEF LoadTools, GateInv, TypeInv, TypeOK
  <2>2. req'[i].choice = req[i].choice /\ req'[i].held = req[i].held
    BY <1>24 DEF LoadTools, GateInv, TypeInv, TypeOK, Request
  <2>3. req'[i].pc \notin Early \cup Resuming \cup {"execute"}
    BY <1>24 DEF LoadTools, GateInv, TypeInv, TypeOK, Request, Early, Resuming
  <2> QED  BY <1>24, <1>0, <2>1, <2>2, <2>3, GateStays, KeepsApprovals DEF LoadTools, db
<1>25. ASSUME NEW i \in Handlers, LoadMessages(i)
      PROVE  GateInv'
  <2>1. req' = [req EXCEPT ![i] = req'[i]]
    BY <1>25 DEF LoadMessages, GateInv, TypeInv, TypeOK
  <2>2. req'[i].choice = req[i].choice /\ req'[i].held = req[i].held
    BY <1>25 DEF LoadMessages, GateInv, TypeInv, TypeOK, Request
  <2>3. req'[i].pc \notin Early \cup Resuming \cup {"execute"}
    BY <1>25 DEF LoadMessages, GateInv, TypeInv, TypeOK, Request, Early, Resuming
  <2> QED  BY <1>25, <1>0, <2>1, <2>2, <2>3, GateStays, KeepsApprovals DEF LoadMessages, db
<1>26. ASSUME NEW i \in Handlers, Think(i)
      PROVE  GateInv'
  <2>1. req' = [req EXCEPT ![i] = req'[i]]
    BY <1>26 DEF Think, GateInv, TypeInv, TypeOK
  <2>2. req'[i].choice = req[i].choice /\ req'[i].held = req[i].held
    BY <1>26 DEF Think, GateInv, TypeInv, TypeOK, Request
  <2>3. req'[i].pc \notin Early \cup Resuming \cup {"execute"}
    BY <1>26 DEF Think, GateInv, TypeInv, TypeOK, Request, Early, Resuming
  <2> QED  BY <1>26, <1>0, <2>1, <2>2, <2>3, GateStays, KeepsApprovals DEF Think, db
<1>27. ASSUME NEW i \in Handlers, RecordDecision(i)
      PROVE  GateInv'
  <2>1. req' = [req EXCEPT ![i] = req'[i]]
    BY <1>27 DEF RecordDecision, GateInv, TypeInv, TypeOK
  <2>2. req'[i].choice = req[i].choice /\ req'[i].held = req[i].held
    BY <1>27 DEF RecordDecision, GateInv, TypeInv, TypeOK, Request
  <2>3. req'[i].pc \notin Early \cup Resuming \cup {"execute"}
    BY <1>27 DEF RecordDecision, GateInv, TypeInv, TypeOK, Request, Early, Resuming
  <2> QED  BY <1>27, <1>0, <2>1, <2>2, <2>3, GateStays, KeepsApprovals DEF RecordDecision, db
<1>28. ASSUME NEW i \in Handlers, RecordCallStep(i)
      PROVE  GateInv'
  <2>1. req' = [req EXCEPT ![i] = req'[i]]
    BY <1>28 DEF RecordCallStep, GateInv, TypeInv, TypeOK
  <2>2. req'[i].choice = req[i].choice /\ req'[i].held = req[i].held
    BY <1>28 DEF RecordCallStep, GateInv, TypeInv, TypeOK, Request
  <2>3. req'[i].pc \notin Early \cup Resuming \cup {"execute"}
    BY <1>28 DEF RecordCallStep, GateInv, TypeInv, TypeOK, Request, Early, Resuming, AfterCall, AfterHeldBack
  <2> QED  BY <1>28, <1>0, <2>1, <2>2, <2>3, GateStays, KeepsApprovals DEF RecordCallStep, db
<1>29. ASSUME NEW i \in Handlers, CreateRun(i)
      PROVE  GateInv'
  <2>1. req' = [req EXCEPT ![i] = req'[i]]
    BY <1>29 DEF CreateRun, GateInv, TypeInv, TypeOK
  <2>2. Cleared(i, req'[i])
    BY <1>29 DEF CreateRun, Cleared, GateInv, TypeInv, TypeOK, Request
  <2>3. ChoiceKept(req[i], req'[i])
    BY <1>29 DEF CreateRun, At, ChoiceKept, Early
  <2> QED  BY <1>29, <1>0, <2>1, <2>2, <2>3, GateStep, KeepsApprovals DEF CreateRun, db
<1>30. ASSUME NEW i \in Handlers, StartDecision(i)
      PROVE  GateInv'
  <2>1. req' = [req EXCEPT ![i] = req'[i]]
    BY <1>30 DEF StartDecision, GateInv, TypeInv, TypeOK
  <2>2. Cleared(i, req'[i])
    BY <1>30 DEF StartDecision, Cleared, Resuming, GateInv, TypeInv, TypeOK, Request
  <2>3. ChoiceKept(req[i], req'[i])
    BY <1>30 DEF StartDecision, At, ChoiceKept, Early
  <2> QED  BY <1>30, <1>0, <2>1, <2>2, <2>3, GateStep, KeepsApprovals DEF StartDecision, db
<1>31. ASSUME NEW i \in Handlers, FindRun(i)
      PROVE  GateInv'
  <2>1. req' = [req EXCEPT ![i] = req'[i]]
    BY <1>31 DEF FindRun, GateInv, TypeInv, TypeOK
  <2>2. Cleared(i, req'[i])
    BY <1>31 DEF FindRun, Cleared, Resuming, GateInv, TypeInv, TypeOK, Request
  <2>3. ChoiceKept(req[i], req'[i])
    BY <1>31 DEF FindRun, At, ChoiceKept, Early
  <2> QED  BY <1>31, <1>0, <2>1, <2>2, <2>3, GateStep, KeepsApprovals DEF FindRun, db
<1>32. ASSUME NEW i \in Handlers, FindApproval(i)
      PROVE  GateInv'
  <2>1. req' = [req EXCEPT ![i] = req'[i]]
    BY <1>32 DEF FindApproval, GateInv, TypeInv, TypeOK
  <2>2. Cleared(i, req'[i])
    BY <1>32 DEF FindApproval, AfterDecision, Cleared, Resuming, GateInv, TypeInv, TypeOK, Request
  <2>3. ChoiceKept(req[i], req'[i])
    BY <1>32 DEF FindApproval, At, ChoiceKept, Early
  <2> QED  BY <1>32, <1>0, <2>1, <2>2, <2>3, GateStep, KeepsApprovals DEF FindApproval, db
<1>33. ASSUME NEW i \in Handlers, Dispatch(i)
      PROVE  GateInv'
  <2>1. req' = [req EXCEPT ![i] = req'[i]]
    BY <1>33 DEF Dispatch, GateInv, TypeInv, TypeOK
  <2>2. /\ req'[i].choice = req[i].choice
        /\ req'[i].held = req[i].held
        /\ req'[i].todo = req[i].todo
    BY <1>33 DEF Dispatch, GateInv, TypeInv, TypeOK, Request
  <2>3. /\ req'[i].pc \notin Early \cup Resuming
        /\ req'[i].pc = "execute" => Head(req[i].todo).tool \notin Gated
    <3>1. CASE req[i].todo = <<>>
      BY <1>33, <3>1 DEF Dispatch, Early, Resuming, GateInv, TypeInv, TypeOK, Request
    <3>2. CASE req[i].todo # <<>>
      <4>1. req'[i].pc = Route(i, Head(req[i].todo).tool, "saveMessages")
        BY <1>33, <3>2 DEF Dispatch, GateInv, TypeInv, TypeOK, Request
      <4> QED  BY <4>1 DEF Route, Early, Resuming
    <3> QED  BY <3>1, <3>2
  <2>4. Cleared(i, req'[i])
    BY <2>2, <2>3 DEF Cleared
  <2>5. ChoiceKept(req[i], req'[i])
    BY <2>2, <2>3 DEF ChoiceKept
  <2> QED  BY <1>33, <1>0, <2>1, <2>4, <2>5, GateStep, KeepsApprovals DEF Dispatch, db
<1>34. ASSUME NEW i \in Handlers, Lookup(i)
      PROVE  GateInv'
  <2>1. req' = [req EXCEPT ![i] = req'[i]]
    BY <1>34 DEF Lookup, GateInv, TypeInv, TypeOK
  <2>2. PICK tool \in Tools \ Gated :
             req' = [req EXCEPT ![i].pc = Route(i, tool, "execute"), ![i].task = "lookup",
                                ![i].ok = FALSE, ![i].turn = @ + 1,
                                ![i].todo = Numbered(<<tool>>)]
    BY <1>34 DEF Lookup
  <2>3. /\ req'[i].pc = Route(i, tool, "execute")
        /\ req'[i].todo = Numbered(<<tool>>)
        /\ req'[i].choice = req[i].choice
        /\ req'[i].held = req[i].held
    BY <2>2 DEF GateInv, TypeInv, TypeOK, Request
  <2>4. Head(Numbered(<<tool>>)).tool = tool
    BY HeadNumbered, ToolsAssumption DEF GateInv, TypeInv
  <2>5. /\ req'[i].pc \notin Early \cup Resuming
        /\ req'[i].pc = "execute" => tool \notin Gated
    BY <2>3 DEF Route, Early, Resuming
  <2>6. Cleared(i, req'[i])
    BY <2>3, <2>4, <2>5 DEF Cleared
  <2>7. ChoiceKept(req[i], req'[i])
    BY <2>3, <2>5 DEF ChoiceKept
  <2> QED  BY <1>34, <1>0, <2>1, <2>6, <2>7, GateStep, KeepsApprovals DEF Lookup, db
<1>35. ASSUME NEW i \in Handlers, ProposeAction(i)
      PROVE  GateInv'
  <2>1. req' = [req EXCEPT ![i] = req'[i]]
    BY <1>35 DEF ProposeAction, GateInv, TypeInv, TypeOK
  <2>2. PICK tool \in Tools :
             req' = [req EXCEPT ![i].pc = Route(i, tool, "markWaiting"), ![i].task = "act",
                                ![i].ok = FALSE,
                                ![i].todo = Numbered(<<tool>>)]
    BY <1>35 DEF ProposeAction
  <2>3. /\ req'[i].pc = Route(i, tool, "markWaiting")
        /\ req'[i].todo = Numbered(<<tool>>)
        /\ req'[i].choice = req[i].choice
        /\ req'[i].held = req[i].held
    BY <2>2 DEF GateInv, TypeInv, TypeOK, Request
  <2>4. Head(Numbered(<<tool>>)).tool = tool
    BY HeadNumbered, ToolsAssumption DEF GateInv, TypeInv
  <2>5. /\ req'[i].pc \notin Early \cup Resuming
        /\ req'[i].pc = "execute" => tool \notin Gated
    BY <2>3 DEF Route, Early, Resuming
  <2>6. Cleared(i, req'[i])
    BY <2>3, <2>4, <2>5 DEF Cleared
  <2>7. ChoiceKept(req[i], req'[i])
    BY <2>3, <2>5 DEF ChoiceKept
  <2> QED  BY <1>35, <1>0, <2>1, <2>6, <2>7, GateStep, KeepsApprovals DEF ProposeAction, db
<1>36. ASSUME NEW i \in Handlers, Connect(i)
      PROVE  GateInv'
  <2>1. CASE i = Starter
    BY <1>36, <1>0, <2>1, GateMove, KeepsApprovals DEF Connect, db, Early, Resuming
  <2>2. CASE i # Starter /\ ~HasHeldBack(i)
    <3>1. AfterHeldBack(req[i].mode, TRUE) \notin Early \cup Resuming \cup {"execute"}
      BY DEF AfterHeldBack, Early, Resuming
    <3> QED  BY <1>36, <1>0, <2>2, <3>1, GateMove, KeepsApprovals DEF Connect, db
  <2>3. CASE i # Starter /\ HasHeldBack(i)
    <3> DEFINE call == approvals[req[i].held].call
               r == [req[i] EXCEPT !.pc = "execute", !.task = "heldBack", !.todo = <<call>>]
    <3>1. req' = [req EXCEPT ![i] = r]
      BY <1>36, <2>3 DEF Connect, GateInv, TypeInv, TypeOK, Request
    <3>2. /\ r.pc = "execute"
          /\ r.todo = <<call>>
          /\ r.choice = req[i].choice
          /\ r.held = req[i].held
      BY DEF GateInv, TypeInv, TypeOK, Request
    <3>3. req[i].held \in DOMAIN approvals
      BY <2>3 DEF HasHeldBack, GateInv, TypeInv, CallInHand
    <3>4. req[i].choice = "APPROVED" /\ i \in Deciders
      BY <1>36, <2>3 DEF Connect, At, GateInv, Cleared, Resuming, Handlers
    <3> HIDE DEF r
    <3>5. Cleared(i, r)
      <4> HIDE DEF call
      <4>1. Head(<<call>>) = call
        OBVIOUS
      <4> QED  BY <3>2, <3>3, <3>4, <4>1 DEF Cleared, Resuming, call
    <3>6. ChoiceKept(req[i], r)
      BY <3>2 DEF ChoiceKept, Early
    <3> QED  BY <1>36, <1>0, <3>1, <3>5, <3>6, GateStep, KeepsApprovals DEF Connect, db
  <2> QED  BY <2>1, <2>2, <2>3
<1>37. ASSUME NEW i \in Handlers, Execute(i)
      PROVE  GateInv'
  <2>1. PICK ok \in BOOLEAN : req' = [req EXCEPT ![i].pc = "recordCall", ![i].ok = ok]
    BY <1>37 DEF Execute
  <2>2. /\ req'[i].pc = "recordCall"
        /\ req'[i].choice = req[i].choice
        /\ req'[i].held = req[i].held
        /\ \A j \in Handlers \ {i} : req'[j] = req[j]
    BY <2>1 DEF GateInv, TypeInv, TypeOK, Request
  <2>3. /\ approvals' = approvals
        /\ performed' = Append(performed, [call |-> Head(req[i].todo), by |-> i])
        /\ req[i].pc = "execute"
    BY <1>37 DEF Execute, At, db
  <2>4. ASSUME NEW j \in Handlers  PROVE Cleared(j, req[j])'
    <3>1. CASE j = i
      BY <2>2, <3>1 DEF Cleared, Resuming
    <3>2. CASE j # i
      BY <2>2, <2>3, <3>2 DEF GateInv, Cleared
    <3> QED  BY <3>1, <3>2
  <2>5. PerformedApproved'
    <3> SUFFICES ASSUME NEW k \in DOMAIN performed',
                        performed'[k].call.tool \in Gated
                 PROVE  (/\ ApprovedBy(performed[k].by, performed[k].call)
                         /\ req[performed[k].by].pc \notin Early)'
      BY DEF PerformedApproved
    <3>1. PICK j, c : j = performed'[k].by /\ c = performed'[k].call
      OBVIOUS
    <3>2. \/ k \in DOMAIN performed /\ performed'[k] = performed[k]
          \/ j = i /\ c = Head(req[i].todo)
      <4>1. performed \in Seq([call : Call, by : Handlers])
        BY DEF GateInv, TypeInv, TypeOK, RowsOK
      <4>2. /\ DOMAIN performed = 1 .. Len(performed)
            /\ DOMAIN performed' = 1 .. Len(performed) + 1
            /\ \A m \in 1 .. Len(performed) : performed'[m] = performed[m]
            /\ performed'[Len(performed) + 1] = [call |-> Head(req[i].todo), by |-> i]
        BY <2>3, <4>1, AppendProperties, LenProperties
      <4>3. k \in 1 .. Len(performed) \/ k = Len(performed) + 1
        BY <4>1, <4>2, LenProperties
      <4> QED  BY <3>1, <4>2, <4>3
    <3>3. ApprovedBy(j, c) /\ (j = i \/ req[j].pc \notin Early)
      <4>1. CASE k \in DOMAIN performed /\ performed'[k] = performed[k]
        BY <3>1, <4>1 DEF GateInv, PerformedApproved
      <4>2. CASE j = i /\ c = Head(req[i].todo)
        BY <2>3, <3>1, <4>2 DEF GateInv, Cleared, ApprovedBy
      <4> QED  BY <3>2, <4>1, <4>2
    <3>4. j \in Deciders /\ j \in Handlers
      BY <3>3 DEF ApprovedBy, Handlers
    <3>5. /\ req'[j].choice = req[j].choice
          /\ req'[j].held = req[j].held
          /\ req'[j].pc \notin Early
      BY <2>2, <3>3, <3>4 DEF Early
    <3>6. ApprovedBy(j, c)'
      BY <2>3, <3>3, <3>5 DEF ApprovedBy
    <3> QED  BY <2>3, <3>1, <3>3, <3>4, <3>5 DEF ApprovedBy
  <2> QED  BY <1>0, <2>4, <2>5 DEF GateInv
<1>38. ASSUME EditAgent
      PROVE  GateInv'
  BY <1>38, <1>0 DEF EditAgent, GateInv, Cleared, PerformedApproved, ApprovedBy
<1>39. CASE UNCHANGED vars
  BY <1>39, <1>0 DEF vars, GateInv, Cleared, PerformedApproved, ApprovedBy
<1> QED
  BY <1>1, <1>2, <1>3, <1>4, <1>5, <1>6, <1>7, <1>8, <1>9, <1>10, <1>11, <1>12, <1>13, <1>14, <1>15, <1>16, <1>17, <1>18, <1>19, <1>20, <1>21, <1>22, <1>23, <1>24, <1>25, <1>26, <1>27, <1>28, <1>29, <1>30, <1>31, <1>32, <1>33, <1>34, <1>35, <1>36, <1>37, <1>38, <1>39 DEF Next, Work

\* A call to a gated tool is executed only by the click that approved exactly
\* that call, whatever the handlers, their number, their interleaving, their
\* failures and the edits of the agent.
THEOREM HeldCallsAlwaysApproved == Spec => []HeldCallsApproved
<1>1. GateInv => HeldCallsApproved
  BY DEF GateInv, PerformedApproved, HeldCallsApproved
<1> QED  BY <1>1, GateInit, GateNext, PTL DEF Spec

-----------------------------------------------------------------------------
(* One handler at work, and what the status is then.                        *)

AtWork(i) == req[i].pc \notin {"idle", "ended"}

OneAtWork == \A i, j \in Handlers : AtWork(i) /\ AtWork(j) => i = j

\* No handler has started before the run exists, and the run is created once.
Created ==
    IF run.status = "NONE" THEN \A i \in Handlers : req[i].pc = "idle"
    ELSE req[Starter].pc # "idle"

\* The labels at which the run is under way, and those at which it waits.
RunningAt == {"recordInput", "connect", "loadTools", "loadMessages", "think",
              "recordDecision", "dispatch", "pipeline", "execute",
              "recordCall", "recordCallStep", "saveMessages", "markWaiting",
              "markCompleted", "markFailed"}
WaitingAt == {"findApproval", "decide", "recordGranted", "markResumed",
              "markCancelled", "recordRequest", "createApproval"}

\* The status of the run follows from where the handler at work is.
StatusFits(l, status) ==
    /\ l = "markRunning" => status = "PENDING"
    /\ l \in RunningAt => status = "RUNNING"
    /\ l \in WaitingAt => status = "WAITING_FOR_APPROVAL"
    /\ l = "recordCompleted" => status = "COMPLETED"
    /\ l \in {"recordFailed", "catchRecord"} => status = "FAILED"
    /\ l = "recordCancelled" => status = "CANCELLED"

SerialInv ==
    /\ TypeInv
    /\ OneAtWork
    /\ Created
    /\ \A i \in Handlers : StatusFits(req[i].pc, run.status)

\* A step of a handler at work, or one that starts work while nobody works.
LEMMA SerialStep ==
    ASSUME SerialInv, TypeInv', NEW i \in Handlers, NEW r,
           \A j \in Handlers \ {i} : req[j].pc \in {"idle", "ended"},
           req' = [req EXCEPT ![i] = r], r.pc # "idle",
           i # Starter => req[Starter].pc # "idle", run'.status # "NONE",
           StatusFits(r.pc, run'.status)
    PROVE  SerialInv'
<1>1. /\ req'[i] = r
      /\ \A j \in Handlers \ {i} : req'[j] = req[j]
  BY DEF SerialInv, TypeInv, TypeOK
<1>2. OneAtWork'
  BY <1>1 DEF OneAtWork, AtWork
<1>3. Created'
  BY <1>1 DEF Created, Handlers
<1>4. ASSUME NEW j \in Handlers  PROVE StatusFits(req'[j].pc, run'.status)
  BY <1>1 DEF StatusFits, RunningAt, WaitingAt
<1> QED  BY <1>2, <1>3, <1>4 DEF SerialInv

\* While a handler is at work the others rest, and the run exists.
LEMMA Alone ==
    ASSUME SerialInv, NEW i \in Handlers, AtWork(i)
    PROVE  /\ \A j \in Handlers \ {i} : req[j].pc \in {"idle", "ended"}
           /\ run.status # "NONE"
           /\ req[Starter].pc # "idle"
           /\ StatusFits(req[i].pc, run.status)
  BY DEF SerialInv, OneAtWork, AtWork, Created

\* The rows of the run and of the handlers, as records.
LEMMA Rows ==
    ASSUME TypeInv
    PROVE  /\ agent \in [mode : Modes, tools : SUBSET Tools]
           /\ run \in [status : Status, messages : Conversation]
           /\ asked \in Nat
           /\ req \in [Handlers -> Request]
  BY DEF TypeInv, TypeOK, RowsOK

\* A handler at work goes on to a label that fits the status it leaves.
LEMMA SerialWork ==
    ASSUME SerialInv, TypeInv', NEW i \in Handlers, AtWork(i),
           req' = [req EXCEPT ![i] = req'[i]], req'[i].pc # "idle",
           run'.status # "NONE", StatusFits(req'[i].pc, run'.status)
    PROVE  SerialInv'
  BY Alone, SerialStep

\* A handler that only moves on.
LEMMA SerialMove ==
    ASSUME SerialInv, TypeInv', NEW i \in Handlers, AtWork(i), NEW l,
           Goto(i, l), l # "idle", run'.status # "NONE",
           StatusFits(l, run'.status)
    PROVE  SerialInv'
<1>1. req' = [req EXCEPT ![i] = req'[i]] /\ req'[i].pc = l
  BY Rows DEF Goto, SerialInv, Request
<1> QED  BY <1>1, SerialWork

\* The two generic steps of the repository.
LEMMA SerialMark ==
    ASSUME SerialInv, TypeInv', NEW i \in Handlers, NEW here, NEW status, NEW next,
           MarkRunStatus(i, here, status, next), here \notin {"idle", "ended"},
           status # "NONE", next # "idle", StatusFits(next, status)
    PROVE  SerialInv'
<1>1. AtWork(i) /\ Goto(i, next) /\ run'.status = status
  BY Rows DEF MarkRunStatus, At, AtWork, SerialInv
<1> QED  BY <1>1, SerialMove

LEMMA SerialRecord ==
    ASSUME SerialInv, TypeInv', NEW i \in Handlers, NEW here, NEW step, NEW next,
           AddRunStep(i, here, step, next), here \notin {"idle", "ended"},
           next # "idle",
           \A status : StatusFits(here, status) => StatusFits(next, status)
    PROVE  SerialInv'
<1>1. AtWork(i) /\ Goto(i, next) /\ run' = run /\ req[i].pc = here
  BY DEF AddRunStep, At, AtWork
<1> QED  BY <1>1, Alone, SerialMove

\* The calls a sequence holds.
Items(calls) == {calls[k] : k \in DOMAIN calls}

LEMMA ItemsEmpty ==
    ASSUME NEW calls \in Seq(Call)
    PROVE  Items(calls) = {} <=> calls = <<>>
<1>1. DOMAIN calls = 1 .. Len(calls) /\ Len(calls) \in Nat
  BY LenProperties
<1>2. calls = <<>> <=> Len(calls) = 0
  BY EmptySeq
<1>3. Len(calls) # 0 => 1 \in DOMAIN calls
  BY <1>1
<1>4. Len(calls) = 0 => DOMAIN calls = {}
  BY <1>1
<1> QED  BY <1>2, <1>3, <1>4 DEF Items

\* What RecordDecision changes of its handler.
LEMMA DecisionRecorded ==
    ASSUME TypeInv, NEW i \in Handlers, RecordDecision(i)
    PROVE  /\ req' = [req EXCEPT ![i] = req'[i]]
           /\ req'[i].pc = IF req[i].todo # <<>> THEN "dispatch"
                           ELSE IF req[i].ok THEN "markCompleted"
                           ELSE "markFailed"
           /\ req'[i].task = "turn"
           /\ req'[i].talk.asks = req[i].talk.asks \cup Items(req[i].todo)
           /\ req'[i].talk.answers = req[i].talk.answers
           /\ req'[i].todo = req[i].todo
           /\ req'[i].turn = req[i].turn
           /\ req'[i].mode = req[i].mode
           /\ req'[i].tools = req[i].tools
           /\ req'[i].held = req[i].held
<1> DEFINE calls == {req[i].todo[k] : k \in DOMAIN req[i].todo}
           l == IF calls # {} THEN "dispatch"
                ELSE IF req[i].ok THEN "markCompleted" ELSE "markFailed"
           new == req[i].talk.asks \cup calls
<1>1. req' = [req EXCEPT ![i].pc = l, ![i].talk.asks = new, ![i].task = "turn"]
  BY DEF RecordDecision
<1>2. calls = Items(req[i].todo) /\ (calls # {} <=> req[i].todo # <<>>)
  BY ItemsEmpty DEF TypeInv, TypeOK, Request, Items
<1> HIDE DEF calls, new, l
<1>3. /\ req' = [req EXCEPT ![i] = req'[i]]
      /\ req'[i] = [req[i] EXCEPT !.pc = l, !.talk = [@ EXCEPT !.asks = new],
                                  !.task = "turn"]
  BY <1>1 DEF TypeInv, TypeOK, Request
<1>4. req[i] \in Request /\ req[i].talk \in Conversation
  BY DEF TypeInv, TypeOK, Request
<1>5. /\ req'[i].pc = l
      /\ req'[i].talk.asks = new
      /\ req'[i].talk.answers = req[i].talk.answers
  BY <1>3, <1>4 DEF Request, Conversation
<1> QED  BY <1>2, <1>3, <1>4, <1>5 DEF Request, l, new

\* Initially nobody works.
LEMMA SerialInit == Init => SerialInv
<1> SUFFICES ASSUME Init  PROVE SerialInv
  OBVIOUS
<1>1. \A i \in Handlers : req[i].pc = "idle"
  BY DEF Init, IdleRequest
<1>2. OneAtWork /\ Created
  BY <1>1 DEF OneAtWork, AtWork, Created, Init
<1>3. \A i \in Handlers : StatusFits(req[i].pc, run.status)
  BY <1>1 DEF StatusFits, RunningAt, WaitingAt
<1> QED  BY <1>2, <1>3, InitType DEF SerialInv

\* Without Overlap every action leaves one handler at work.
LEMMA SerialNext ==
    ASSUME ~Overlap
    PROVE  SerialInv /\ [Next]_vars => SerialInv'
<1> SUFFICES ASSUME SerialInv, [Next]_vars  PROVE SerialInv'
  OBVIOUS
<1>0. TypeInv'
  BY NextType DEF SerialInv
<1>1. ASSUME NEW i \in Handlers, MarkRunning(i)
      PROVE  SerialInv'
  BY <1>1, <1>0, SerialMark DEF MarkRunning, StatusFits, RunningAt, WaitingAt
<1>2. ASSUME NEW i \in Handlers, MarkWaiting(i)
      PROVE  SerialInv'
  BY <1>2, <1>0, SerialMark DEF MarkWaiting, StatusFits, RunningAt, WaitingAt
<1>3. ASSUME NEW i \in Handlers, MarkCompleted(i)
      PROVE  SerialInv'
  BY <1>3, <1>0, SerialMark DEF MarkCompleted, StatusFits, RunningAt, WaitingAt
<1>4. ASSUME NEW i \in Handlers, MarkFailed(i)
      PROVE  SerialInv'
  BY <1>4, <1>0, SerialMark DEF MarkFailed, StatusFits, RunningAt, WaitingAt
<1>5. ASSUME NEW i \in Handlers, CatchFailed(i)
      PROVE  SerialInv'
  BY <1>5, <1>0, SerialMark DEF CatchFailed, StatusFits, RunningAt, WaitingAt
<1>6. ASSUME NEW i \in Handlers, MarkResumed(i)
      PROVE  SerialInv'
  BY <1>6, <1>0, SerialMark DEF MarkResumed, StatusFits, RunningAt, WaitingAt
<1>7. ASSUME NEW i \in Handlers, MarkCancelled(i)
      PROVE  SerialInv'
  BY <1>7, <1>0, SerialMark DEF MarkCancelled, StatusFits, RunningAt, WaitingAt
<1>8. ASSUME NEW i \in Handlers, RecordInput(i)
      PROVE  SerialInv'
  BY <1>8, <1>0, SerialRecord DEF RecordInput, StatusFits, RunningAt, WaitingAt
<1>9. ASSUME NEW i \in Handlers, RecordRequest(i)
      PROVE  SerialInv'
  BY <1>9, <1>0, SerialRecord DEF RecordRequest, StatusFits, RunningAt, WaitingAt
<1>10. ASSUME NEW i \in Handlers, RecordCompleted(i)
      PROVE  SerialInv'
  BY <1>10, <1>0, SerialRecord DEF RecordCompleted, StatusFits, RunningAt, WaitingAt
<1>11. ASSUME NEW i \in Handlers, RecordFailed(i)
      PROVE  SerialInv'
  BY <1>11, <1>0, SerialRecord DEF RecordFailed, StatusFits, RunningAt, WaitingAt
<1>12. ASSUME NEW i \in Handlers, CatchRecord(i)
      PROVE  SerialInv'
  BY <1>12, <1>0, SerialRecord DEF CatchRecord, StatusFits, RunningAt, WaitingAt
<1>13. ASSUME NEW i \in Handlers, RecordGranted(i)
      PROVE  SerialInv'
  BY <1>13, <1>0, SerialRecord DEF RecordGranted, StatusFits, RunningAt, WaitingAt
<1>14. ASSUME NEW i \in Handlers, RecordCancelled(i)
      PROVE  SerialInv'
  BY <1>14, <1>0, SerialRecord DEF RecordCancelled, StatusFits, RunningAt, WaitingAt
<1>15. ASSUME NEW i \in Handlers, ExceedSteps(i)
      PROVE  SerialInv'
  <2>1. AtWork(i) /\ run' = run
    BY <1>15 DEF ExceedSteps, At, AtWork, db
  <2> QED  BY <1>15, <1>0, <2>1, Alone, SerialMove DEF ExceedSteps, At, StatusFits, RunningAt, WaitingAt
<1>16. ASSUME NEW i \in Handlers, FinishPipeline(i)
      PROVE  SerialInv'
  <2>1. AtWork(i) /\ run' = run
    BY <1>16 DEF FinishPipeline, At, AtWork, db
  <2> QED  BY <1>16, <1>0, <2>1, Alone, SerialMove DEF FinishPipeline, At, StatusFits, RunningAt, WaitingAt
<1>17. ASSUME NEW i \in Handlers, Return(i)
      PROVE  SerialInv'
  <2>1. AtWork(i) /\ run' = run
    BY <1>17 DEF Return, At, AtWork, db
  <2> QED  BY <1>17, <1>0, <2>1, Alone, SerialMove DEF Return, At, StatusFits, RunningAt, WaitingAt
<1>18. ASSUME NEW i \in Handlers, RecordCall(i)
      PROVE  SerialInv'
  <2>1. AtWork(i) /\ run' = run
    BY <1>18 DEF RecordCall, At, AtWork
  <2> QED  BY <1>18, <1>0, <2>1, Alone, SerialMove DEF RecordCall, At, StatusFits, RunningAt, WaitingAt
<1>19. ASSUME NEW i \in Handlers, CreateApproval(i)
      PROVE  SerialInv'
  <2>1. AtWork(i) /\ run' = run
    BY <1>19 DEF CreateApproval, At, AtWork
  <2> QED  BY <1>19, <1>0, <2>1, Alone, SerialMove DEF CreateApproval, At, StatusFits, RunningAt, WaitingAt
<1>20. ASSUME NEW i \in Handlers, SaveMessages(i)
      PROVE  SerialInv'
  <2>1. AtWork(i) /\ run'.status = run.status
    BY <1>20, Rows DEF SaveMessages, At, AtWork, SerialInv
  <2> QED  BY <1>20, <1>0, <2>1, Alone, SerialMove DEF SaveMessages, At, StatusFits, RunningAt, WaitingAt
<1>21. ASSUME NEW i \in Handlers, Throw(i)
      PROVE  SerialInv'
  <2>1. AtWork(i) /\ run' = run
    BY <1>21 DEF Throw, AtWork, InTry, BeforeTry, InCatch, db
  <2> QED  BY <1>21, <1>0, <2>1, Alone, SerialMove DEF Throw, StatusFits, RunningAt, WaitingAt
<1>22. ASSUME NEW i \in Handlers, Crash(i)
      PROVE  SerialInv'
  <2>1. AtWork(i) /\ run' = run
    BY <1>22 DEF Crash, AtWork, db
  <2> QED  BY <1>22, <1>0, <2>1, Alone, SerialMove DEF Crash, StatusFits, RunningAt, WaitingAt
<1>23. ASSUME NEW i \in Handlers, Connect(i)
      PROVE  SerialInv'
  <2>1. AtWork(i) /\ run' = run
    BY <1>23 DEF Connect, At, AtWork, db
  <2>2. req' = [req EXCEPT ![i] = req'[i]]
    BY <1>23 DEF Connect, Goto, SerialInv, TypeInv, TypeOK
  <2>3. req'[i].pc # "idle" /\ StatusFits(req'[i].pc, run.status)
    BY <1>23, <2>1, Alone DEF Connect, At, SerialInv, TypeInv, TypeOK, Request, StatusFits, RunningAt, WaitingAt, AfterHeldBack, HasHeldBack, Goto
  <2> QED  BY <1>0, <2>1, <2>2, <2>3, Alone, SerialWork
<1>24. ASSUME NEW i \in Handlers, LoadTools(i)
      PROVE  SerialInv'
  <2>1. AtWork(i) /\ run' = run
    BY <1>24 DEF LoadTools, At, AtWork, db
  <2>2. req' = [req EXCEPT ![i] = req'[i]]
    BY <1>24 DEF LoadTools, SerialInv, TypeInv, TypeOK
  <2>3. req'[i].pc # "idle" /\ StatusFits(req'[i].pc, run.status)
    BY <1>24, <2>1, Alone DEF LoadTools, At, SerialInv, TypeInv, TypeOK, Request, StatusFits, RunningAt, WaitingAt
  <2> QED  BY <1>0, <2>1, <2>2, <2>3, Alone, SerialWork
<1>25. ASSUME NEW i \in Handlers, LoadMessages(i)
      PROVE  SerialInv'
  <2>1. AtWork(i) /\ run' = run
    BY <1>25 DEF LoadMessages, At, AtWork, db
  <2>2. req' = [req EXCEPT ![i] = req'[i]]
    BY <1>25 DEF LoadMessages, SerialInv, TypeInv, TypeOK
  <2>3. req'[i].pc # "idle" /\ StatusFits(req'[i].pc, run.status)
    BY <1>25, <2>1, Alone DEF LoadMessages, At, SerialInv, TypeInv, TypeOK, Request, StatusFits, RunningAt, WaitingAt
  <2> QED  BY <1>0, <2>1, <2>2, <2>3, Alone, SerialWork
<1>26. ASSUME NEW i \in Handlers, Think(i)
      PROVE  SerialInv'
  <2>1. AtWork(i) /\ run' = run
    BY <1>26 DEF Think, At, AtWork, db
  <2>2. req' = [req EXCEPT ![i] = req'[i]]
    BY <1>26 DEF Think, SerialInv, TypeInv, TypeOK
  <2>3. req'[i].pc # "idle" /\ StatusFits(req'[i].pc, run.status)
    BY <1>26, <2>1, Alone DEF Think, At, SerialInv, TypeInv, TypeOK, Request, StatusFits, RunningAt, WaitingAt
  <2> QED  BY <1>0, <2>1, <2>2, <2>3, Alone, SerialWork
<1>27. ASSUME NEW i \in Handlers, RecordDecision(i)
      PROVE  SerialInv'
  <2>1. AtWork(i) /\ run' = run /\ req[i].pc = "recordDecision"
    BY <1>27 DEF RecordDecision, At, AtWork
  <2>2. req'[i].pc \in {"dispatch", "markCompleted", "markFailed"}
    BY <1>27, DecisionRecorded DEF SerialInv, TypeInv, TypeOK, Request
  <2> QED
    BY <1>27, <1>0, <2>1, <2>2, DecisionRecorded, Alone, SerialWork
    DEF SerialInv, StatusFits, RunningAt, WaitingAt
<1>28. ASSUME NEW i \in Handlers, Dispatch(i)
      PROVE  SerialInv'
  <2>1. AtWork(i) /\ run' = run
    BY <1>28 DEF Dispatch, At, AtWork, db
  <2>2. req' = [req EXCEPT ![i] = req'[i]]
    BY <1>28 DEF Dispatch, SerialInv, TypeInv, TypeOK
  <2>3. req'[i].pc # "idle" /\ StatusFits(req'[i].pc, run.status)
    BY <1>28, <2>1, Alone DEF Dispatch, At, SerialInv, TypeInv, TypeOK, Request, StatusFits, RunningAt, WaitingAt, Route
  <2> QED  BY <1>0, <2>1, <2>2, <2>3, Alone, SerialWork
<1>29. ASSUME NEW i \in Handlers, Execute(i)
      PROVE  SerialInv'
  <2>1. AtWork(i) /\ run' = run
    BY <1>29 DEF Execute, At, AtWork, db
  <2>2. req' = [req EXCEPT ![i] = req'[i]]
    BY <1>29 DEF Execute, SerialInv, TypeInv, TypeOK
  <2>3. req'[i].pc # "idle" /\ StatusFits(req'[i].pc, run.status)
    BY <1>29, <2>1, Alone DEF Execute, At, SerialInv, TypeInv, TypeOK, Request, StatusFits, RunningAt, WaitingAt
  <2> QED  BY <1>0, <2>1, <2>2, <2>3, Alone, SerialWork
<1>30. ASSUME NEW i \in Handlers, RecordCallStep(i)
      PROVE  SerialInv'
  <2>1. AtWork(i) /\ run' = run
    BY <1>30 DEF RecordCallStep, At, AtWork, db
  <2>2. req' = [req EXCEPT ![i] = req'[i]]
    BY <1>30 DEF RecordCallStep, SerialInv, TypeInv, TypeOK
  <2>3. req'[i].pc # "idle" /\ StatusFits(req'[i].pc, run.status)
    BY <1>30, <2>1, Alone DEF RecordCallStep, At, SerialInv, TypeInv, TypeOK, Request, StatusFits, RunningAt, WaitingAt, AfterCall, AfterHeldBack
  <2> QED  BY <1>0, <2>1, <2>2, <2>3, Alone, SerialWork
<1>31. ASSUME NEW i \in Handlers, Lookup(i)
      PROVE  SerialInv'
  <2>1. AtWork(i) /\ run' = run
    BY <1>31 DEF Lookup, At, AtWork, db
  <2>2. req' = [req EXCEPT ![i] = req'[i]]
    BY <1>31 DEF Lookup, SerialInv, TypeInv, TypeOK
  <2>3. req'[i].pc # "idle" /\ StatusFits(req'[i].pc, run.status)
    BY <1>31, <2>1, Alone DEF Lookup, At, SerialInv, TypeInv, TypeOK, Request, StatusFits, RunningAt, WaitingAt, Route
  <2> QED  BY <1>0, <2>1, <2>2, <2>3, Alone, SerialWork
<1>32. ASSUME NEW i \in Handlers, ProposeAction(i)
      PROVE  SerialInv'
  <2>1. AtWork(i) /\ run' = run
    BY <1>32 DEF ProposeAction, At, AtWork, db
  <2>2. req' = [req EXCEPT ![i] = req'[i]]
    BY <1>32 DEF ProposeAction, SerialInv, TypeInv, TypeOK
  <2>3. req'[i].pc # "idle" /\ StatusFits(req'[i].pc, run.status)
    BY <1>32, <2>1, Alone DEF ProposeAction, At, SerialInv, TypeInv, TypeOK, Request, StatusFits, RunningAt, WaitingAt, Route
  <2> QED  BY <1>0, <2>1, <2>2, <2>3, Alone, SerialWork
<1>33. ASSUME NEW i \in Handlers, FindRun(i)
      PROVE  SerialInv'
  <2>1. AtWork(i) /\ run' = run
    BY <1>33 DEF FindRun, At, AtWork, db
  <2>2. req' = [req EXCEPT ![i] = req'[i]]
    BY <1>33 DEF FindRun, SerialInv, TypeInv, TypeOK
  <2>3. req'[i].pc # "idle" /\ StatusFits(req'[i].pc, run.status)
    BY <1>33, <2>1, Alone DEF FindRun, At, SerialInv, TypeInv, TypeOK, Request, StatusFits, RunningAt, WaitingAt, Decidable
  <2> QED  BY <1>0, <2>1, <2>2, <2>3, Alone, SerialWork
<1>34. ASSUME NEW i \in Handlers, FindApproval(i)
      PROVE  SerialInv'
  <2>1. AtWork(i) /\ run' = run
    BY <1>34 DEF FindApproval, At, AtWork, db
  <2>2. req' = [req EXCEPT ![i] = req'[i]]
    BY <1>34 DEF FindApproval, SerialInv, TypeInv, TypeOK
  <2>3. req'[i].pc # "idle" /\ StatusFits(req'[i].pc, run.status)
    BY <1>34, <2>1, Alone DEF FindApproval, At, SerialInv, TypeInv, TypeOK, Request, StatusFits, RunningAt, WaitingAt, AfterDecision
  <2> QED  BY <1>0, <2>1, <2>2, <2>3, Alone, SerialWork
<1>35. ASSUME NEW i \in Handlers, Decide(i)
      PROVE  SerialInv'
  <2>1. AtWork(i) /\ run' = run
    BY <1>35 DEF Decide, At, AtWork, db
  <2>2. req' = [req EXCEPT ![i] = req'[i]]
    BY <1>35 DEF Decide, Goto, SerialInv, TypeInv, TypeOK
  <2>3. req'[i].pc # "idle" /\ StatusFits(req'[i].pc, run.status)
    BY <1>35, <2>1, Alone DEF Decide, At, SerialInv, TypeInv, TypeOK, Request, StatusFits, RunningAt, WaitingAt, AfterDecision, Goto
  <2> QED  BY <1>0, <2>1, <2>2, <2>3, Alone, SerialWork
<1>36. ASSUME NEW i \in Handlers, CreateRun(i)
      PROVE  SerialInv'
  <2>1. run.status = "NONE" /\ \A j \in Handlers : req[j].pc = "idle"
    BY <1>36 DEF CreateRun, At, SerialInv, Created
  <2>2. run'.status = "PENDING" /\ req' = [req EXCEPT ![i] = req'[i]] /\ req'[i].pc = "markRunning"
    BY <1>36, Rows DEF CreateRun, SerialInv, Request
  <2>3. i = Starter
    BY <1>36 DEF CreateRun
  <2> QED  BY <1>0, <2>1, <2>2, <2>3, SerialStep DEF StatusFits, RunningAt, WaitingAt
<1>37. ASSUME NEW i \in Handlers, StartDecision(i)
      PROVE  SerialInv'
  <2>1. run' = run /\ run.status # "NONE" /\ Quiet /\ req[Starter].pc # "idle"
    BY <1>37 DEF StartDecision, db, SerialInv, Created
  <2>2. PICK choice \in Choices :
             req' = [req EXCEPT ![i].pc = "findRun", ![i].choice = choice]
    BY <1>37 DEF StartDecision
  <2>3. req' = [req EXCEPT ![i] = req'[i]]
    BY <2>2 DEF SerialInv, TypeInv, TypeOK
  <2>4. req'[i].pc = "findRun"
    BY <2>2 DEF SerialInv, TypeInv, TypeOK, Request
  <2> QED  BY <1>0, <2>1, <2>3, <2>4, SerialStep DEF Quiet, StatusFits, RunningAt, WaitingAt
<1>38. ASSUME EditAgent
      PROVE  SerialInv'
  BY <1>38, <1>0 DEF EditAgent, SerialInv, OneAtWork, AtWork, Created
<1>39. CASE UNCHANGED vars
  BY <1>39, <1>0 DEF vars, SerialInv, OneAtWork, AtWork, Created
<1> QED
  BY
     <1>1, <1>2, <1>3, <1>4, <1>5, <1>6, <1>7, <1>8, <1>9, <1>10, <1>11,
     <1>12, <1>13, <1>14, <1>15, <1>16, <1>17, <1>18, <1>19, <1>20,
     <1>21, <1>22, <1>23, <1>24, <1>25, <1>26, <1>27, <1>28, <1>29,
     <1>30, <1>31, <1>32, <1>33, <1>34, <1>35, <1>36, <1>37, <1>38,
     <1>39
  DEF Next, Work

\* A run that has ended does not run or wait again, when decisions arrive one
\* at a time: every write of another status comes from a handler that found the
\* run in progress, whatever failed before.
THEOREM EndedAlwaysStays ==
    ASSUME ~Overlap
    PROVE  Spec => EndedStaysEnded
<1>1. ASSUME SerialInv, [Next]_vars, run.status \in Terminal
      PROVE  run'.status \in Terminal
  <2> USE DEF Terminal
  <2>1. ASSUME NEW i \in Handlers,
               MarkRunning(i) \/ MarkWaiting(i) \/ MarkResumed(i)
        PROVE  FALSE
    BY <1>1, <2>1 DEF SerialInv, MarkRunning, MarkWaiting, MarkResumed,
       MarkRunStatus, At, StatusFits, RunningAt, WaitingAt
  <2>2. ASSUME NEW i \in Handlers,
               MarkCompleted(i) \/ MarkFailed(i) \/ CatchFailed(i) \/ MarkCancelled(i)
        PROVE  run'.status \in Terminal
    BY <1>1, <2>2, Rows DEF SerialInv, MarkCompleted, MarkFailed, CatchFailed,
       MarkCancelled, MarkRunStatus
  <2>3. ASSUME NEW i \in Handlers, CreateRun(i)
        PROVE  FALSE
    BY <1>1, <2>3 DEF SerialInv, Created, CreateRun, At
  <2>4. ASSUME NEW i \in Handlers, SaveMessages(i)
        PROVE  run'.status = run.status
    BY <1>1, <2>4, Rows DEF SerialInv, SaveMessages
  <2>5. ASSUME NEW i \in Handlers,
               \/ RecordInput(i) \/ RecordRequest(i) \/ RecordCompleted(i)
               \/ RecordFailed(i) \/ CatchRecord(i) \/ RecordGranted(i)
               \/ RecordCancelled(i)
        PROVE  run' = run
    BY <2>5 DEF RecordInput, RecordRequest, RecordCompleted, RecordFailed,
       CatchRecord, RecordGranted, RecordCancelled, AddRunStep
  <2>6. ASSUME NEW i \in Handlers,
               \/ Connect(i) \/ LoadTools(i) \/ LoadMessages(i) \/ Think(i)
               \/ ExceedSteps(i) \/ Dispatch(i) \/ Execute(i) \/ Lookup(i)
               \/ ProposeAction(i) \/ FinishPipeline(i) \/ Return(i)
               \/ FindRun(i) \/ FindApproval(i) \/ StartDecision(i)
               \/ Throw(i) \/ Crash(i)
        PROVE  run' = run
    BY <2>6 DEF Connect, LoadTools, LoadMessages, Think, ExceedSteps, Dispatch,
       Execute, Lookup, ProposeAction, FinishPipeline, Return, FindRun,
       FindApproval, StartDecision, Throw, Crash, db
  <2>7. ASSUME NEW i \in Handlers,
               \/ RecordDecision(i) \/ RecordCall(i) \/ RecordCallStep(i)
               \/ CreateApproval(i) \/ Decide(i)
        PROVE  run' = run
    BY <2>7 DEF RecordDecision, RecordCall, RecordCallStep, CreateApproval, Decide
  <2>8. CASE EditAgent \/ UNCHANGED vars
    BY <1>1, <2>8 DEF EditAgent, vars
  <2> QED
    BY <1>1, <2>1, <2>2, <2>3, <2>4, <2>5, <2>6, <2>7, <2>8 DEF Next, Work
<1> QED  BY <1>1, SerialInit, SerialNext, PTL DEF Spec, EndedStaysEnded

\* The run that is put back to RUNNING is one that waits, when decisions arrive
\* one at a time: only a second decision in between can make it otherwise.
THEOREM ResumedWaitingWhenSerial ==
    ASSUME ~Overlap
    PROVE  Spec => ResumedOnlyWhileWaiting
<1>1. SerialInv => \A i \in Deciders :
                       MarkResumed(i) => run.status = "WAITING_FOR_APPROVAL"
  BY DEF SerialInv, MarkResumed, MarkRunStatus, At, StatusFits, WaitingAt,
     Handlers
<1> QED  BY <1>1, SerialInit, SerialNext, PTL DEF Spec, ResumedOnlyWhileWaiting

-----------------------------------------------------------------------------
(* Each proposal once.                                                      *)

\* The calls performed so far, and those an approval was asked for.
Done == {performed[k].call : k \in DOMAIN performed}
Held == {approvals[k].call : k \in DOMAIN approvals}

\* A call that was proposed and went nowhere yet, and a sequence of such calls,
\* none of them twice.
Fresh(c, used, n) == c \notin used /\ c.n \in 1 .. n

Unused(calls, used, n) ==
    \A k \in DOMAIN calls :
        /\ Fresh(calls[k], used, n)
        /\ \A j \in DOMAIN calls : calls[j] = calls[k] => j = k

\* What the rows say: a call is performed once and held back once, only gated
\* calls are held back, and only approved ones of those are performed.
CallsRows ==
    /\ \A c \in Done \cup Held : c.n \in 1 .. asked
    /\ OncePerProposal
    /\ \A j, k \in DOMAIN approvals :
           approvals[j].call = approvals[k].call => j = k
    /\ \A k \in DOMAIN approvals :
           /\ approvals[k].call.tool \in Gated
           /\ approvals[k].status # "APPROVED" => approvals[k].call \notin Done

Pausing == {"saveMessages", "markWaiting", "recordRequest", "createApproval"}

\* The decision that resumes the run is about an approved, unperformed call.
Granted(k) ==
    /\ k # 0
    /\ approvals[k].status = "APPROVED"
    /\ approvals[k].call \notin Done

\* What a handler in state r has in hand.
CallsOf(i, r) ==
    /\ r.pc \in {"recordDecision", "dispatch"} \cup Pausing
           => Unused(r.todo, Done \cup Held, asked)
    /\ r.pc = "dispatch" => r.task = "turn"
    /\ r.pc \in Pausing => Head(r.todo).tool \in Gated
    /\ r.pc = "execute" /\ r.task = "heldBack"
           => Granted(r.held) /\ r.todo = <<approvals[r.held].call>>
    /\ r.pc = "execute" /\ r.task # "heldBack"
           => /\ Unused(r.todo, Done \cup Held, asked)
              /\ Head(r.todo).tool \notin Gated
    /\ r.pc \in {"recordCall", "recordCallStep"}
           => Unused(Tail(r.todo), Done \cup Held, asked)
    /\ r.pc = "decide" => approvals[r.held].status = "PENDING"
    /\ i # Starter => r.pc \notin {"markRunning", "recordInput"}
    /\ i # Starter /\ r.held # 0
                   /\ r.pc \in {"recordGranted", "markResumed", "connect"}
           => Granted(r.held)

CallsInv ==
    /\ SerialInv
    /\ CallsRows
    /\ \A i \in Handlers : CallsOf(i, req[i])

\* A larger count of proposals leaves unused calls unused.
LEMMA UnusedMore ==
    ASSUME NEW calls, NEW used, NEW n \in Nat, NEW m \in Nat, n <= m,
           Unused(calls, used, n)
    PROVE  Unused(calls, used, m)
  BY DEF Unused, Fresh

\* The head of unused calls is fresh, and the others stay unused once the head
\* is used.
LEMMA UnusedTail ==
    ASSUME NEW calls \in Seq(Call), calls # <<>>, NEW used, NEW n,
           Unused(calls, used, n)
    PROVE  /\ Fresh(Head(calls), used, n)
           /\ Unused(Tail(calls), used \cup {Head(calls)}, n)
           /\ Unused(Tail(calls), used, n)
<1>1. /\ DOMAIN calls = 1 .. Len(calls)
      /\ Len(calls) \in Nat \ {0}
      /\ Head(calls) = calls[1]
      /\ Tail(calls) \in Seq(Call)
      /\ Len(Tail(calls)) = Len(calls) - 1
      /\ \A k \in 1 .. Len(Tail(calls)) : Tail(calls)[k] = calls[k + 1]
  BY EmptySeq, LenProperties, HeadTailProperties
<1>2. DOMAIN Tail(calls) = 1 .. Len(Tail(calls))
  BY <1>1, LenProperties
<1>3. Fresh(Head(calls), used, n)
  BY <1>1 DEF Unused
<1>4. ASSUME NEW k \in DOMAIN Tail(calls)
      PROVE  /\ Tail(calls)[k] # Head(calls)
             /\ Fresh(Tail(calls)[k], used, n)
             /\ \A j \in DOMAIN Tail(calls) :
                    Tail(calls)[j] = Tail(calls)[k] => j = k
  <2>1. k + 1 \in DOMAIN calls /\ 1 \in DOMAIN calls /\ k + 1 # 1
    BY <1>1, <1>2
  <2>2. \A j \in DOMAIN Tail(calls) :
            /\ j + 1 \in DOMAIN calls
            /\ j + 1 = k + 1 => j = k
            /\ Tail(calls)[j] = calls[j + 1]
    BY <1>1, <1>2
  <2> QED  BY <1>1, <1>2, <2>1, <2>2 DEF Unused
<1> QED  BY <1>3, <1>4 DEF Unused, Fresh

\* No calls, or a single fresh one, are unused.
LEMMA UnusedFew ==
    ASSUME NEW c, NEW used, NEW n, Fresh(c, used, n)
    PROVE  Unused(<<c>>, used, n)
  BY DEF Unused

LEMMA UnusedNone ==
    ASSUME NEW used, NEW n
    PROVE  Unused(<<>>, used, n)
  BY DEF Unused

\* The calls of an answer are unused once they are counted as proposed.
LEMMA NumberedUnused ==
    ASSUME TypeInv, NEW tools \in Seq(Tools),
           NEW used, \A c \in used : c.n \in 1 .. asked
    PROVE  Unused(Numbered(tools), used, asked + Len(tools))
<1>1. /\ DOMAIN tools = 1 .. Len(tools)
      /\ Len(tools) \in Nat
      /\ asked \in Nat
  BY LenProperties, Rows
<1>2. \A k \in 1 .. Len(tools) : Numbered(tools)[k].n = asked + k
  BY <1>1 DEF Numbered
<1>3. DOMAIN Numbered(tools) = 1 .. Len(tools)
  BY <1>1 DEF Numbered
<1>4. ASSUME NEW k \in 1 .. Len(tools)
      PROVE  Fresh(Numbered(tools)[k], used, asked + Len(tools))
  <2>1. Numbered(tools)[k].n = asked + k
    BY <1>2
  <2>2. asked + k \in 1 .. asked + Len(tools) /\ asked + k \notin 1 .. asked
    BY <1>1
  <2> QED  BY <2>1, <2>2 DEF Fresh
<1>5. ASSUME NEW k \in 1 .. Len(tools), NEW j \in 1 .. Len(tools),
             Numbered(tools)[j] = Numbered(tools)[k]
      PROVE  j = k
  <2>1. Numbered(tools)[k].n = asked + k /\ Numbered(tools)[j].n = asked + j
    BY <1>2
  <2>2. asked + k = asked + j
    BY <1>5, <2>1
  <2> QED  BY <1>1, <2>2
<1> QED  BY <1>3, <1>4, <1>5 DEF Unused

\* The same for the one call of a pipeline's step.
LEMMA OneNumberedUnused ==
    ASSUME TypeInv, NEW tool \in Tools,
           NEW used, \A c \in used : c.n \in 1 .. asked
    PROVE  /\ Unused(Numbered(<<tool>>), used, asked + 1)
           /\ Unused(Tail(Numbered(<<tool>>)), used, asked + 1)
<1>1. <<tool>> \in Seq(Tools) /\ Len(<<tool>>) = 1
  OBVIOUS
<1>2. /\ Numbered(<<tool>>) \in Seq(Call)
      /\ Len(Numbered(<<tool>>)) = 1
  BY <1>1, NumberedType DEF TypeInv
<1>3. Numbered(<<tool>>) # <<>>
  BY <1>2, EmptySeq
<1>4. Unused(Numbered(<<tool>>), used, asked + 1)
  BY <1>1, NumberedUnused
<1> QED  BY <1>2, <1>3, <1>4, UnusedTail

\* A step of the handler at work that leaves the calls in the rows alone.
LEMMA CallsStep ==
    ASSUME CallsInv, SerialInv', NEW i \in Handlers,
           \A j \in Handlers \ {i} : req[j].pc \in {"idle", "ended"},
           req' = [req EXCEPT ![i] = req'[i]],
           CallsRows', CallsOf(i, req[i])'
    PROVE  CallsInv'
<1>1. \A j \in Handlers \ {i} : req'[j] = req[j]
  BY DEF CallsInv, SerialInv, TypeInv, TypeOK
<1>2. ASSUME NEW j \in Handlers \ {i}  PROVE CallsOf(j, req[j])'
  BY <1>1 DEF CallsOf, Pausing
<1> QED  BY <1>2 DEF CallsInv

LEMMA CallsRowsKept ==
    ASSUME CallsInv, performed' = performed, approvals' = approvals,
           asked' \in Nat, asked <= asked'
    PROVE  CallsRows' /\ Done' = Done /\ Held' = Held
<1>1. Done' = Done /\ Held' = Held
  BY DEF Done, Held
<1>2. asked \in Nat
  BY Rows DEF CallsInv, SerialInv
<1>3. \A c \in Done \cup Held : c.n \in 1 .. asked'
  BY <1>2 DEF CallsInv, CallsRows
<1> QED  BY <1>1, <1>3 DEF CallsInv, CallsRows, OncePerProposal

\* The labels at which a handler's calls matter.
CallsAt == {"recordDecision", "dispatch", "execute", "recordCall",
            "recordCallStep", "decide", "recordGranted", "markResumed",
            "connect", "markRunning", "recordInput"} \cup Pausing

\* A handler that goes where its calls do not matter.
LEMMA CallsLeave ==
    ASSUME CallsInv, SerialInv', NEW i \in Handlers, AtWork(i),
           UNCHANGED <<performed, approvals, asked>>,
           req' = [req EXCEPT ![i] = req'[i]],
           req'[i].pc \notin CallsAt
    PROVE  CallsInv'
<1>1. CallsRows'
  BY CallsRowsKept, Rows DEF CallsInv, SerialInv
<1>2. CallsOf(i, req[i])'
  BY DEF CallsOf, CallsAt, Pausing
<1> QED  BY <1>1, <1>2, Alone, CallsStep DEF CallsInv

\* The same, for a handler that only moves on.
LEMMA CallsMove ==
    ASSUME CallsInv, SerialInv', NEW i \in Handlers, AtWork(i),
           UNCHANGED <<performed, approvals, asked>>,
           NEW l, Goto(i, l), l \notin CallsAt
    PROVE  CallsInv'
<1>1. req' = [req EXCEPT ![i] = req'[i]] /\ req'[i].pc = l
  BY Rows DEF Goto, CallsInv, SerialInv, Request
<1> QED  BY <1>1, CallsLeave

\* A handler that only moves on, and carries its calls along.
LEMMA CallsCarry ==
    ASSUME CallsInv, SerialInv', NEW i \in Handlers, AtWork(i),
           UNCHANGED <<performed, approvals, asked>>,
           NEW l, Goto(i, l),
           \/ req[i].pc \in Pausing /\ l \in Pausing
           \/ req[i].pc = "recordCall" /\ l = "recordCallStep"
           \/ /\ req[i].pc \in {"recordGranted", "markResumed"}
              /\ l \in {"markResumed", "connect"}
           \/ i = Starter /\ l \in {"recordInput", "connect"}
    PROVE  CallsInv'
<1> DEFINE r == [req[i] EXCEPT !.pc = l]
<1>1. /\ req' = [req EXCEPT ![i] = req'[i]]
      /\ req'[i] = r
  BY Rows DEF Goto, CallsInv, SerialInv
<1>2. /\ req'[i].pc = l
      /\ req'[i].todo = req[i].todo
      /\ req'[i].held = req[i].held
      /\ req'[i].task = req[i].task
  BY <1>1, Rows DEF CallsInv, SerialInv, Request
<1>3. CallsRows' /\ Done' = Done /\ Held' = Held
  BY CallsRowsKept, Rows DEF CallsInv, SerialInv
<1>4. CallsOf(i, req[i])
  BY DEF CallsInv
<1>5. CallsOf(i, req[i])'
  BY <1>2, <1>3, <1>4 DEF CallsOf, Pausing, Granted
<1> QED  BY <1>1, <1>3, <1>5, Alone, CallsStep DEF CallsInv

LEMMA CallsInit == Init => CallsInv
<1> SUFFICES ASSUME Init  PROVE CallsInv
  OBVIOUS
<1>1. CallsRows
  BY DEF Init, CallsRows, Done, Held, OncePerProposal
<1>2. \A i \in Handlers : CallsOf(i, req[i])
  BY DEF Init, IdleRequest, CallsOf, Pausing
<1> QED  BY <1>1, <1>2, SerialInit DEF CallsInv

\* The approval a decision finds is pending.
LEMMA PendingFound ==
    ASSUME TypeInv, LatestPending # 0
    PROVE  approvals[LatestPending].status = "PENDING"
<1> DEFINE pending == {k \in DOMAIN approvals : approvals[k].status = "PENDING"}
<1>1. DOMAIN approvals = 1 .. Len(approvals) /\ Len(approvals) \in Nat
  BY LenProperties DEF TypeInv, TypeOK, RowsOK
<1>2. pending # {} /\ LatestPending = CHOOSE k \in pending : \A j \in pending : j <= k
  BY DEF LatestPending
<1>3. \E k \in pending : \A j \in pending : j <= k
  BY <1>1, <1>2, GreatestIndex
<1> HIDE DEF pending
<1>4. LatestPending \in pending
  BY <1>2, <1>3
<1> QED  BY <1>4 DEF pending

\* A decision changes the status of the approval it is about, nothing else.
LEMMA DecisionWritten ==
    ASSUME TypeInv, NEW i \in Handlers, Decide(i)
    PROVE  /\ DOMAIN approvals' = DOMAIN approvals
           /\ \A k \in DOMAIN approvals :
                  /\ approvals'[k].call = approvals[k].call
                  /\ approvals'[k].status = IF k = req[i].held THEN req[i].choice
                                            ELSE approvals[k].status
<1> DEFINE Row == [call : Call, status : Choices \cup {"PENDING"}]
           new == [approvals[req[i].held] EXCEPT !.status = req[i].choice]
<1>1. req[i].held \in DOMAIN approvals
  BY DEF Decide, At, TypeInv, CallInHand
<1>2. \A k \in DOMAIN approvals : approvals[k] \in Row
  <2>1. approvals \in Seq(Row)
    BY DEF TypeInv, TypeOK, RowsOK
  <2> HIDE DEF Row
  <2> QED  BY <2>1, ElementOfSeq, LenProperties
<1>3. /\ new.call = approvals[req[i].held].call
      /\ new.status = req[i].choice
  BY <1>1, <1>2
<1>4. approvals' = [approvals EXCEPT ![req[i].held] = new]
  BY DEF Decide
<1> HIDE DEF Row, new
<1> QED  BY <1>1, <1>3, <1>4

\* The row an approval is asked for with.
LEMMA ApprovalAdded ==
    ASSUME TypeInv, NEW i \in Handlers, CreateApproval(i)
    PROVE  /\ Len(approvals) + 1 \notin DOMAIN approvals
           /\ DOMAIN approvals' = DOMAIN approvals \cup {Len(approvals) + 1}
           /\ \A k \in DOMAIN approvals : approvals'[k] = approvals[k]
           /\ approvals'[Len(approvals) + 1] =
                  [call |-> Head(req[i].todo), status |-> "PENDING"]
<1> DEFINE Row == [call : Call, status : Choices \cup {"PENDING"}]
           new == [call |-> Head(req[i].todo), status |-> "PENDING"]
<1>1. approvals \in Seq(Row)
  BY DEF TypeInv, TypeOK, RowsOK
<1>2. new \in Row
  <2>1. req[i].todo # <<>>
    BY DEF CreateApproval, At, TypeInv, CallInHand, InHand
  <2> QED  BY <2>1, InHandTyped
<1>3. approvals' = Append(approvals, new)
  BY DEF CreateApproval
<1> HIDE DEF Row, new
<1>4. /\ Append(approvals, new) \in Seq(Row)
      /\ Len(Append(approvals, new)) = Len(approvals) + 1
      /\ Append(approvals, new)[Len(approvals) + 1] = new
      /\ \A k \in 1 .. Len(approvals) : Append(approvals, new)[k] = approvals[k]
  BY <1>1, <1>2, AppendProperties
<1>5. /\ Len(approvals) \in Nat
      /\ DOMAIN approvals = 1 .. Len(approvals)
      /\ DOMAIN approvals' = 1 .. Len(approvals) + 1
  BY <1>1, <1>3, <1>4, LenProperties
<1>6. approvals'[Len(approvals) + 1] = new
  BY <1>3, <1>4
<1>7. \A k \in 1 .. Len(approvals) : approvals'[k] = approvals[k]
  BY <1>3, <1>4
<1>8. approvals'[Len(approvals) + 1] = [call |-> Head(req[i].todo), status |-> "PENDING"]
  BY <1>6 DEF new
<1> QED  BY <1>5, <1>7, <1>8

\* What an execution adds to the calls performed.
LEMMA CallPerformed ==
    ASSUME TypeInv, NEW i \in Handlers, Execute(i)
    PROVE  /\ Len(performed) + 1 \notin DOMAIN performed
           /\ DOMAIN performed' = DOMAIN performed \cup {Len(performed) + 1}
           /\ \A k \in DOMAIN performed : performed'[k] = performed[k]
           /\ performed'[Len(performed) + 1].call = Head(req[i].todo)
           /\ performed'[Len(performed) + 1].by = i
<1> DEFINE Row == [call : Call, by : Handlers]
           new == [call |-> Head(req[i].todo), by |-> i]
<1>1. performed \in Seq(Row)
  BY DEF TypeInv, TypeOK, RowsOK
<1>2. new \in Row
  <2>1. req[i].todo # <<>>
    BY DEF Execute, At, TypeInv, CallInHand, InHand
  <2> QED  BY <2>1, InHandTyped
<1>3. performed' = Append(performed, new)
  BY DEF Execute
<1>4. new.call = Head(req[i].todo) /\ new.by = i
  OBVIOUS
<1> HIDE DEF Row, new
<1>5. /\ Append(performed, new) \in Seq(Row)
      /\ Len(Append(performed, new)) = Len(performed) + 1
      /\ Append(performed, new)[Len(performed) + 1] = new
      /\ \A k \in 1 .. Len(performed) : Append(performed, new)[k] = performed[k]
  BY <1>1, <1>2, AppendProperties
<1>6. /\ Len(performed) \in Nat
      /\ DOMAIN performed = 1 .. Len(performed)
      /\ DOMAIN performed' = 1 .. Len(performed) + 1
  BY <1>1, <1>3, <1>5, LenProperties
<1>7. performed'[Len(performed) + 1] = new
  BY <1>3, <1>5
<1>8. \A k \in 1 .. Len(performed) : performed'[k] = performed[k]
  BY <1>3, <1>5
<1> QED  BY <1>4, <1>6, <1>7, <1>8

\* The call about to be executed was not performed, is approved if it was held
\* back, and the calls after it stay unused.
LEMMA ExecutedCall ==
    ASSUME CallsInv, NEW i \in Handlers, Execute(i)
    PROVE  /\ Head(req[i].todo) \notin Done
           /\ Head(req[i].todo).n \in 1 .. asked
           /\ Head(req[i].todo) \in Held =>
                  \E k \in DOMAIN approvals :
                      /\ approvals[k].call = Head(req[i].todo)
                      /\ approvals[k].status = "APPROVED"
           /\ Unused(Tail(req[i].todo), Done \cup Held \cup {Head(req[i].todo)}, asked)
           /\ \/ /\ Granted(req[i].held) /\ req[i].held \in DOMAIN approvals
                 /\ Head(req[i].todo) = approvals[req[i].held].call
              \/ /\ Head(req[i].todo).tool \notin Gated
                 /\ Head(req[i].todo) \notin Held
<1>1. req[i].pc = "execute" /\ CallsOf(i, req[i])
  BY DEF Execute, At, CallsInv
<1>2. CASE req[i].task = "heldBack"
  <2> DEFINE k == req[i].held
             call == approvals[k].call
  <2>1. Granted(k) /\ req[i].todo = <<call>>
    BY <1>1, <1>2 DEF CallsOf
  <2>2. k \in DOMAIN approvals
    BY <2>1 DEF Granted, CallsInv, SerialInv, TypeInv, CallInHand
  <2>3. Head(req[i].todo) = call /\ Tail(req[i].todo) = <<>>
    <3> HIDE DEF call
    <3> QED  BY <2>1
  <2>4. call \in Held
    BY <2>2 DEF Held
  <2>5. call.n \in 1 .. asked
    BY <2>4 DEF CallsInv, CallsRows
  <2> QED  BY <2>1, <2>2, <2>3, <2>5, UnusedNone DEF Granted
<1>3. CASE req[i].task # "heldBack"
  <2>1. /\ Unused(req[i].todo, Done \cup Held, asked)
        /\ Head(req[i].todo).tool \notin Gated
    BY <1>1, <1>3 DEF CallsOf
  <2>2. req[i].todo \in Seq(Call) /\ req[i].todo # <<>>
    BY <1>1 DEF CallsInv, SerialInv, TypeInv, TypeOK, Request, CallInHand, InHand
  <2>3. /\ Fresh(Head(req[i].todo), Done \cup Held, asked)
        /\ Unused(Tail(req[i].todo), Done \cup Held \cup {Head(req[i].todo)}, asked)
    BY <2>1, <2>2, UnusedTail
  <2> QED  BY <2>1, <2>3 DEF Fresh
<1> QED  BY <1>2, <1>3

\* Every action keeps CallsInv.
LEMMA CallsNext ==
    ASSUME ~Overlap
    PROVE  CallsInv /\ [Next]_vars => CallsInv'
<1> SUFFICES ASSUME CallsInv, [Next]_vars  PROVE CallsInv'
  OBVIOUS
<1>0. SerialInv'
  BY SerialNext DEF CallsInv
<1>1. ASSUME NEW i \in Handlers, MarkCompleted(i)
      PROVE  CallsInv'
  <2>1. AtWork(i)
    BY <1>1 DEF MarkCompleted, MarkRunStatus, At, AtWork
  <2> QED  BY <1>1, <1>0, <2>1, CallsMove DEF MarkCompleted, MarkRunStatus, CallsAt, Pausing
<1>2. ASSUME NEW i \in Handlers, MarkFailed(i)
      PROVE  CallsInv'
  <2>1. AtWork(i)
    BY <1>2 DEF MarkFailed, MarkRunStatus, At, AtWork
  <2> QED  BY <1>2, <1>0, <2>1, CallsMove DEF MarkFailed, MarkRunStatus, CallsAt, Pausing
<1>3. ASSUME NEW i \in Handlers, CatchFailed(i)
      PROVE  CallsInv'
  <2>1. AtWork(i)
    BY <1>3 DEF CatchFailed, MarkRunStatus, At, AtWork
  <2> QED  BY <1>3, <1>0, <2>1, CallsMove DEF CatchFailed, MarkRunStatus, CallsAt, Pausing
<1>4. ASSUME NEW i \in Handlers, MarkCancelled(i)
      PROVE  CallsInv'
  <2>1. AtWork(i)
    BY <1>4 DEF MarkCancelled, MarkRunStatus, At, AtWork
  <2> QED  BY <1>4, <1>0, <2>1, CallsMove DEF MarkCancelled, MarkRunStatus, CallsAt, Pausing
<1>5. ASSUME NEW i \in Handlers, RecordCompleted(i)
      PROVE  CallsInv'
  <2>1. AtWork(i)
    BY <1>5 DEF RecordCompleted, AddRunStep, At, AtWork
  <2> QED  BY <1>5, <1>0, <2>1, CallsMove DEF RecordCompleted, AddRunStep, CallsAt, Pausing
<1>6. ASSUME NEW i \in Handlers, RecordFailed(i)
      PROVE  CallsInv'
  <2>1. AtWork(i)
    BY <1>6 DEF RecordFailed, AddRunStep, At, AtWork
  <2> QED  BY <1>6, <1>0, <2>1, CallsMove DEF RecordFailed, AddRunStep, CallsAt, Pausing
<1>7. ASSUME NEW i \in Handlers, CatchRecord(i)
      PROVE  CallsInv'
  <2>1. AtWork(i)
    BY <1>7 DEF CatchRecord, AddRunStep, At, AtWork
  <2> QED  BY <1>7, <1>0, <2>1, CallsMove DEF CatchRecord, AddRunStep, CallsAt, Pausing
<1>8. ASSUME NEW i \in Handlers, RecordCancelled(i)
      PROVE  CallsInv'
  <2>1. AtWork(i)
    BY <1>8 DEF RecordCancelled, AddRunStep, At, AtWork
  <2> QED  BY <1>8, <1>0, <2>1, CallsMove DEF RecordCancelled, AddRunStep, CallsAt, Pausing
<1>9. ASSUME NEW i \in Handlers, ExceedSteps(i)
      PROVE  CallsInv'
  <2>1. AtWork(i)
    BY <1>9 DEF ExceedSteps, At, AtWork
  <2> QED  BY <1>9, <1>0, <2>1, CallsMove DEF ExceedSteps, db, CallsAt, Pausing
<1>10. ASSUME NEW i \in Handlers, FinishPipeline(i)
      PROVE  CallsInv'
  <2>1. AtWork(i)
    BY <1>10 DEF FinishPipeline, At, AtWork
  <2> QED  BY <1>10, <1>0, <2>1, CallsMove DEF FinishPipeline, db, CallsAt, Pausing
<1>11. ASSUME NEW i \in Handlers, Return(i)
      PROVE  CallsInv'
  <2>1. AtWork(i)
    BY <1>11 DEF Return, At, AtWork
  <2> QED  BY <1>11, <1>0, <2>1, CallsMove DEF Return, db, CallsAt, Pausing
<1>12. ASSUME NEW i \in Handlers, Throw(i)
      PROVE  CallsInv'
  <2>1. AtWork(i)
    BY <1>12 DEF Throw, AtWork, InTry, BeforeTry, InCatch
  <2> QED  BY <1>12, <1>0, <2>1, CallsMove DEF Throw, db, CallsAt, Pausing
<1>13. ASSUME NEW i \in Handlers, Crash(i)
      PROVE  CallsInv'
  <2>1. AtWork(i)
    BY <1>13 DEF Crash, AtWork
  <2> QED  BY <1>13, <1>0, <2>1, CallsMove DEF Crash, db, CallsAt, Pausing
<1>14. ASSUME NEW i \in Handlers, MarkWaiting(i)
      PROVE  CallsInv'
  <2>1. AtWork(i)
    BY <1>14 DEF MarkWaiting, At, AtWork, MarkRunStatus
  <2> QED  BY <1>14, <1>0, <2>1, CallsCarry DEF MarkWaiting, At, Pausing, MarkRunStatus
<1>15. ASSUME NEW i \in Handlers, MarkResumed(i)
      PROVE  CallsInv'
  <2>1. AtWork(i)
    BY <1>15 DEF MarkResumed, At, AtWork, MarkRunStatus
  <2> QED  BY <1>15, <1>0, <2>1, CallsCarry DEF MarkResumed, At, Pausing, MarkRunStatus
<1>16. ASSUME NEW i \in Handlers, RecordRequest(i)
      PROVE  CallsInv'
  <2>1. AtWork(i)
    BY <1>16 DEF RecordRequest, At, AtWork, AddRunStep
  <2> QED  BY <1>16, <1>0, <2>1, CallsCarry DEF RecordRequest, At, Pausing, AddRunStep
<1>17. ASSUME NEW i \in Handlers, RecordGranted(i)
      PROVE  CallsInv'
  <2>1. AtWork(i)
    BY <1>17 DEF RecordGranted, At, AtWork, AddRunStep
  <2> QED  BY <1>17, <1>0, <2>1, CallsCarry DEF RecordGranted, At, Pausing, AddRunStep
<1>18. ASSUME NEW i \in Handlers, SaveMessages(i)
      PROVE  CallsInv'
  <2>1. AtWork(i)
    BY <1>18 DEF SaveMessages, At, AtWork
  <2> QED  BY <1>18, <1>0, <2>1, CallsCarry DEF SaveMessages, At, Pausing
<1>19. ASSUME NEW i \in Handlers, RecordCall(i)
      PROVE  CallsInv'
  <2>1. AtWork(i)
    BY <1>19 DEF RecordCall, At, AtWork
  <2> QED  BY <1>19, <1>0, <2>1, CallsCarry DEF RecordCall, At, Pausing
<1>20. ASSUME NEW i \in Handlers, MarkRunning(i)
      PROVE  CallsInv'
  <2>1. AtWork(i)
    BY <1>20 DEF MarkRunning, At, AtWork, MarkRunStatus
  <2>2. i = Starter
    BY <1>20 DEF MarkRunning, At, MarkRunStatus, CallsInv, CallsOf
  <2> QED  BY <1>20, <1>0, <2>1, <2>2, CallsCarry DEF MarkRunning, MarkRunStatus
<1>21. ASSUME NEW i \in Handlers, RecordInput(i)
      PROVE  CallsInv'
  <2>1. AtWork(i)
    BY <1>21 DEF RecordInput, At, AtWork, AddRunStep
  <2>2. i = Starter
    BY <1>21 DEF RecordInput, At, AddRunStep, CallsInv, CallsOf
  <2> QED  BY <1>21, <1>0, <2>1, <2>2, CallsCarry DEF RecordInput, AddRunStep
<1>22. ASSUME NEW i \in Handlers, LoadTools(i)
      PROVE  CallsInv'
  <2>1. AtWork(i) /\ req' = [req EXCEPT ![i] = req'[i]]
    BY <1>22 DEF LoadTools, At, AtWork, CallsInv, SerialInv, TypeInv, TypeOK
  <2>2. req'[i].pc \in {"loadMessages", "think", "pipeline"}
    BY <1>22 DEF LoadTools, CallsInv, SerialInv, TypeInv, TypeOK, Request
  <2> QED  BY <1>22, <1>0, <2>1, <2>2, CallsLeave DEF LoadTools, db, CallsAt, Pausing
<1>23. ASSUME NEW i \in Handlers, LoadMessages(i)
      PROVE  CallsInv'
  <2>1. AtWork(i) /\ req' = [req EXCEPT ![i] = req'[i]]
    BY <1>23 DEF LoadMessages, At, AtWork, CallsInv, SerialInv, TypeInv, TypeOK
  <2>2. req'[i].pc \in {"loadMessages", "think", "pipeline"}
    BY <1>23 DEF LoadMessages, CallsInv, SerialInv, TypeInv, TypeOK, Request
  <2> QED  BY <1>23, <1>0, <2>1, <2>2, CallsLeave DEF LoadMessages, db, CallsAt, Pausing
<1>24. ASSUME NEW i \in Handlers, FindRun(i)
      PROVE  CallsInv'
  <2>1. AtWork(i) /\ req' = [req EXCEPT ![i] = req'[i]]
    BY <1>24 DEF FindRun, At, AtWork, CallsInv, SerialInv, TypeInv, TypeOK
  <2>2. req'[i].pc \in {"findApproval", "ended"}
    BY <1>24 DEF FindRun, CallsInv, SerialInv, TypeInv, TypeOK, Request
  <2> QED  BY <1>24, <1>0, <2>1, <2>2, CallsLeave DEF FindRun, db, CallsAt, Pausing
<1>25. ASSUME NEW i \in Handlers, Connect(i)
      PROVE  CallsInv'
  <2>1. AtWork(i) /\ req[i].pc = "connect" /\ UNCHANGED <<performed, approvals, asked>>
    BY <1>25 DEF Connect, At, AtWork, db
  <2>2. req' = [req EXCEPT ![i] = req'[i]]
    BY <1>25 DEF Connect, Goto, CallsInv, SerialInv, TypeInv, TypeOK
  <2>3. CASE i = Starter \/ ~HasHeldBack(i)
    <3>1. req'[i].pc \in {"loadTools", "markCompleted"}
      BY <1>25, <2>3 DEF Connect, Goto, AfterHeldBack, CallsInv, SerialInv, TypeInv, TypeOK, Request
    <3> QED  BY <1>0, <2>1, <2>2, <3>1, CallsLeave DEF CallsAt, Pausing
  <2>4. CASE i # Starter /\ HasHeldBack(i)
    <3> DEFINE call == approvals[req[i].held].call
    <3>1. req' = [req EXCEPT ![i].pc = "execute", ![i].task = "heldBack", ![i].todo = <<call>>]
      BY <1>25, <2>4 DEF Connect
    <3>2. /\ req'[i].pc = "execute" /\ req'[i].task = "heldBack"
          /\ req'[i].todo = <<call>> /\ req'[i].held = req[i].held
      <4> HIDE DEF call
      <4> QED  BY <3>1 DEF CallsInv, SerialInv, TypeInv, TypeOK, Request
    <3>3. Granted(req[i].held)
      BY <2>1, <2>4 DEF HasHeldBack, CallsInv, CallsOf
    <3>4. CallsRows' /\ Done' = Done
      BY <2>1, CallsRowsKept, Rows DEF CallsInv, SerialInv
    <3>5. CallsOf(i, req[i])'
      BY <2>1, <2>4, <3>2, <3>3, <3>4 DEF CallsOf, Pausing, Granted
    <3> QED  BY <1>0, <2>1, <2>2, <3>4, <3>5, Alone, CallsStep DEF CallsInv
  <2> QED  BY <2>3, <2>4
<1>26. ASSUME NEW i \in Handlers, Think(i)
      PROVE  CallsInv'
  <2>1. AtWork(i) /\ req[i].pc = "think" /\ UNCHANGED <<performed, approvals>>
    BY <1>26 DEF Think, At, AtWork, db
  <2>2. req' = [req EXCEPT ![i] = req'[i]] /\ req'[i].pc = "recordDecision"
    BY <1>26 DEF Think, CallsInv, SerialInv, TypeInv, TypeOK, Request
  <2>3. asked \in Nat
    BY Rows DEF CallsInv, SerialInv
  <2>4. asked' \in Nat /\ asked <= asked' /\ Unused(req'[i].todo, Done \cup Held, asked')
    <3>1. CASE \E plain \in BOOLEAN :
                  /\ req' = [req EXCEPT ![i].pc = "recordDecision",
                                        ![i].todo = <<>>, ![i].ok = plain]
                  /\ asked' = asked
      <4>1. req'[i].todo = <<>>
        BY <3>1 DEF CallsInv, SerialInv, TypeInv, TypeOK, Request
      <4> QED  BY <2>3, <3>1, <4>1, UnusedNone
    <3>2. CASE \E answer \in Answers :
                  /\ req' = [req EXCEPT ![i].pc = "recordDecision",
                                        ![i].todo = Numbered(answer)]
                  /\ asked' = asked + Len(answer)
      <4>1. PICK answer \in Answers :
                  /\ req' = [req EXCEPT ![i].pc = "recordDecision",
                                        ![i].todo = Numbered(answer)]
                  /\ asked' = asked + Len(answer)
        BY <3>2
      <4>2. answer \in Seq(Tools) /\ Len(answer) \in Nat
        BY AnswersType
      <4>3. req'[i].todo = Numbered(answer)
        BY <4>1 DEF CallsInv, SerialInv, TypeInv, TypeOK, Request
      <4>4. asked + Len(answer) \in Nat /\ asked <= asked + Len(answer)
        BY <2>3, <4>2
      <4>5. Unused(Numbered(answer), Done \cup Held, asked + Len(answer))
        <5>1. \A c \in Done \cup Held : c.n \in 1 .. asked
          BY DEF CallsInv, CallsRows
        <5> QED  BY <4>2, <5>1, NumberedUnused DEF CallsInv, SerialInv
      <4> QED  BY <4>1, <4>3, <4>4, <4>5
    <3> QED  BY <1>26, <3>1, <3>2 DEF Think
  <2>5. CallsRows' /\ Done' = Done /\ Held' = Held
    BY <2>1, <2>4, CallsRowsKept
  <2>6. CallsOf(i, req[i])'
    BY <2>2, <2>4, <2>5 DEF CallsOf, Pausing
  <2> QED  BY <1>0, <2>1, <2>2, <2>5, <2>6, Alone, CallsStep DEF CallsInv
<1>27. ASSUME NEW i \in Handlers, RecordDecision(i)
      PROVE  CallsInv'
  <2>1. /\ AtWork(i) /\ req[i].pc = "recordDecision"
        /\ UNCHANGED <<performed, approvals, asked>>
    BY <1>27 DEF RecordDecision, At, AtWork
  <2>2. /\ req' = [req EXCEPT ![i] = req'[i]]
        /\ req'[i].pc \in {"dispatch", "markCompleted", "markFailed"}
        /\ req'[i].todo = req[i].todo
        /\ req'[i].task = "turn"
    BY <1>27, DecisionRecorded DEF CallsInv, SerialInv
  <2>3. CallsRows' /\ Done' = Done /\ Held' = Held
    BY <2>1, CallsRowsKept, Rows DEF CallsInv, SerialInv
  <2>4. Unused(req[i].todo, Done \cup Held, asked)
    BY <2>1 DEF CallsInv, CallsOf
  <2>5. CallsOf(i, req[i])'
    BY <2>1, <2>2, <2>3, <2>4 DEF CallsOf, Pausing
  <2> QED  BY <1>0, <2>1, <2>2, <2>3, <2>5, Alone, CallsStep DEF CallsInv
<1>28. ASSUME NEW i \in Handlers, Dispatch(i)
      PROVE  CallsInv'
  <2>1. /\ AtWork(i) /\ req[i].pc = "dispatch"
        /\ UNCHANGED <<performed, approvals, asked>>
    BY <1>28 DEF Dispatch, At, AtWork, db
  <2>2. req' = [req EXCEPT ![i] = req'[i]]
    BY <1>28 DEF Dispatch, CallsInv, SerialInv, TypeInv, TypeOK
  <2>3. CASE req[i].todo = <<>>
    <3>1. req'[i].pc = "think"
      BY <1>28, <2>3 DEF Dispatch, CallsInv, SerialInv, TypeInv, TypeOK, Request
    <3> QED  BY <1>0, <2>1, <2>2, <3>1, CallsLeave DEF CallsAt, Pausing
  <2>4. CASE req[i].todo # <<>>
    <3>1. /\ req'[i].pc = Route(i, Head(req[i].todo).tool, "saveMessages")
          /\ req'[i].todo = req[i].todo
          /\ req'[i].task = req[i].task
      BY <1>28, <2>4 DEF Dispatch, CallsInv, SerialInv, TypeInv, TypeOK, Request
    <3>2. CallsRows' /\ Done' = Done /\ Held' = Held
      BY <2>1, CallsRowsKept, Rows DEF CallsInv, SerialInv
    <3>3. Unused(req[i].todo, Done \cup Held, asked) /\ req[i].task = "turn"
      BY <2>1 DEF CallsInv, CallsOf
    <3>4. Unused(Tail(req[i].todo), Done \cup Held, asked)
      BY <2>4, <3>3, UnusedTail DEF CallsInv, SerialInv, TypeInv, TypeOK, Request
    <3>5. CallsOf(i, req[i])'
      BY <2>1, <3>1, <3>2, <3>3, <3>4 DEF CallsOf, Pausing, Route
    <3> QED  BY <1>0, <2>1, <2>2, <3>2, <3>5, Alone, CallsStep DEF CallsInv
  <2> QED  BY <2>3, <2>4
<1>29. ASSUME NEW i \in Handlers, RecordCallStep(i)
      PROVE  CallsInv'
  <2>1. /\ AtWork(i) /\ req[i].pc = "recordCallStep"
        /\ UNCHANGED <<performed, approvals, asked>>
    BY <1>29 DEF RecordCallStep, At, AtWork
  <2>2. /\ req' = [req EXCEPT ![i] = req'[i]]
        /\ req'[i].pc = AfterCall(i)
        /\ req'[i].todo = Tail(req[i].todo)
        /\ req'[i].task = req[i].task
    BY <1>29 DEF RecordCallStep, CallsInv, SerialInv, TypeInv, TypeOK, Request
  <2>3. /\ req[i].task = "turn" => AfterCall(i) = "dispatch"
        /\ req[i].task # "turn" => AfterCall(i) \notin CallsAt
    BY DEF AfterCall, AfterHeldBack, CallsAt, Pausing
  <2>4. CASE req[i].task = "turn"
    <3>1. CallsRows' /\ Done' = Done /\ Held' = Held
      BY <2>1, CallsRowsKept, Rows DEF CallsInv, SerialInv
    <3>2. Unused(Tail(req[i].todo), Done \cup Held, asked)
      BY <2>1 DEF CallsInv, CallsOf
    <3>3. CallsOf(i, req[i])'
      BY <2>1, <2>2, <2>3, <2>4, <3>1, <3>2 DEF CallsOf, Pausing
    <3> QED  BY <1>0, <2>1, <2>2, <3>1, <3>3, Alone, CallsStep DEF CallsInv
  <2>5. CASE req[i].task # "turn"
    BY <1>0, <2>1, <2>2, <2>3, <2>5, CallsLeave
  <2> QED  BY <2>4, <2>5
<1>30. ASSUME NEW i \in Handlers, Lookup(i)
      PROVE  CallsInv'
  <2>1. /\ AtWork(i) /\ req[i].pc = "pipeline"
        /\ UNCHANGED <<performed, approvals>> /\ asked' = asked + 1
    BY <1>30 DEF Lookup, At, AtWork, db
  <2>2. PICK tool \in Tools \ Gated :
             req' = [req EXCEPT ![i].pc = Route(i, tool, "execute"), ![i].task = "lookup",
                                ![i].ok = FALSE, ![i].turn = @ + 1, ![i].todo = Numbered(<<tool>>)]
    BY <1>30 DEF Lookup
  <2>3. /\ req' = [req EXCEPT ![i] = req'[i]]
        /\ req'[i].pc = Route(i, tool, "execute")
        /\ req'[i].todo = Numbered(<<tool>>)
        /\ req'[i].task = "lookup"
    BY <2>2 DEF CallsInv, SerialInv, TypeInv, TypeOK, Request
  <2>4. asked \in Nat /\ asked + 1 \in Nat /\ asked <= asked + 1
    BY Rows DEF CallsInv, SerialInv
  <2>5. CallsRows' /\ Done' = Done /\ Held' = Held
    BY <2>1, <2>4, CallsRowsKept
  <2>6. /\ Unused(Numbered(<<tool>>), Done \cup Held, asked')
        /\ Unused(Tail(Numbered(<<tool>>)), Done \cup Held, asked')
    <3>1. \A c \in Done \cup Held : c.n \in 1 .. asked
      BY DEF CallsInv, CallsRows
    <3> QED  BY <2>1, <3>1, OneNumberedUnused, ToolsAssumption DEF CallsInv, SerialInv
  <2>7. Head(Numbered(<<tool>>)).tool = tool
    BY HeadNumbered, ToolsAssumption DEF CallsInv, SerialInv
  <2>8. CallsOf(i, req[i])'
    <3>1. /\ req'[i].pc \in {"recordCall", "execute", "markWaiting"}
          /\ req'[i].pc = "execute" => tool \notin Gated
          /\ req'[i].pc = "markWaiting" => tool \in Gated
      BY <2>3 DEF Route
    <3> QED  BY <2>3, <2>5, <2>6, <2>7, <3>1 DEF CallsOf, Pausing
  <2> QED  BY <1>0, <2>1, <2>3, <2>5, <2>8, Alone, CallsStep DEF CallsInv
<1>31. ASSUME NEW i \in Handlers, ProposeAction(i)
      PROVE  CallsInv'
  <2>1. /\ AtWork(i) /\ req[i].pc = "pipeline"
        /\ UNCHANGED <<performed, approvals>> /\ asked' = asked + 1
    BY <1>31 DEF ProposeAction, At, AtWork, db
  <2>2. PICK tool \in Tools :
             req' = [req EXCEPT ![i].pc = Route(i, tool, "markWaiting"), ![i].task = "act",
                                ![i].ok = FALSE, ![i].todo = Numbered(<<tool>>)]
    BY <1>31 DEF ProposeAction
  <2>3. /\ req' = [req EXCEPT ![i] = req'[i]]
        /\ req'[i].pc = Route(i, tool, "markWaiting")
        /\ req'[i].todo = Numbered(<<tool>>)
        /\ req'[i].task = "act"
    BY <2>2 DEF CallsInv, SerialInv, TypeInv, TypeOK, Request
  <2>4. asked \in Nat /\ asked + 1 \in Nat /\ asked <= asked + 1
    BY Rows DEF CallsInv, SerialInv
  <2>5. CallsRows' /\ Done' = Done /\ Held' = Held
    BY <2>1, <2>4, CallsRowsKept
  <2>6. /\ Unused(Numbered(<<tool>>), Done \cup Held, asked')
        /\ Unused(Tail(Numbered(<<tool>>)), Done \cup Held, asked')
    <3>1. \A c \in Done \cup Held : c.n \in 1 .. asked
      BY DEF CallsInv, CallsRows
    <3> QED  BY <2>1, <3>1, OneNumberedUnused, ToolsAssumption DEF CallsInv, SerialInv
  <2>7. Head(Numbered(<<tool>>)).tool = tool
    BY HeadNumbered, ToolsAssumption DEF CallsInv, SerialInv
  <2>8. CallsOf(i, req[i])'
    <3>1. /\ req'[i].pc \in {"recordCall", "execute", "markWaiting"}
          /\ req'[i].pc = "execute" => tool \notin Gated
          /\ req'[i].pc = "markWaiting" => tool \in Gated
      BY <2>3 DEF Route
    <3> QED  BY <2>3, <2>5, <2>6, <2>7, <3>1 DEF CallsOf, Pausing
  <2> QED  BY <1>0, <2>1, <2>3, <2>5, <2>8, Alone, CallsStep DEF CallsInv
<1>32. ASSUME NEW i \in Handlers, FindApproval(i)
      PROVE  CallsInv'
  <2>1. /\ AtWork(i) /\ req[i].pc = "findApproval"
        /\ UNCHANGED <<performed, approvals, asked>>
    BY <1>32 DEF FindApproval, At, AtWork, db
  <2>2. /\ req' = [req EXCEPT ![i] = req'[i]]
        /\ req'[i].held = LatestPending
        /\ req'[i].pc = IF LatestPending = 0 THEN AfterDecision(i) ELSE "decide"
    BY <1>32 DEF FindApproval, CallsInv, SerialInv, TypeInv, TypeOK, Request
  <2>3. CallsRows' /\ Done' = Done /\ Held' = Held
    BY <2>1, CallsRowsKept, Rows DEF CallsInv, SerialInv
  <2>4. LatestPending # 0 => approvals[LatestPending].status = "PENDING"
    BY PendingFound DEF CallsInv, SerialInv
  <2>5. CallsOf(i, req[i])'
    BY <2>1, <2>2, <2>3, <2>4 DEF CallsOf, Pausing, AfterDecision
  <2> QED  BY <1>0, <2>1, <2>2, <2>3, <2>5, Alone, CallsStep DEF CallsInv
<1>33. ASSUME NEW i \in Handlers, Decide(i)
      PROVE  CallsInv'
  <2>1. /\ AtWork(i) /\ req[i].pc = "decide"
        /\ UNCHANGED <<performed, asked>>
    BY <1>33 DEF Decide, At, AtWork
  <2>2. /\ req' = [req EXCEPT ![i] = req'[i]]
        /\ req'[i].held = req[i].held
        /\ req'[i].pc = AfterDecision(i)
    BY <1>33 DEF Decide, Goto, CallsInv, SerialInv, TypeInv, TypeOK, Request
  <2>3. /\ req[i].held \in DOMAIN approvals
        /\ approvals[req[i].held].status = "PENDING"
    BY <2>1 DEF CallsInv, SerialInv, TypeInv, CallInHand, CallsOf
  <2>4. /\ DOMAIN approvals' = DOMAIN approvals
        /\ \A k \in DOMAIN approvals :
               /\ approvals'[k].call = approvals[k].call
               /\ approvals'[k].status = IF k = req[i].held THEN req[i].choice
                                         ELSE approvals[k].status
    BY <1>33, DecisionWritten DEF CallsInv, SerialInv
  <2>5. Done' = Done /\ Held' = Held
    BY <2>1, <2>4 DEF Done, Held
  <2>6. approvals[req[i].held].call \notin Done
    BY <2>3 DEF CallsInv, CallsRows
  <2>7. CallsRows'
    BY <2>1, <2>4, <2>5, <2>6 DEF CallsInv, CallsRows, OncePerProposal
  <2>8. CallsOf(i, req[i])'
    BY <2>1, <2>2, <2>3, <2>4, <2>5, <2>6 DEF CallsOf, Pausing, AfterDecision, Granted
  <2> QED  BY <1>0, <2>1, <2>2, <2>7, <2>8, Alone, CallsStep DEF CallsInv
<1>34. ASSUME NEW i \in Handlers, CreateApproval(i)
      PROVE  CallsInv'
  <2>1. /\ AtWork(i) /\ req[i].pc = "createApproval"
        /\ UNCHANGED <<performed, asked>>
        /\ req[i].todo # <<>>
    BY <1>34 DEF CreateApproval, At, AtWork, CallsInv, SerialInv, TypeInv, CallInHand, InHand
  <2>2. /\ req' = [req EXCEPT ![i] = req'[i]]
        /\ req'[i].pc = "returning"
    BY <1>34 DEF CreateApproval, Goto, CallsInv, SerialInv, TypeInv, TypeOK, Request
  <2> DEFINE call == Head(req[i].todo)
             last == Len(approvals) + 1
  <2>3. /\ last \notin DOMAIN approvals
        /\ DOMAIN approvals' = DOMAIN approvals \cup {last}
        /\ \A k \in DOMAIN approvals : approvals'[k] = approvals[k]
        /\ approvals'[last] = [call |-> call, status |-> "PENDING"]
    BY <1>34, ApprovalAdded DEF CallsInv, SerialInv
  <2>4. Fresh(call, Done \cup Held, asked) /\ call.tool \in Gated
    <3>1. Unused(req[i].todo, Done \cup Held, asked) /\ call.tool \in Gated
      BY <2>1 DEF CallsInv, CallsOf, Pausing
    <3>2. req[i].todo \in Seq(Call)
      BY DEF CallsInv, SerialInv, TypeInv, TypeOK, Request
    <3> QED  BY <2>1, <3>1, <3>2, UnusedTail
  <2> HIDE DEF call, last
  <2>5. Done' = Done /\ Held' = Held \cup {call}
    BY <2>1, <2>3 DEF Done, Held
  <2>6. \A k \in DOMAIN approvals : approvals[k].call # call
    BY <2>4 DEF Fresh, Held
  <2>7. CallsRows'
    <3>1. /\ approvals'[last].call = call
          /\ approvals'[last].status = "PENDING"
      BY <2>3
    <3>2. \A c \in Done' \cup Held' : c.n \in 1 .. asked'
      BY <2>1, <2>4, <2>5 DEF CallsInv, CallsRows, Fresh
    <3>3. \A j, k \in DOMAIN approvals' : approvals'[j].call = approvals'[k].call => j = k
      BY <2>3, <2>6, <3>1 DEF CallsInv, CallsRows
    <3>4. \A k \in DOMAIN approvals' :
              /\ approvals'[k].call.tool \in Gated
              /\ approvals'[k].status # "APPROVED" => approvals'[k].call \notin Done'
      BY <2>3, <2>4, <2>5, <3>1 DEF CallsInv, CallsRows, Fresh
    <3>5. OncePerProposal'
      BY <2>1 DEF CallsInv, CallsRows, OncePerProposal
    <3> QED  BY <3>2, <3>3, <3>4, <3>5 DEF CallsRows
  <2>8. CallsOf(i, req[i])'
    BY <2>2 DEF CallsOf, Pausing
  <2> QED  BY <1>0, <2>1, <2>2, <2>7, <2>8, Alone, CallsStep DEF CallsInv
<1>35. ASSUME NEW i \in Handlers, Execute(i)
      PROVE  CallsInv'
  <2>1. /\ AtWork(i) /\ req[i].pc = "execute"
        /\ UNCHANGED <<approvals, asked>>
    BY <1>35 DEF Execute, At, AtWork, db
  <2>2. /\ req' = [req EXCEPT ![i] = req'[i]]
        /\ req'[i].pc = "recordCall"
        /\ req'[i].todo = req[i].todo
    <3>1. PICK ok \in BOOLEAN :
               req' = [req EXCEPT ![i].pc = "recordCall", ![i].ok = ok]
      BY <1>35 DEF Execute
    <3> QED  BY <3>1 DEF CallsInv, SerialInv, TypeInv, TypeOK, Request
  <2> DEFINE call == Head(req[i].todo)
             last == Len(performed) + 1
  <2>3. /\ last \notin DOMAIN performed
        /\ DOMAIN performed' = DOMAIN performed \cup {last}
        /\ \A k \in DOMAIN performed : performed'[k] = performed[k]
        /\ performed'[last].call = call
    BY <1>35, CallPerformed DEF CallsInv, SerialInv
  <2>4. /\ call \notin Done
        /\ call.n \in 1 .. asked
        /\ call \in Held => \E k \in DOMAIN approvals :
                                /\ approvals[k].call = call
                                /\ approvals[k].status = "APPROVED"
        /\ Unused(Tail(req[i].todo), Done \cup Held \cup {call}, asked)
    BY <1>35, ExecutedCall
  <2> HIDE DEF call, last
  <2>5. Done' = Done \cup {call} /\ Held' = Held
    BY <2>1, <2>3 DEF Done, Held
  <2>6. CallsRows'
    <3>1. \A c \in Done' \cup Held' : c.n \in 1 .. asked'
      BY <2>1, <2>4, <2>5 DEF CallsInv, CallsRows
    <3>2. \A k \in DOMAIN performed : performed[k].call # call
      BY <2>4 DEF Done
    <3>3. OncePerProposal'
      BY <2>3, <3>2 DEF CallsInv, CallsRows, OncePerProposal
    <3>4. ASSUME NEW k \in DOMAIN approvals, approvals[k].status # "APPROVED"
          PROVE  approvals[k].call \notin Done'
      <4>1. approvals[k].call \notin Done /\ approvals[k].call \in Held
        BY <3>4 DEF CallsInv, CallsRows, Held
      <4>2. approvals[k].call # call
        BY <2>4, <3>4, <4>1 DEF CallsInv, CallsRows
      <4> QED  BY <2>5, <4>1, <4>2
    <3> QED  BY <2>1, <3>1, <3>3, <3>4 DEF CallsInv, CallsRows
  <2>7. CallsOf(i, req[i])'
    <3>1. Done' \cup Held' = Done \cup Held \cup {call}
      BY <2>5
    <3> QED  BY <2>1, <2>2, <2>4, <3>1 DEF CallsOf, Pausing
  <2> QED  BY <1>0, <2>1, <2>2, <2>6, <2>7, Alone, CallsStep DEF CallsInv
<1>36. ASSUME NEW i \in Handlers, CreateRun(i)
      PROVE  CallsInv'
  <2>1. /\ \A j \in Handlers : req[j].pc = "idle"
        /\ UNCHANGED <<performed, approvals, asked>>
    BY <1>36 DEF CreateRun, At, CallsInv, SerialInv, Created
  <2>2. /\ req' = [req EXCEPT ![i] = req'[i]] /\ req'[i].pc = "markRunning"
        /\ i = Starter
    BY <1>36 DEF CreateRun, CallsInv, SerialInv, TypeInv, TypeOK, Request
  <2>3. CallsRows'
    BY <2>1, CallsRowsKept, Rows DEF CallsInv, SerialInv
  <2>4. CallsOf(i, req[i])'
    BY <2>2 DEF CallsOf, Pausing
  <2> QED  BY <1>0, <2>1, <2>2, <2>3, <2>4, CallsStep
<1>37. ASSUME NEW i \in Handlers, StartDecision(i)
      PROVE  CallsInv'
  <2>1. Quiet /\ UNCHANGED <<performed, approvals, asked>>
    BY <1>37 DEF StartDecision, db
  <2>2. PICK choice \in Choices :
             req' = [req EXCEPT ![i].pc = "findRun", ![i].choice = choice]
    BY <1>37 DEF StartDecision
  <2>3. req' = [req EXCEPT ![i] = req'[i]]
    BY <2>2 DEF CallsInv, SerialInv, TypeInv, TypeOK
  <2>4. req'[i].pc = "findRun"
    BY <2>2 DEF CallsInv, SerialInv, TypeInv, TypeOK, Request
  <2>5. CallsRows'
    BY <2>1, CallsRowsKept, Rows DEF CallsInv, SerialInv
  <2>6. CallsOf(i, req[i])'
    BY <2>4 DEF CallsOf, Pausing
  <2> QED  BY <1>0, <2>1, <2>3, <2>5, <2>6, CallsStep DEF Quiet
<1>38. ASSUME EditAgent
      PROVE  CallsInv'
  <2>1. UNCHANGED <<performed, approvals, asked, req>>
    BY <1>38 DEF EditAgent
  <2>2. CallsRows' /\ Done' = Done /\ Held' = Held
    BY <2>1, CallsRowsKept, Rows DEF CallsInv, SerialInv
  <2>3. ASSUME NEW i \in Handlers  PROVE CallsOf(i, req[i])'
    <3>1. CallsOf(i, req[i])
      BY DEF CallsInv
    <3> QED  BY <2>1, <2>2, <3>1 DEF CallsOf, Granted
  <2> QED  BY <1>0, <2>2, <2>3 DEF CallsInv
<1>39. CASE UNCHANGED vars
  <2>1. UNCHANGED <<performed, approvals, asked, req>>
    BY <1>39 DEF vars
  <2>2. CallsRows' /\ Done' = Done /\ Held' = Held
    BY <2>1, CallsRowsKept, Rows DEF CallsInv, SerialInv
  <2>3. ASSUME NEW i \in Handlers  PROVE CallsOf(i, req[i])'
    <3>1. CallsOf(i, req[i])
      BY DEF CallsInv
    <3> QED  BY <2>1, <2>2, <3>1 DEF CallsOf, Granted
  <2> QED  BY <1>0, <2>2, <2>3 DEF CallsInv
<1> QED
  BY
     <1>1, <1>2, <1>3, <1>4, <1>5, <1>6, <1>7, <1>8, <1>9, <1>10, <1>11,
     <1>12, <1>13, <1>14, <1>15, <1>16, <1>17, <1>18, <1>19, <1>20,
     <1>21, <1>22, <1>23, <1>24, <1>25, <1>26, <1>27, <1>28, <1>29,
     <1>30, <1>31, <1>32, <1>33, <1>34, <1>35, <1>36, <1>37, <1>38,
     <1>39
  DEF Next, Work

\* Each proposed call is executed at most once when decisions arrive one at a
\* time: no pause, decision, failure, crash or edit of the agent, in any order,
\* has the server perform a proposal again.
THEOREM ProposalsAlwaysOnce ==
    ASSUME ~Overlap
    PROVE  Spec => []OncePerProposal
<1>1. CallsInv => OncePerProposal
  BY DEF CallsInv, CallsRows
<1> QED  BY <1>1, CallsInit, CallsNext, PTL DEF Spec

-----------------------------------------------------------------------------
(* The handlers implement the approval gate.                                *)

\* The calls of the approvals with a status, after a row is asked for and
\* after one is decided.
LEMMA AskedCalls ==
    ASSUME CallsInv, NEW i \in Handlers, CreateApproval(i), NEW status
    PROVE  DecidedCalls(status)' =
               IF status = "PENDING" THEN DecidedCalls(status) \cup {Head(req[i].todo)}
               ELSE DecidedCalls(status)
<1> DEFINE call == Head(req[i].todo)
           last == Len(approvals) + 1
<1>1. /\ last \notin DOMAIN approvals
      /\ DOMAIN approvals' = DOMAIN approvals \cup {last}
      /\ \A k \in DOMAIN approvals : approvals'[k] = approvals[k]
      /\ approvals'[last] = [call |-> call, status |-> "PENDING"]
  BY ApprovalAdded DEF CallsInv, SerialInv
<1> HIDE DEF call, last
<1>2. approvals'[last].call = call /\ approvals'[last].status = "PENDING"
  BY <1>1
<1>3. ASSUME NEW c
      PROVE  c \in DecidedCalls(status)' <=>
                 c \in DecidedCalls(status) \/ (c = call /\ status = "PENDING")
  BY <1>1, <1>2 DEF DecidedCalls
<1>4. DecidedCalls(status)' = DecidedCalls(status) \cup
                                  (IF status = "PENDING" THEN {call} ELSE {})
  BY <1>3
<1> QED  BY <1>4 DEF call

LEMMA CallsDecided ==
    ASSUME CallsInv, NEW i \in Handlers, Decide(i), NEW status
    PROVE  /\ approvals[req[i].held].call \in DecidedCalls("PENDING")
           /\ DecidedCalls(status)' =
                  IF status = "PENDING"
                  THEN DecidedCalls(status) \ {approvals[req[i].held].call}
                  ELSE IF status = req[i].choice
                  THEN DecidedCalls(status) \cup {approvals[req[i].held].call}
                  ELSE DecidedCalls(status)
<1> DEFINE h == req[i].held
           call == approvals[h].call
<1>1. /\ h \in DOMAIN approvals
      /\ approvals[h].status = "PENDING"
      /\ req[i].choice # "PENDING"
  BY DEF Decide, At, CallsInv, SerialInv, TypeInv, TypeOK, Request, Choices,
     CallInHand, CallsOf
<1>2. /\ DOMAIN approvals' = DOMAIN approvals
      /\ \A k \in DOMAIN approvals :
             /\ approvals'[k].call = approvals[k].call
             /\ approvals'[k].status = IF k = h THEN req[i].choice
                                       ELSE approvals[k].status
  BY DecisionWritten DEF CallsInv, SerialInv
<1>3. \A k \in DOMAIN approvals : approvals[k].call = call => k = h
  BY <1>1 DEF CallsInv, CallsRows
<1> HIDE DEF h
<1>4. call \in DecidedCalls("PENDING")
  BY <1>1 DEF DecidedCalls
<1>5. ASSUME NEW c
      PROVE  c \in DecidedCalls(status)' <=>
                 \/ c \in DecidedCalls(status) /\ c # call
                 \/ c = call /\ status = req[i].choice
  <2>1. ASSUME c \in DecidedCalls(status)'
        PROVE  \/ c \in DecidedCalls(status) /\ c # call
               \/ c = call /\ status = req[i].choice
    <3>1. PICK k \in DOMAIN approvals : approvals'[k].status = status /\ c = approvals'[k].call
      BY <1>2, <2>1 DEF DecidedCalls
    <3>2. CASE k = h
      BY <1>2, <3>1, <3>2
    <3>3. CASE k # h
      BY <1>2, <1>3, <3>1, <3>3 DEF DecidedCalls
    <3> QED  BY <3>2, <3>3
  <2>2. ASSUME c \in DecidedCalls(status), c # call
        PROVE  c \in DecidedCalls(status)'
    <3>1. PICK k \in DOMAIN approvals : approvals[k].status = status /\ c = approvals[k].call
      BY <2>2 DEF DecidedCalls
    <3> QED  BY <1>2, <2>2, <3>1 DEF DecidedCalls
  <2>3. ASSUME c = call, status = req[i].choice
        PROVE  c \in DecidedCalls(status)'
    BY <1>1, <1>2, <2>3 DEF DecidedCalls
  <2> QED  BY <2>1, <2>2, <2>3
<1>6. status # "PENDING" => call \notin DecidedCalls(status)
  BY <1>1, <1>3 DEF DecidedCalls
<1> HIDE DEF call
<1>7. status = "PENDING" => DecidedCalls(status)' = DecidedCalls(status) \ {call}
  BY <1>1, <1>5
<1>8. status # "PENDING" /\ status = req[i].choice
          => DecidedCalls(status)' = DecidedCalls(status) \cup {call}
  BY <1>5, <1>6
<1>9. status # "PENDING" /\ status # req[i].choice
          => DecidedCalls(status)' = DecidedCalls(status)
  BY <1>5, <1>6
<1> QED  BY <1>4, <1>7, <1>8, <1>9 DEF call, h

\* Only held-back calls are pending, granted or refused.
LEMMA DecidedHeld ==
    ASSUME NEW status
    PROVE  DecidedCalls(status) \subseteq Held
  BY DEF DecidedCalls, Held

\* An execution appends its call to those performed.
LEMMA PerformedAppended ==
    ASSUME TypeInv, NEW i \in Handlers, Execute(i)
    PROVE  /\ PerformedCalls' = Append(PerformedCalls, Head(req[i].todo))
           /\ Len(performed) + 1 \in DOMAIN PerformedCalls'
           /\ PerformedCalls'[Len(performed) + 1] = Head(req[i].todo)
<1> DEFINE call == Head(req[i].todo)
           last == Len(performed) + 1
<1>1. /\ last \notin DOMAIN performed
      /\ DOMAIN performed' = DOMAIN performed \cup {last}
      /\ \A k \in DOMAIN performed : performed'[k] = performed[k]
      /\ performed'[last].call = call
  BY CallPerformed
<1>2. call \in Call
  BY InHandTyped DEF Execute, At, TypeInv, CallInHand, InHand
<1> DEFINE Row == [call : Call, by : Handlers]
<1>3. /\ Len(performed) \in Nat
      /\ DOMAIN performed = 1 .. Len(performed)
      /\ \A k \in DOMAIN performed : performed[k] \in Row
  <2>1. performed \in Seq(Row)
    BY DEF TypeInv, TypeOK, RowsOK
  <2> HIDE DEF Row
  <2> QED  BY <2>1, LenProperties, ElementOfSeq
<1>4. \A k \in 1 .. Len(performed) : performed[k].call \in Call
  BY <1>3
<1> HIDE DEF call, Row
<1>5. PerformedCalls \in [1 .. Len(performed) -> Call]
  BY <1>3, <1>4 DEF PerformedCalls
<1>6. PerformedCalls \in Seq(Call) /\ Len(PerformedCalls) = Len(performed)
  BY <1>3, <1>5, SeqDef, LenProperties
<1>7. /\ Append(PerformedCalls, call) \in Seq(Call)
      /\ Len(Append(PerformedCalls, call)) = Len(performed) + 1
      /\ Append(PerformedCalls, call)[Len(performed) + 1] = call
      /\ \A k \in 1 .. Len(performed) :
             Append(PerformedCalls, call)[k] = PerformedCalls[k]
  BY <1>2, <1>6, AppendProperties
<1>8. DOMAIN Append(PerformedCalls, call) = 1 .. Len(performed) + 1
  BY <1>7, LenProperties
<1>9. /\ DOMAIN performed' = 1 .. Len(performed) + 1
      /\ DOMAIN PerformedCalls' = 1 .. Len(performed) + 1
  BY <1>1, <1>3 DEF PerformedCalls
<1>10. ASSUME NEW k \in 1 .. Len(performed) + 1
       PROVE  PerformedCalls'[k] = Append(PerformedCalls, call)[k]
  <2>1. PerformedCalls'[k] = performed'[k].call
    BY <1>9 DEF PerformedCalls
  <2>2. CASE k = Len(performed) + 1
    BY <1>1, <1>7, <2>1, <2>2
  <2>3. CASE k # Len(performed) + 1
    <3>1. k \in 1 .. Len(performed)
      BY <1>3, <2>3
    <3> QED  BY <1>1, <1>3, <1>7, <2>1, <3>1 DEF PerformedCalls
  <2> QED  BY <2>2, <2>3
<1>11. /\ PerformedCalls' \in [1 .. Len(performed) + 1 -> Call]
       /\ Append(PerformedCalls, call) \in [1 .. Len(performed) + 1 -> Call]
  <2>1. Append(PerformedCalls, call) \in [1 .. Len(performed) + 1 -> Call]
    BY <1>7, LenProperties
  <2>2. PerformedCalls' = [k \in 1 .. Len(performed) + 1 |-> PerformedCalls'[k]]
    BY <1>9 DEF PerformedCalls
  <2> QED  BY <1>10, <2>1, <2>2
<1>12. PerformedCalls' = Append(PerformedCalls, call)
  BY <1>10, <1>11
<1>13. last \in 1 .. Len(performed) + 1
  BY <1>3
<1> QED  BY <1>7, <1>9, <1>10, <1>12, <1>13 DEF call

\* A step that leaves the approvals and the performed calls alone is none of
\* the gate's.
LEMMA GateStutter ==
    ASSUME UNCHANGED <<approvals, performed>>
    PROVE  UNCHANGED Gate!gateVars
  BY DEF Gate!gateVars, DecidedCalls, PerformedCalls

\* The three steps that are the gate's.
LEMMA AskIsAsk ==
    ASSUME CallsInv, NEW i \in Handlers, CreateApproval(i)
    PROVE  Gate!Next
<1> DEFINE call == Head(req[i].todo)
<1>1. /\ performed' = performed
      /\ Fresh(call, Done \cup Held, asked) /\ call.tool \in Gated
  <2>1. /\ Unused(req[i].todo, Done \cup Held, asked) /\ call.tool \in Gated
        /\ req[i].todo \in Seq(Call) /\ req[i].todo # <<>>
    BY DEF CreateApproval, At, CallsInv, CallsOf, Pausing, SerialInv, TypeInv,
       TypeOK, Request, CallInHand, InHand
  <2> QED  BY <2>1, UnusedTail DEF CreateApproval
<1>2. /\ DecidedCalls("PENDING")' = DecidedCalls("PENDING") \cup {call}
      /\ DecidedCalls("APPROVED")' = DecidedCalls("APPROVED")
      /\ DecidedCalls("REJECTED")' = DecidedCalls("REJECTED")
  BY AskedCalls
<1>3. PerformedCalls' = PerformedCalls
  BY <1>1 DEF PerformedCalls
<1>4. Gate!Performed = Done
  BY DEF Gate!Performed, PerformedCalls, Done
<1>5. call \notin Gate!Known
  <2>1. call \notin Done /\ call \notin Held
    BY <1>1 DEF Fresh
  <2> QED  BY <1>4, <2>1, DecidedHeld DEF Gate!Known
<1> HIDE DEF call
<1>6. Gate!Ask(call)
  BY <1>1, <1>2, <1>3, <1>5 DEF Gate!Ask, Gate!IsGated
<1>7. call \in DecidedCalls("PENDING")'
  BY <1>2
<1> QED  BY <1>6, <1>7 DEF Gate!Next

LEMMA DecideIsGrantOrRefuse ==
    ASSUME CallsInv, NEW i \in Handlers, Decide(i)
    PROVE  Gate!Next
<1>0. PICK call : call = approvals[req[i].held].call
  OBVIOUS
<1>1. call \in DecidedCalls("PENDING") /\ call \notin Done
  <2>1. /\ req[i].held \in DOMAIN approvals
        /\ approvals[req[i].held].status = "PENDING"
    BY DEF Decide, At, CallsInv, SerialInv, TypeInv, CallInHand, CallsOf
  <2> QED  BY <1>0, <2>1, CallsDecided DEF CallsInv, CallsRows
<1>2. performed' = performed /\ PerformedCalls' = PerformedCalls
  BY DEF Decide, PerformedCalls
<1>3. DecidedCalls("PENDING")' = DecidedCalls("PENDING") \ {call}
  BY <1>0, CallsDecided
<1>4. req[i].choice \in {"APPROVED", "REJECTED"}
  BY DEF CallsInv, SerialInv, TypeInv, TypeOK, Request, Choices
<1>5. CASE req[i].choice = "APPROVED"
  <2>1. /\ DecidedCalls("APPROVED")' = DecidedCalls("APPROVED") \cup {call}
        /\ DecidedCalls("REJECTED")' = DecidedCalls("REJECTED")
    BY <1>0, <1>5, CallsDecided
  <2>2. (DecidedCalls("APPROVED") \ Done)' = (DecidedCalls("APPROVED") \ Done) \cup {call}
    <3>1. Done' = Done
      BY <1>2 DEF Done
    <3> QED  BY <1>1, <2>1, <3>1
  <2>3. Gate!Grant(call)
    BY <1>1, <1>2, <1>3, <2>1, <2>2 DEF Gate!Grant, Done
  <2> QED  BY <1>1, <2>3 DEF Gate!Next
<1>6. CASE req[i].choice = "REJECTED"
  <2>1. /\ DecidedCalls("REJECTED")' = DecidedCalls("REJECTED") \cup {call}
        /\ DecidedCalls("APPROVED")' = DecidedCalls("APPROVED")
    BY <1>0, <1>6, CallsDecided
  <2>2. Gate!Refuse(call)
    BY <1>1, <1>2, <1>3, <2>1 DEF Gate!Refuse, Done
  <2> QED  BY <1>1, <2>2 DEF Gate!Next
<1> QED  BY <1>4, <1>5, <1>6

LEMMA ExecuteIsPerform ==
    ASSUME CallsInv, NEW i \in Handlers, Execute(i)
    PROVE  Gate!Next
<1>0. PICK call : call = Head(req[i].todo)
  OBVIOUS
<1> DEFINE last == Len(performed) + 1
<1>1. approvals' = approvals
  BY DEF Execute, db
<1>2. \A status : DecidedCalls(status)' = DecidedCalls(status)
  BY <1>1 DEF DecidedCalls
<1>3. /\ PerformedCalls' = Append(PerformedCalls, call)
      /\ last \in DOMAIN PerformedCalls' /\ PerformedCalls'[last] = call
  BY <1>0, PerformedAppended DEF CallsInv, SerialInv
<1>4. Done' = Done \cup {call}
  <2>1. /\ DOMAIN performed' = DOMAIN performed \cup {last}
        /\ \A k \in DOMAIN performed : performed'[k] = performed[k]
        /\ performed'[last].call = call
    BY <1>0, CallPerformed DEF CallsInv, SerialInv
  <2> HIDE DEF last
  <2> QED  BY <2>1 DEF Done
<1>5. /\ call \notin Done
      /\ \/ /\ Granted(req[i].held) /\ req[i].held \in DOMAIN approvals
            /\ call = approvals[req[i].held].call
         \/ call.tool \notin Gated /\ call \notin Held
  BY <1>0, ExecutedCall
<1> HIDE DEF last
<1>6. CASE /\ Granted(req[i].held) /\ req[i].held \in DOMAIN approvals
           /\ call = approvals[req[i].held].call
  <2>1. call \in DecidedCalls("APPROVED") \ Done
    BY <1>5, <1>6 DEF DecidedCalls, Granted
  <2>2. DecidedCalls("APPROVED")' \ Done' = (DecidedCalls("APPROVED") \ Done) \ {call}
    BY <1>2, <1>4
  <2>3. Gate!PerformGranted(call)
    BY <1>2, <1>3, <2>1, <2>2 DEF Gate!PerformGranted, Done
  <2>4. call \in DecidedCalls("APPROVED")
                    \ {performed[k].call : k \in DOMAIN performed}
    BY <2>1 DEF Done
  <2> QED  BY <2>3, <2>4 DEF Gate!Next
<1>7. CASE call.tool \notin Gated /\ call \notin Held
  <2>1. Gate!Performed = Done
    BY DEF Gate!Performed, PerformedCalls, Done
  <2>2. call \notin Gate!Known
    BY <1>5, <1>7, <2>1, DecidedHeld DEF Gate!Known
  <2>3. call \notin DecidedCalls("APPROVED")
    BY <1>7, DecidedHeld
  <2>4. DecidedCalls("APPROVED")' \ Done' = DecidedCalls("APPROVED") \ Done
    BY <1>2, <1>4, <2>3
  <2>5. Gate!PerformFree(call)
    BY <1>2, <1>3, <1>7, <2>2, <2>4 DEF Gate!PerformFree, Gate!IsGated, Done
  <2> QED  BY <1>3, <2>5 DEF Gate!Next
<1> QED  BY <1>5, <1>6, <1>7

\* Every other step leaves the gate alone.
LEMMA GateSteps ==
    ASSUME CallsInv, [Next]_vars
    PROVE  [Gate!Next]_(Gate!gateVars)
<1>1. ASSUME NEW i \in Handlers, CreateApproval(i) \/ Decide(i) \/ Execute(i)
      PROVE  Gate!Next
  BY <1>1, AskIsAsk, DecideIsGrantOrRefuse, ExecuteIsPerform
<1>2. ASSUME NEW i \in Handlers,
             \/ MarkRunning(i) \/ MarkWaiting(i) \/ MarkCompleted(i)
             \/ MarkFailed(i) \/ CatchFailed(i) \/ MarkResumed(i)
             \/ MarkCancelled(i)
      PROVE  UNCHANGED <<approvals, performed>>
  BY <1>2 DEF MarkRunning, MarkWaiting, MarkCompleted, MarkFailed, CatchFailed,
     MarkResumed, MarkCancelled, MarkRunStatus
<1>3. ASSUME NEW i \in Handlers,
             \/ RecordInput(i) \/ RecordRequest(i) \/ RecordCompleted(i)
             \/ RecordFailed(i) \/ CatchRecord(i) \/ RecordGranted(i)
             \/ RecordCancelled(i)
      PROVE  UNCHANGED <<approvals, performed>>
  BY <1>3 DEF RecordInput, RecordRequest, RecordCompleted, RecordFailed,
     CatchRecord, RecordGranted, RecordCancelled, AddRunStep
<1>4. ASSUME NEW i \in Handlers,
             \/ Connect(i) \/ LoadTools(i) \/ LoadMessages(i) \/ Think(i)
             \/ ExceedSteps(i) \/ Dispatch(i) \/ Lookup(i) \/ ProposeAction(i)
             \/ FinishPipeline(i) \/ Return(i) \/ FindRun(i)
             \/ FindApproval(i) \/ StartDecision(i) \/ Throw(i) \/ Crash(i)
      PROVE  UNCHANGED <<approvals, performed>>
  BY <1>4 DEF Connect, LoadTools, LoadMessages, Think, ExceedSteps, Dispatch,
     Lookup, ProposeAction, FinishPipeline, Return, FindRun, FindApproval,
     StartDecision, Throw, Crash, db
<1>5. ASSUME NEW i \in Handlers,
             \/ RecordDecision(i) \/ RecordCall(i) \/ RecordCallStep(i)
             \/ SaveMessages(i) \/ CreateRun(i)
      PROVE  UNCHANGED <<approvals, performed>>
  BY <1>5 DEF RecordDecision, RecordCall, RecordCallStep, SaveMessages, CreateRun
<1>6. EditAgent \/ UNCHANGED vars => UNCHANGED <<approvals, performed>>
  BY DEF EditAgent, vars
<1> QED
  BY <1>1, <1>2, <1>3, <1>4, <1>5, <1>6, GateStutter DEF Next, Work

\* Without Overlap, the handlers implement the approval gate step by step,
\* through every pause, failure, crash and edit: what a human has decided stays
\* decided, what was refused is never performed, and what was granted is
\* performed at most once.
THEOREM AlwaysImplementsGate ==
    ASSUME ~Overlap
    PROVE  Spec => ImplementsGate
<1>1. ASSUME Init  PROVE Gate!Init
  BY <1>1 DEF Init, Gate!Init, DecidedCalls, PerformedCalls
<1>2. CallsInv /\ [Next]_vars => [Gate!Next]_(Gate!gateVars)
  BY GateSteps
<1> QED  BY <1>1, <1>2, CallsInit, CallsNext, PTL DEF Spec, ImplementsGate, Gate!Spec
-----------------------------------------------------------------------------
(* Each click's calls once, with Overlap too.                               *)

\* The calls a handler has performed itself.
By(i) == {performed[k].call : k \in {m \in DOMAIN performed : performed[m].by = i}}

\* Where a handler has performed nothing yet.
NotYetAt == {"idle", "markRunning", "recordInput", "findRun", "findApproval",
             "decide", "recordGranted", "markResumed", "connect"}

\* What a handler in state r has in hand is new to the handler itself,
\* whatever others do meanwhile.
OwnOf(i, r) ==
    /\ r.pc \in NotYetAt => By(i) = {}
    /\ r.pc \in {"recordDecision", "dispatch"} \cup Pausing
           => Unused(r.todo, By(i), asked)
    /\ r.pc = "dispatch" => r.task = "turn"
    /\ r.pc = "execute" /\ r.task = "heldBack"
           => /\ By(i) = {}
              /\ Head(r.todo).n \in 1 .. asked
              /\ Tail(r.todo) = <<>>
    /\ r.pc = "execute" /\ r.task # "heldBack" => Unused(r.todo, By(i), asked)
    /\ r.pc \in {"recordCall", "recordCallStep"}
           => Unused(Tail(r.todo), By(i), asked)

OwnRows ==
    /\ OncePerClick
    /\ \A c \in Done \cup Held : c.n \in 1 .. asked

OwnInv ==
    /\ TypeInv
    /\ OwnRows
    /\ \A i \in Handlers : OwnOf(i, req[i])

\* A handler's own calls are among those performed.
LEMMA ByDone == \A i : By(i) \subseteq Done
  BY DEF By, Done

\* A step of handler i leaves what the others have in hand alone, even if it
\* performs a call or proposes new ones.
LEMMA OwnStep ==
    ASSUME OwnInv, TypeInv', NEW i \in Handlers,
           req' = [req EXCEPT ![i] = req'[i]], asked <= asked',
           \A j \in Handlers \ {i} : By(j)' = By(j),
           OwnRows', OwnOf(i, req[i])'
    PROVE  OwnInv'
<1>1. \A j \in Handlers \ {i} : req'[j] = req[j]
  BY DEF OwnInv, TypeInv, TypeOK
<1>2. asked \in Nat /\ asked' \in Nat
  BY Rows DEF OwnInv, TypeInv, TypeOK, RowsOK
<1>3. ASSUME NEW j \in Handlers \ {i}  PROVE OwnOf(j, req[j])'
  <2>1. OwnOf(j, req[j]) /\ req'[j] = req[j] /\ By(j)' = By(j)
    BY <1>1 DEF OwnInv
  <2>2. \A calls : Unused(calls, By(j), asked) => Unused(calls, By(j), asked')
    BY <1>2, UnusedMore
  <2>3. \A n \in 1 .. asked : n \in 1 .. asked'
    BY <1>2
  <2> QED  BY <2>1, <2>2, <2>3 DEF OwnOf
<1> QED  BY <1>3 DEF OwnInv

LEMMA OwnRowsKept ==
    ASSUME OwnInv, performed' = performed, Held' = Held,
           asked' \in Nat, asked <= asked'
    PROVE  OwnRows' /\ \A j : By(j)' = By(j)
<1>1. Done' = Done /\ \A j : By(j)' = By(j)
  BY DEF Done, By
<1>2. asked \in Nat
  BY Rows DEF OwnInv
<1>3. \A c \in Done \cup Held : c.n \in 1 .. asked'
  BY <1>2 DEF OwnInv, OwnRows
<1> QED  BY <1>1, <1>3 DEF OwnInv, OwnRows, OncePerClick

\* The labels at which a handler's own calls matter.
OwnAt == NotYetAt \cup {"recordDecision", "dispatch", "execute", "recordCall",
                        "recordCallStep"} \cup Pausing

\* A handler that moves on with what it has in hand, or to where that does not
\* matter.
LEMMA OwnMove ==
    ASSUME OwnInv, TypeInv', NEW i \in Handlers,
           req' = [req EXCEPT ![i] = req'[i]],
           performed' = performed, Held' = Held, asked' = asked,
           \/ req'[i].pc \notin OwnAt
           \/ req[i].pc \in NotYetAt /\ req'[i].pc \in NotYetAt
           \/ /\ req'[i].todo = req[i].todo
              /\ \/ req[i].pc \in Pausing /\ req'[i].pc \in Pausing
                 \/ req[i].pc = "recordCall" /\ req'[i].pc = "recordCallStep"
    PROVE  OwnInv'
<1>1. asked \in Nat
  BY Rows DEF OwnInv
<1>2. OwnRows' /\ \A j : By(j)' = By(j)
  BY <1>1, OwnRowsKept
<1>3. OwnOf(i, req[i])
  BY DEF OwnInv
<1>4. OwnOf(i, req[i])'
  BY <1>2, <1>3 DEF OwnOf, OwnAt, NotYetAt, Pausing
<1> QED  BY <1>1, <1>2, <1>4, OwnStep

\* The same, for a handler of which only the label changes.
LEMMA OwnGoto ==
    ASSUME OwnInv, TypeInv', NEW i \in Handlers, NEW l, Goto(i, l),
           performed' = performed, Held' = Held, asked' = asked,
           \/ l \notin OwnAt
           \/ req[i].pc \in NotYetAt /\ l \in NotYetAt
           \/ req[i].pc \in Pausing /\ l \in Pausing
           \/ req[i].pc = "recordCall" /\ l = "recordCallStep"
    PROVE  OwnInv'
<1>1. /\ req' = [req EXCEPT ![i] = req'[i]]
      /\ req'[i].pc = l
      /\ req'[i].todo = req[i].todo
  BY Rows DEF Goto, OwnInv, Request
<1> QED  BY <1>1, OwnMove

\* The two kinds of row that say nothing about calls.
LEMMA HeldKept == approvals' = approvals => Held' = Held
  BY DEF Held

LEMMA OwnInit == Init => OwnInv
<1> SUFFICES ASSUME Init  PROVE OwnInv
  OBVIOUS
<1>1. OwnRows
  BY DEF Init, OwnRows, OncePerClick, Done, Held
<1>2. \A i \in Handlers : OwnOf(i, req[i])
  BY DEF Init, IdleRequest, OwnOf, By, NotYetAt, Pausing
<1> QED  BY <1>1, <1>2, InitType DEF OwnInv

\* Every action keeps OwnInv, whether decisions overlap or not.
LEMMA OwnNext == OwnInv /\ [Next]_vars => OwnInv'
<1> SUFFICES ASSUME OwnInv, [Next]_vars  PROVE OwnInv'
  OBVIOUS
<1>0. TypeInv'
  BY NextType DEF OwnInv
<1>1. ASSUME NEW i \in Handlers, MarkRunning(i)
      PROVE  OwnInv'
  BY <1>1, <1>0, OwnGoto, HeldKept
  DEF MarkRunning, MarkRunStatus, At, OwnAt, NotYetAt, Pausing
<1>2. ASSUME NEW i \in Handlers, MarkResumed(i)
      PROVE  OwnInv'
  BY <1>2, <1>0, OwnGoto, HeldKept
  DEF MarkResumed, MarkRunStatus, At, OwnAt, NotYetAt, Pausing
<1>3. ASSUME NEW i \in Handlers, MarkWaiting(i)
      PROVE  OwnInv'
  BY <1>3, <1>0, OwnGoto, HeldKept
  DEF MarkWaiting, MarkRunStatus, At, OwnAt, NotYetAt, Pausing
<1>4. ASSUME NEW i \in Handlers, MarkCompleted(i)
      PROVE  OwnInv'
  BY <1>4, <1>0, OwnGoto, HeldKept
  DEF MarkCompleted, MarkRunStatus, At, OwnAt, NotYetAt, Pausing
<1>5. ASSUME NEW i \in Handlers, MarkFailed(i)
      PROVE  OwnInv'
  BY <1>5, <1>0, OwnGoto, HeldKept
  DEF MarkFailed, MarkRunStatus, At, OwnAt, NotYetAt, Pausing
<1>6. ASSUME NEW i \in Handlers, CatchFailed(i)
      PROVE  OwnInv'
  BY <1>6, <1>0, OwnGoto, HeldKept
  DEF CatchFailed, MarkRunStatus, At, OwnAt, NotYetAt, Pausing
<1>7. ASSUME NEW i \in Handlers, MarkCancelled(i)
      PROVE  OwnInv'
  BY <1>7, <1>0, OwnGoto, HeldKept
  DEF MarkCancelled, MarkRunStatus, At, OwnAt, NotYetAt, Pausing
<1>8. ASSUME NEW i \in Handlers, RecordInput(i)
      PROVE  OwnInv'
  BY <1>8, <1>0, OwnGoto, HeldKept
  DEF RecordInput, AddRunStep, At, OwnAt, NotYetAt, Pausing
<1>9. ASSUME NEW i \in Handlers, RecordGranted(i)
      PROVE  OwnInv'
  BY <1>9, <1>0, OwnGoto, HeldKept
  DEF RecordGranted, AddRunStep, At, OwnAt, NotYetAt, Pausing
<1>10. ASSUME NEW i \in Handlers, RecordRequest(i)
      PROVE  OwnInv'
  BY <1>10, <1>0, OwnGoto, HeldKept
  DEF RecordRequest, AddRunStep, At, OwnAt, NotYetAt, Pausing
<1>11. ASSUME NEW i \in Handlers, RecordCompleted(i)
      PROVE  OwnInv'
  BY <1>11, <1>0, OwnGoto, HeldKept
  DEF RecordCompleted, AddRunStep, At, OwnAt, NotYetAt, Pausing
<1>12. ASSUME NEW i \in Handlers, RecordFailed(i)
      PROVE  OwnInv'
  BY <1>12, <1>0, OwnGoto, HeldKept
  DEF RecordFailed, AddRunStep, At, OwnAt, NotYetAt, Pausing
<1>13. ASSUME NEW i \in Handlers, CatchRecord(i)
      PROVE  OwnInv'
  BY <1>13, <1>0, OwnGoto, HeldKept
  DEF CatchRecord, AddRunStep, At, OwnAt, NotYetAt, Pausing
<1>14. ASSUME NEW i \in Handlers, RecordCancelled(i)
      PROVE  OwnInv'
  BY <1>14, <1>0, OwnGoto, HeldKept
  DEF RecordCancelled, AddRunStep, At, OwnAt, NotYetAt, Pausing
<1>15. ASSUME NEW i \in Handlers, ExceedSteps(i)
      PROVE  OwnInv'
  BY <1>15, <1>0, OwnGoto, HeldKept DEF ExceedSteps, db, At, OwnAt, NotYetAt, Pausing
<1>16. ASSUME NEW i \in Handlers, FinishPipeline(i)
      PROVE  OwnInv'
  BY <1>16, <1>0, OwnGoto, HeldKept DEF FinishPipeline, db, At, OwnAt, NotYetAt, Pausing
<1>17. ASSUME NEW i \in Handlers, Return(i)
      PROVE  OwnInv'
  BY <1>17, <1>0, OwnGoto, HeldKept DEF Return, db, At, OwnAt, NotYetAt, Pausing
<1>18. ASSUME NEW i \in Handlers, SaveMessages(i)
      PROVE  OwnInv'
  BY <1>18, <1>0, OwnGoto, HeldKept DEF SaveMessages, db, At, OwnAt, NotYetAt, Pausing
<1>19. ASSUME NEW i \in Handlers, RecordCall(i)
      PROVE  OwnInv'
  BY <1>19, <1>0, OwnGoto, HeldKept DEF RecordCall, db, At, OwnAt, NotYetAt, Pausing
<1>20. ASSUME NEW i \in Handlers, Throw(i)
      PROVE  OwnInv'
  BY <1>20, <1>0, OwnGoto, HeldKept DEF Throw, db, At, OwnAt, NotYetAt, Pausing
<1>21. ASSUME NEW i \in Handlers, Crash(i)
      PROVE  OwnInv'
  BY <1>21, <1>0, OwnGoto, HeldKept DEF Crash, db, At, OwnAt, NotYetAt, Pausing
<1>22. ASSUME NEW i \in Handlers, LoadTools(i)
      PROVE  OwnInv'
  <2>1. req' = [req EXCEPT ![i] = req'[i]]
    BY <1>22 DEF LoadTools, OwnInv, TypeInv, TypeOK
  <2>2. /\ UNCHANGED <<performed, approvals, asked>>
        /\ \/ req'[i].pc \notin OwnAt
           \/ req[i].pc \in NotYetAt /\ req'[i].pc \in NotYetAt
    BY <1>22 DEF LoadTools, db, At, OwnInv, TypeInv, TypeOK, Request, OwnAt, NotYetAt, Pausing
  <2> QED  BY <1>0, <2>1, <2>2, OwnMove, HeldKept
<1>23. ASSUME NEW i \in Handlers, LoadMessages(i)
      PROVE  OwnInv'
  <2>1. req' = [req EXCEPT ![i] = req'[i]]
    BY <1>23 DEF LoadMessages, OwnInv, TypeInv, TypeOK
  <2>2. /\ UNCHANGED <<performed, approvals, asked>>
        /\ \/ req'[i].pc \notin OwnAt
           \/ req[i].pc \in NotYetAt /\ req'[i].pc \in NotYetAt
    BY <1>23 DEF LoadMessages, db, At, OwnInv, TypeInv, TypeOK, Request, OwnAt, NotYetAt, Pausing
  <2> QED  BY <1>0, <2>1, <2>2, OwnMove, HeldKept
<1>24. ASSUME NEW i \in Handlers, CreateRun(i)
      PROVE  OwnInv'
  <2>1. req' = [req EXCEPT ![i] = req'[i]]
    BY <1>24 DEF CreateRun, OwnInv, TypeInv, TypeOK
  <2>2. /\ UNCHANGED <<performed, approvals, asked>>
        /\ \/ req'[i].pc \notin OwnAt
           \/ req[i].pc \in NotYetAt /\ req'[i].pc \in NotYetAt
    BY <1>24 DEF CreateRun, db, At, OwnInv, TypeInv, TypeOK, Request, OwnAt, NotYetAt, Pausing
  <2> QED  BY <1>0, <2>1, <2>2, OwnMove, HeldKept
<1>25. ASSUME NEW i \in Handlers, FindRun(i)
      PROVE  OwnInv'
  <2>1. req' = [req EXCEPT ![i] = req'[i]]
    BY <1>25 DEF FindRun, OwnInv, TypeInv, TypeOK
  <2>2. /\ UNCHANGED <<performed, approvals, asked>>
        /\ \/ req'[i].pc \notin OwnAt
           \/ req[i].pc \in NotYetAt /\ req'[i].pc \in NotYetAt
    BY <1>25 DEF FindRun, db, At, OwnInv, TypeInv, TypeOK, Request, OwnAt, NotYetAt, Pausing
  <2> QED  BY <1>0, <2>1, <2>2, OwnMove, HeldKept
<1>26. ASSUME NEW i \in Handlers, FindApproval(i)
      PROVE  OwnInv'
  <2>1. req' = [req EXCEPT ![i] = req'[i]]
    BY <1>26 DEF FindApproval, OwnInv, TypeInv, TypeOK
  <2>2. /\ UNCHANGED <<performed, approvals, asked>>
        /\ \/ req'[i].pc \notin OwnAt
           \/ req[i].pc \in NotYetAt /\ req'[i].pc \in NotYetAt
    BY <1>26 DEF FindApproval, db, At, OwnInv, TypeInv, TypeOK, Request, OwnAt, NotYetAt, Pausing, AfterDecision
  <2> QED  BY <1>0, <2>1, <2>2, OwnMove, HeldKept
<1>27. ASSUME NEW i \in Handlers, StartDecision(i)
      PROVE  OwnInv'
  <2>1. PICK choice \in Choices :
             req' = [req EXCEPT ![i].pc = "findRun", ![i].choice = choice]
    BY <1>27 DEF StartDecision
  <2>2. req' = [req EXCEPT ![i] = req'[i]]
    BY <2>1 DEF OwnInv, TypeInv, TypeOK
  <2>3. req'[i].pc = "findRun"
    BY <2>1 DEF OwnInv, TypeInv, TypeOK, Request
  <2> QED
    BY <1>27, <1>0, <2>2, <2>3, OwnMove, HeldKept
    DEF StartDecision, At, db, NotYetAt
<1>28. ASSUME NEW i \in Handlers, Decide(i)
      PROVE  OwnInv'
  <2>1. /\ DOMAIN approvals' = DOMAIN approvals
        /\ \A k \in DOMAIN approvals : approvals'[k].call = approvals[k].call
    BY <1>28, DecisionWritten DEF OwnInv
  <2>2. Held' = Held
    BY <2>1 DEF Held
  <2>3. AfterDecision(i) \in NotYetAt \/ AfterDecision(i) \notin OwnAt
    BY DEF AfterDecision, OwnAt, NotYetAt, Pausing
  <2> QED  BY <1>28, <1>0, <2>2, <2>3, OwnGoto DEF Decide, At, NotYetAt
<1>29. ASSUME NEW i \in Handlers, Connect(i)
      PROVE  OwnInv'
  <2>1. req[i].pc = "connect" /\ UNCHANGED <<performed, approvals, asked>>
    BY <1>29 DEF Connect, At, db
  <2>2. req' = [req EXCEPT ![i] = req'[i]]
    BY <1>29 DEF Connect, Goto, OwnInv, TypeInv, TypeOK
  <2>3. CASE i = Starter \/ ~HasHeldBack(i)
    <3>1. req'[i].pc \in {"loadTools", "markCompleted"}
      BY <1>29, <2>3 DEF Connect, Goto, AfterHeldBack, OwnInv, TypeInv, TypeOK, Request
    <3> QED  BY <1>0, <2>1, <2>2, <3>1, OwnMove, HeldKept DEF OwnAt, NotYetAt, Pausing
  <2>4. CASE i # Starter /\ HasHeldBack(i)
    <3> DEFINE call == approvals[req[i].held].call
    <3>1. req' = [req EXCEPT ![i].pc = "execute", ![i].task = "heldBack", ![i].todo = <<call>>]
      BY <1>29, <2>4 DEF Connect
    <3>2. call \in Held
      BY <2>4 DEF HasHeldBack, Held, OwnInv, TypeInv, CallInHand
    <3> HIDE DEF call
    <3>3. /\ req'[i].pc = "execute" /\ req'[i].task = "heldBack"
          /\ req'[i].todo = <<call>>
      BY <3>1 DEF OwnInv, TypeInv, TypeOK, Request
    <3>4. Head(<<call>>) = call /\ Tail(<<call>>) = <<>>
      OBVIOUS
    <3>5. OwnRows' /\ \A j : By(j)' = By(j)
      BY <2>1, OwnRowsKept, HeldKept, Rows DEF OwnInv
    <3>6. By(i) = {} /\ call.n \in 1 .. asked
      BY <2>1, <3>2 DEF OwnInv, OwnOf, NotYetAt, OwnRows
    <3>7. OwnOf(i, req[i])'
      BY <2>1, <3>3, <3>4, <3>5, <3>6 DEF OwnOf, NotYetAt, Pausing
    <3>8. asked <= asked'
      BY <2>1, Rows DEF OwnInv
    <3> QED  BY <1>0, <2>2, <3>5, <3>7, <3>8, OwnStep
  <2> QED  BY <2>3, <2>4
<1>30. ASSUME NEW i \in Handlers, Think(i)
      PROVE  OwnInv'
  <2>1. req[i].pc = "think" /\ UNCHANGED <<performed, approvals>>
    BY <1>30 DEF Think, At, db
  <2>2. req' = [req EXCEPT ![i] = req'[i]] /\ req'[i].pc = "recordDecision"
    BY <1>30 DEF Think, OwnInv, TypeInv, TypeOK, Request
  <2>3. asked \in Nat
    BY Rows DEF OwnInv
  <2>4. asked' \in Nat /\ asked <= asked' /\ Unused(req'[i].todo, By(i), asked')
    <3>1. CASE \E plain \in BOOLEAN :
                  /\ req' = [req EXCEPT ![i].pc = "recordDecision",
                                        ![i].todo = <<>>, ![i].ok = plain]
                  /\ asked' = asked
      <4>1. req'[i].todo = <<>>
        BY <3>1 DEF OwnInv, TypeInv, TypeOK, Request
      <4> QED  BY <2>3, <3>1, <4>1, UnusedNone
    <3>2. CASE \E answer \in Answers :
                  /\ req' = [req EXCEPT ![i].pc = "recordDecision",
                                        ![i].todo = Numbered(answer)]
                  /\ asked' = asked + Len(answer)
      <4>1. PICK answer \in Answers :
                  /\ req' = [req EXCEPT ![i].pc = "recordDecision",
                                        ![i].todo = Numbered(answer)]
                  /\ asked' = asked + Len(answer)
        BY <3>2
      <4>2. answer \in Seq(Tools) /\ Len(answer) \in Nat
        BY AnswersType
      <4>3. req'[i].todo = Numbered(answer)
        BY <4>1 DEF OwnInv, TypeInv, TypeOK, Request
      <4>4. asked + Len(answer) \in Nat /\ asked <= asked + Len(answer)
        BY <2>3, <4>2
      <4>5. \A c \in By(i) : c.n \in 1 .. asked
        BY ByDone DEF OwnInv, OwnRows
      <4>6. Unused(Numbered(answer), By(i), asked + Len(answer))
        BY <4>2, <4>5, NumberedUnused DEF OwnInv
      <4> QED  BY <4>1, <4>3, <4>4, <4>6
    <3> QED  BY <1>30, <3>1, <3>2 DEF Think
  <2>5. OwnRows' /\ \A j : By(j)' = By(j)
    BY <2>1, <2>4, OwnRowsKept, HeldKept
  <2>6. OwnOf(i, req[i])'
    BY <2>2, <2>4, <2>5 DEF OwnOf, NotYetAt, Pausing
  <2> QED  BY <1>0, <2>2, <2>4, <2>5, <2>6, OwnStep
<1>31. ASSUME NEW i \in Handlers, RecordDecision(i)
      PROVE  OwnInv'
  <2>1. req[i].pc = "recordDecision" /\ UNCHANGED <<performed, approvals, asked>>
    BY <1>31 DEF RecordDecision, At
  <2>2. /\ req' = [req EXCEPT ![i] = req'[i]]
        /\ req'[i].pc \in {"dispatch", "markCompleted", "markFailed"}
        /\ req'[i].todo = req[i].todo
        /\ req'[i].task = "turn"
    BY <1>31, DecisionRecorded DEF OwnInv
  <2>3. OwnRows' /\ \A j : By(j)' = By(j)
    BY <2>1, OwnRowsKept, HeldKept, Rows DEF OwnInv
  <2>4. Unused(req[i].todo, By(i), asked)
    BY <2>1 DEF OwnInv, OwnOf
  <2>5. OwnOf(i, req[i])'
    BY <2>1, <2>2, <2>3, <2>4 DEF OwnOf, NotYetAt, Pausing
  <2>6. asked <= asked'
    BY <2>1, Rows DEF OwnInv
  <2> QED  BY <1>0, <2>2, <2>3, <2>5, <2>6, OwnStep
<1>32. ASSUME NEW i \in Handlers, Dispatch(i)
      PROVE  OwnInv'
  <2>1. req[i].pc = "dispatch" /\ UNCHANGED <<performed, approvals, asked>>
    BY <1>32 DEF Dispatch, At, db
  <2>2. req' = [req EXCEPT ![i] = req'[i]]
    BY <1>32 DEF Dispatch, OwnInv, TypeInv, TypeOK
  <2>3. CASE req[i].todo = <<>>
    <3>1. req'[i].pc = "think"
      BY <1>32, <2>3 DEF Dispatch, OwnInv, TypeInv, TypeOK, Request
    <3> QED  BY <1>0, <2>1, <2>2, <3>1, OwnMove, HeldKept DEF OwnAt, NotYetAt, Pausing
  <2>4. CASE req[i].todo # <<>>
    <3>1. /\ req'[i].pc = Route(i, Head(req[i].todo).tool, "saveMessages")
          /\ req'[i].todo = req[i].todo
          /\ req'[i].task = req[i].task
      BY <1>32, <2>4 DEF Dispatch, OwnInv, TypeInv, TypeOK, Request
    <3>2. OwnRows' /\ \A j : By(j)' = By(j)
      BY <2>1, OwnRowsKept, HeldKept, Rows DEF OwnInv
    <3>3. Unused(req[i].todo, By(i), asked) /\ req[i].task = "turn"
      BY <2>1 DEF OwnInv, OwnOf
    <3>4. Unused(Tail(req[i].todo), By(i), asked)
      BY <2>4, <3>3, UnusedTail DEF OwnInv, TypeInv, TypeOK, Request
    <3>5. OwnOf(i, req[i])'
      BY <2>1, <3>1, <3>2, <3>3, <3>4 DEF OwnOf, NotYetAt, Pausing, Route
    <3>6. asked <= asked'
      BY <2>1, Rows DEF OwnInv
    <3> QED  BY <1>0, <2>2, <3>2, <3>5, <3>6, OwnStep
  <2> QED  BY <2>3, <2>4
<1>33. ASSUME NEW i \in Handlers, RecordCallStep(i)
      PROVE  OwnInv'
  <2>1. req[i].pc = "recordCallStep" /\ UNCHANGED <<performed, approvals, asked>>
    BY <1>33 DEF RecordCallStep, At
  <2>2. /\ req' = [req EXCEPT ![i] = req'[i]]
        /\ req'[i].pc = AfterCall(i)
        /\ req'[i].todo = Tail(req[i].todo)
        /\ req'[i].task = req[i].task
    BY <1>33 DEF RecordCallStep, OwnInv, TypeInv, TypeOK, Request
  <2>3. /\ req[i].task = "turn" => AfterCall(i) = "dispatch"
        /\ req[i].task # "turn" => AfterCall(i) \notin OwnAt
    BY DEF AfterCall, AfterHeldBack, OwnAt, NotYetAt, Pausing
  <2>4. CASE req[i].task = "turn"
    <3>1. OwnRows' /\ \A j : By(j)' = By(j)
      BY <2>1, OwnRowsKept, HeldKept, Rows DEF OwnInv
    <3>2. Unused(Tail(req[i].todo), By(i), asked)
      BY <2>1 DEF OwnInv, OwnOf
    <3>3. OwnOf(i, req[i])'
      BY <2>1, <2>2, <2>3, <2>4, <3>1, <3>2 DEF OwnOf, NotYetAt, Pausing
    <3>4. asked <= asked'
      BY <2>1, Rows DEF OwnInv
    <3> QED  BY <1>0, <2>2, <3>1, <3>3, <3>4, OwnStep
  <2>5. CASE req[i].task # "turn"
    BY <1>0, <2>1, <2>2, <2>3, <2>5, OwnMove, HeldKept
  <2> QED  BY <2>4, <2>5
<1>34. ASSUME NEW i \in Handlers, Lookup(i)
      PROVE  OwnInv'
  <2>1. /\ req[i].pc = "pipeline" /\ UNCHANGED <<performed, approvals>>
        /\ asked' = asked + 1
    BY <1>34 DEF Lookup, At, db
  <2>2. PICK tool \in Tools \ Gated :
             req' = [req EXCEPT ![i].pc = Route(i, tool, "execute"), ![i].task = "lookup",
                                ![i].ok = FALSE, ![i].turn = @ + 1, ![i].todo = Numbered(<<tool>>)]
    BY <1>34 DEF Lookup
  <2>3. /\ req' = [req EXCEPT ![i] = req'[i]]
        /\ req'[i].pc \in {"recordCall", "execute", "markWaiting"}
        /\ req'[i].todo = Numbered(<<tool>>)
        /\ req'[i].task = "lookup"
    BY <2>2 DEF OwnInv, TypeInv, TypeOK, Request, Route
  <2>4. asked \in Nat /\ asked + 1 \in Nat /\ asked <= asked + 1
    BY Rows DEF OwnInv
  <2>5. OwnRows' /\ \A j : By(j)' = By(j)
    BY <2>1, <2>4, OwnRowsKept, HeldKept
  <2>6. /\ Unused(Numbered(<<tool>>), By(i), asked')
        /\ Unused(Tail(Numbered(<<tool>>)), By(i), asked')
    <3>1. \A c \in By(i) : c.n \in 1 .. asked
      BY ByDone DEF OwnInv, OwnRows
    <3> QED  BY <2>1, <3>1, OneNumberedUnused DEF OwnInv
  <2>7. OwnOf(i, req[i])'
    BY <2>3, <2>5, <2>6 DEF OwnOf, NotYetAt, Pausing
  <2> QED  BY <1>0, <2>1, <2>3, <2>4, <2>5, <2>7, OwnStep
<1>35. ASSUME NEW i \in Handlers, ProposeAction(i)
      PROVE  OwnInv'
  <2>1. /\ req[i].pc = "pipeline" /\ UNCHANGED <<performed, approvals>>
        /\ asked' = asked + 1
    BY <1>35 DEF ProposeAction, At, db
  <2>2. PICK tool \in Tools :
             req' = [req EXCEPT ![i].pc = Route(i, tool, "markWaiting"), ![i].task = "act",
                                ![i].ok = FALSE, ![i].todo = Numbered(<<tool>>)]
    BY <1>35 DEF ProposeAction
  <2>3. /\ req' = [req EXCEPT ![i] = req'[i]]
        /\ req'[i].pc \in {"recordCall", "execute", "markWaiting"}
        /\ req'[i].todo = Numbered(<<tool>>)
        /\ req'[i].task = "act"
    BY <2>2 DEF OwnInv, TypeInv, TypeOK, Request, Route
  <2>4. asked \in Nat /\ asked + 1 \in Nat /\ asked <= asked + 1
    BY Rows DEF OwnInv
  <2>5. OwnRows' /\ \A j : By(j)' = By(j)
    BY <2>1, <2>4, OwnRowsKept, HeldKept
  <2>6. /\ Unused(Numbered(<<tool>>), By(i), asked')
        /\ Unused(Tail(Numbered(<<tool>>)), By(i), asked')
    <3>1. \A c \in By(i) : c.n \in 1 .. asked
      BY ByDone DEF OwnInv, OwnRows
    <3> QED  BY <2>1, <3>1, OneNumberedUnused DEF OwnInv
  <2>7. OwnOf(i, req[i])'
    BY <2>3, <2>5, <2>6 DEF OwnOf, NotYetAt, Pausing
  <2> QED  BY <1>0, <2>1, <2>3, <2>4, <2>5, <2>7, OwnStep
<1>36. ASSUME NEW i \in Handlers, CreateApproval(i)
      PROVE  OwnInv'
  <2>1. /\ req[i].pc = "createApproval" /\ UNCHANGED <<performed, asked>>
        /\ req[i].todo # <<>> /\ req[i].todo \in Seq(Call)
    BY <1>36 DEF CreateApproval, At, OwnInv, TypeInv, TypeOK, Request, CallInHand, InHand
  <2>2. /\ req' = [req EXCEPT ![i] = req'[i]]
        /\ req'[i].pc = "returning"
    BY <1>36 DEF CreateApproval, Goto, OwnInv, TypeInv, TypeOK, Request
  <2> DEFINE call == Head(req[i].todo)
             last == Len(approvals) + 1
  <2>3. /\ DOMAIN approvals' = DOMAIN approvals \cup {last}
        /\ \A k \in DOMAIN approvals : approvals'[k] = approvals[k]
        /\ approvals'[last] = [call |-> call, status |-> "PENDING"]
    BY <1>36, ApprovalAdded DEF OwnInv
  <2>4. call.n \in 1 .. asked
    <3>1. Unused(req[i].todo, By(i), asked)
      BY <2>1 DEF OwnInv, OwnOf, Pausing
    <3> QED  BY <2>1, <3>1, UnusedTail DEF Fresh
  <2> HIDE DEF call, last
  <2>5. Held' = Held \cup {call} /\ Done' = Done /\ \A j : By(j)' = By(j)
    BY <2>1, <2>3 DEF Held, Done, By
  <2>6. OwnRows'
    BY <2>1, <2>4, <2>5 DEF OwnInv, OwnRows, OncePerClick
  <2>7. OwnOf(i, req[i])'
    BY <2>2 DEF OwnOf, NotYetAt, Pausing
  <2>8. asked <= asked'
    BY <2>1, Rows DEF OwnInv
  <2> QED  BY <1>0, <2>2, <2>5, <2>6, <2>7, <2>8, OwnStep
<1>37. ASSUME NEW i \in Handlers, Execute(i)
      PROVE  OwnInv'
  <2>1. /\ req[i].pc = "execute" /\ UNCHANGED <<approvals, asked>>
        /\ req[i].todo # <<>> /\ req[i].todo \in Seq(Call)
    BY <1>37 DEF Execute, At, db, OwnInv, TypeInv, TypeOK, Request, CallInHand, InHand
  <2>2. /\ req' = [req EXCEPT ![i] = req'[i]]
        /\ req'[i].pc = "recordCall"
        /\ req'[i].todo = req[i].todo
    <3>1. PICK ok \in BOOLEAN :
               req' = [req EXCEPT ![i].pc = "recordCall", ![i].ok = ok]
      BY <1>37 DEF Execute
    <3> QED  BY <3>1 DEF OwnInv, TypeInv, TypeOK, Request
  <2> DEFINE call == Head(req[i].todo)
             last == Len(performed) + 1
  <2>3. /\ last \notin DOMAIN performed
        /\ DOMAIN performed' = DOMAIN performed \cup {last}
        /\ \A k \in DOMAIN performed : performed'[k] = performed[k]
        /\ performed'[last].call = call
        /\ performed'[last].by = i
    BY <1>37, CallPerformed DEF OwnInv
  <2>4. /\ call \notin By(i) /\ call.n \in 1 .. asked
        /\ Unused(Tail(req[i].todo), By(i) \cup {call}, asked)
    <3>1. CASE req[i].task = "heldBack"
      BY <2>1, <3>1, UnusedNone DEF OwnInv, OwnOf
    <3>2. CASE req[i].task # "heldBack"
      <4>1. Unused(req[i].todo, By(i), asked)
        BY <2>1, <3>2 DEF OwnInv, OwnOf
      <4> QED  BY <2>1, <4>1, UnusedTail DEF Fresh
    <3> QED  BY <3>1, <3>2
  <2> HIDE DEF call, last
  <2>5. Done' = Done \cup {call} /\ Held' = Held
    BY <2>1, <2>3 DEF Done, Held
  <2>6. By(i)' = By(i) \cup {call}
    BY <2>3 DEF By
  <2>7. ASSUME NEW j \in Handlers \ {i}  PROVE By(j)' = By(j)
    BY <2>3 DEF By
  <2>8. OwnRows'
    <3>1. ASSUME NEW j \in DOMAIN performed', NEW k \in DOMAIN performed',
                 performed'[j] = performed'[k]
          PROVE  j = k
      <4>1. CASE j \in DOMAIN performed /\ k \in DOMAIN performed
        BY <2>3, <3>1, <4>1 DEF OwnInv, OwnRows, OncePerClick
      <4>2. ASSUME NEW m \in DOMAIN performed  PROVE performed'[m] # performed'[last]
        <5>1. performed[m].by = i => performed[m].call \in By(i)
          BY DEF By
        <5> QED  BY <2>3, <2>4, <5>1
      <4> QED  BY <2>3, <3>1, <4>1, <4>2
    <3> QED  BY <2>1, <2>4, <2>5, <3>1 DEF OwnInv, OwnRows, OncePerClick
  <2>9. OwnOf(i, req[i])'
    BY <2>1, <2>2, <2>4, <2>6 DEF OwnOf, NotYetAt, Pausing
  <2>10. asked <= asked'
    BY <2>1, Rows DEF OwnInv
  <2> QED  BY <1>0, <2>2, <2>7, <2>8, <2>9, <2>10, OwnStep
<1>38. ASSUME EditAgent
      PROVE  OwnInv'
  <2>1. UNCHANGED <<performed, approvals, asked, req>>
    BY <1>38 DEF EditAgent
  <2>2. OwnRows' /\ \A j : By(j)' = By(j)
    BY <2>1, OwnRowsKept, HeldKept, Rows DEF OwnInv
  <2>3. ASSUME NEW i \in Handlers  PROVE OwnOf(i, req[i])'
    <3>1. OwnOf(i, req[i])
      BY DEF OwnInv
    <3> QED  BY <2>1, <2>2, <3>1 DEF OwnOf
  <2> QED  BY <1>0, <2>2, <2>3 DEF OwnInv
<1>39. CASE UNCHANGED vars
  <2>1. UNCHANGED <<performed, approvals, asked, req>>
    BY <1>39 DEF vars
  <2>2. OwnRows' /\ \A j : By(j)' = By(j)
    BY <2>1, OwnRowsKept, HeldKept, Rows DEF OwnInv
  <2>3. ASSUME NEW i \in Handlers  PROVE OwnOf(i, req[i])'
    <3>1. OwnOf(i, req[i])
      BY DEF OwnInv
    <3> QED  BY <2>1, <2>2, <3>1 DEF OwnOf
  <2> QED  BY <1>0, <2>2, <2>3 DEF OwnInv
<1> QED
  BY
     <1>1, <1>2, <1>3, <1>4, <1>5, <1>6, <1>7, <1>8, <1>9, <1>10, <1>11,
     <1>12, <1>13, <1>14, <1>15, <1>16, <1>17, <1>18, <1>19, <1>20,
     <1>21, <1>22, <1>23, <1>24, <1>25, <1>26, <1>27, <1>28, <1>29,
     <1>30, <1>31, <1>32, <1>33, <1>34, <1>35, <1>36, <1>37, <1>38,
     <1>39
  DEF Next, Work

\* No click executes a call twice, however many clicks arrive, at whatever
\* time, and whatever fails: a second execution of a proposal is always that of
\* another click.
THEOREM AlwaysOncePerClick == Spec => []OncePerClick
<1>1. OwnInv => OncePerClick
  BY DEF OwnInv, OwnRows
<1> QED  BY <1>1, OwnInit, OwnNext, PTL DEF Spec
=============================================================================
