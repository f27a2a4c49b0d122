--------------------------- MODULE WorkflowsProofs ---------------------------
(***************************************************************************)
(* Proofs about Workflows for every set of rows, organisations, clicks and *)
(* messages.                                                               *)
(***************************************************************************)
EXTENDS Workflows, SequenceTheorems, TLAPS

-----------------------------------------------------------------------------
(* Types.  RowInv adds the sequence of accounts.                            *)

\* The labels of a click on a workflow, and of one that adds an agent.
OnWorkflow == {"findToActivate", "demote", "setActive", "findToDeactivate",
               "setDraft", "findToAdd", "findAgent", "upsert"}
OnAgent == {"findToAdd", "findAgent", "upsert"}

\* A click on a workflow names one, and a click that adds an agent names it.
Named ==
    \A c \in Clicks :
        /\ click[c].pc \in OnWorkflow => click[c].workflow \in Workflows
        /\ click[c].pc \in OnAgent => click[c].agent \in Agents

TypeInv ==
    /\ Named
    /\ workflows \in [Workflows -> Row]
    /\ members \in MemberRows
    /\ agents \in [Agents -> {"ACTIVE", "ARCHIVED", "GONE"}]
    /\ click \in [Clicks -> Click]
    /\ msg \in [Messages -> Message]

LEMMA TypeInit == Init => TypeInv
  BY IdsAssumption, SetupAssumption
  DEF Init, TypeInv, Named, OnWorkflow, OnAgent, Click, Message, NoClick, Triggers, Roles, Bindings

\* Moving a click to a label, or ending it, keeps it a click and leaves the
\* others alone.
LEMMA GotoType ==
    ASSUME TypeInv, NEW c \in Clicks, NEW l, Goto(c, l),
           l \in {"idle", "demote", "setActive", "setDraft", "findAgent",
                  "upsert", "insert"},
           l \in OnWorkflow => click[c].workflow \in Workflows,
           l \in OnAgent => click[c].agent \in Agents
    PROVE  /\ click' \in [Clicks -> Click]
           /\ Named'
           /\ click'[c].pc = l
           /\ l # "idle" => click'[c] = [click[c] EXCEPT !.pc = l]
           /\ \A d \in Clicks : d # c => click'[d] = click[d]
<1>1. NoClick \in Click /\ NoClick.pc = "idle"
  BY DEF NoClick, Click, Triggers, Roles, Bindings
<1>2. /\ [click[c] EXCEPT !.pc = l] \in Click
      /\ [click[c] EXCEPT !.pc = l].pc = l
      /\ [click[c] EXCEPT !.pc = l].workflow = click[c].workflow
      /\ [click[c] EXCEPT !.pc = l].agent = click[c].agent
  BY DEF TypeInv, Click
<1>3. click' = [click EXCEPT ![c] =
                   IF l = "idle" THEN NoClick ELSE [click[c] EXCEPT !.pc = l]]
  BY DEF Goto
<1>4. /\ click'[c] = IF l = "idle" THEN NoClick ELSE [click[c] EXCEPT !.pc = l]
      /\ \A d \in Clicks : d # c => click'[d] = click[d]
  BY <1>3 DEF TypeInv
<1>5. click' \in [Clicks -> Click]
  BY <1>1, <1>2, <1>3 DEF TypeInv
<1>6. Named'
  BY <1>1, <1>2, <1>4 DEF TypeInv, Named, OnWorkflow, OnAgent
<1> QED  BY <1>1, <1>2, <1>4, <1>5, <1>6

\* The order of the calls of an activation.
LEMMA ThenOrder ==
    /\ Then("find") = "demote"
    /\ Then("demote") = "setActive"
    /\ Then("setActive") = "idle"
  BY DEF Then

\* A click that starts on a workflow becomes a record with these fields.
LEMMA StartedOnWorkflow ==
    ASSUME TypeInv, NEW c \in Clicks, NEW op, NEW l,
           l \in {"findToActivate", "findToDeactivate"},
           StartOnWorkflow(c, op, l)
    PROVE  /\ TypeInv'
           /\ click'[c].pc = l
           /\ \A d \in Clicks : d # c => click'[d] = click[d]
<1>1. PICK org \in Orgs, w \in Workflows :
          click' = [click EXCEPT ![c].pc = l, ![c].org = org, ![c].workflow = w]
  BY DEF StartOnWorkflow
<1>2. click' = [click EXCEPT ![c] =
                   [click[c] EXCEPT !.pc = l, !.org = org, !.workflow = w]]
  BY <1>1 DEF TypeInv
<1>3. [click[c] EXCEPT !.pc = l, !.org = org, !.workflow = w] \in Click
  BY DEF TypeInv, Click
<1>4. /\ click'[c] = [click[c] EXCEPT !.pc = l, !.org = org, !.workflow = w]
      /\ \A d \in Clicks : d # c => click'[d] = click[d]
  BY <1>2 DEF TypeInv
<1>5. click'[c].pc = l /\ click'[c].workflow = w
  BY <1>3, <1>4 DEF TypeInv, Click
<1>6. click' \in [Clicks -> Click]
  BY <1>2, <1>3 DEF TypeInv
<1>7. Named'
  BY <1>4, <1>5 DEF TypeInv, Named, OnWorkflow, OnAgent
<1> QED  BY <1>4, <1>5, <1>6, <1>7 DEF StartOnWorkflow, TypeInv

LEMMA StartedAdding ==
    ASSUME TypeInv, NEW c \in Clicks, StartAdd(c)
    PROVE  /\ TypeInv'
           /\ click'[c].pc = "findToAdd"
           /\ \A d \in Clicks : d # c => click'[d] = click[d]
<1>1. PICK org \in Orgs, w \in Workflows, a \in Agents, role \in Roles :
          click' = [click EXCEPT ![c].pc = "findToAdd", ![c].org = org,
                                 ![c].workflow = w, ![c].agent = a,
                                 ![c].role = role]
  BY DEF StartAdd
<1> DEFINE k == [click[c] EXCEPT !.pc = "findToAdd", !.org = org,
                                 !.workflow = w, !.agent = a, !.role = role]
<1>2. click' = [click EXCEPT ![c] = k]
  BY <1>1 DEF TypeInv
<1>3. k \in Click /\ k.pc = "findToAdd" /\ k.workflow = w /\ k.agent = a
  BY DEF TypeInv, Click
<1>4. click'[c] = k /\ \A d \in Clicks : d # c => click'[d] = click[d]
  BY <1>2 DEF TypeInv
<1>5. click' \in [Clicks -> Click]
  BY <1>2, <1>3 DEF TypeInv
<1>6. Named'
  BY <1>3, <1>4 DEF TypeInv, Named, OnWorkflow, OnAgent
<1> QED  BY <1>3, <1>4, <1>5, <1>6 DEF StartAdd, TypeInv

\* A click that creates a workflow without an account has nothing to look up.
LEMMA StartedCreating ==
    ASSUME TypeInv, NEW c \in Clicks, StartCreate(c)
    PROVE  /\ TypeInv'
           /\ click'[c].pc \in {"validate", "insert"}
           /\ click'[c].pc = "insert" => click'[c].account = None
           /\ \A d \in Clicks : d # c => click'[d] = click[d]
<1>1. PICK org \in Orgs, trigger \in Triggers, account \in Bindings :
          click' = [click EXCEPT
                 ![c].pc = IF account = None THEN "insert" ELSE "validate",
                 ![c].org = org, ![c].trigger = trigger, ![c].account = account]
  BY DEF StartCreate
<1> DEFINE k == [click[c] EXCEPT
                     !.pc = IF account = None THEN "insert" ELSE "validate",
                     !.org = org, !.trigger = trigger, !.account = account]
<1>2. click' = [click EXCEPT ![c] = k]
  BY <1>1 DEF TypeInv
<1>3. /\ k \in Click
      /\ k.pc \in {"validate", "insert"}
      /\ k.pc = "insert" => k.account = None
  BY DEF TypeInv, Click
<1>4. click'[c] = k /\ \A d \in Clicks : d # c => click'[d] = click[d]
  BY <1>2 DEF TypeInv
<1>5. click' \in [Clicks -> Click]
  BY <1>2, <1>3 DEF TypeInv
<1>6. Named'
  BY <1>3, <1>4 DEF TypeInv, Named, OnWorkflow, OnAgent
<1> QED  BY <1>3, <1>4, <1>5, <1>6 DEF StartCreate, TypeInv

\* The checks of an activation leave what they read in the click.
LEMMA FoundToActivate ==
    ASSUME TypeInv, NEW c \in Clicks, FindToActivate(c)
    PROVE  /\ TypeInv'
           /\ \A d \in Clicks : d # c => click'[d] = click[d]
           /\ click'[c].pc \in {"idle", "demote"}
           /\ click'[c].pc = "demote" =>
                 /\ OwnWorkflow(c)
                 /\ click'[c].workflow = click[c].workflow
                 /\ click'[c].org = click[c].org
                 /\ click'[c].trigger = workflows[click[c].workflow].trigger
                 /\ click'[c].account = workflows[click[c].workflow].account
<1> DEFINE w == click[c].workflow
<1>1. click[c].pc = "findToActivate" /\ w \in Workflows
  BY DEF FindToActivate, At, TypeInv, Named, OnWorkflow
<1>2. CASE OwnWorkflow(c) /\ Activatable(w)
  <2> DEFINE k == [click[c] EXCEPT !.pc = "demote",
                                   !.trigger = workflows[w].trigger,
                                   !.account = workflows[w].account]
  <2>1. click' = [click EXCEPT ![c].pc = "demote",
                               ![c].trigger = workflows[w].trigger,
                               ![c].account = workflows[w].account]
    BY <1>2, ThenOrder DEF FindToActivate
  <2>2. click' = [click EXCEPT ![c] = k]
    BY <2>1 DEF TypeInv
  <2>3. workflows[w].trigger \in Triggers /\ workflows[w].account \in Bindings
    BY <1>1 DEF TypeInv, Row
  <2>4. /\ k \in Click
        /\ k.pc = "demote" /\ k.workflow = w /\ k.org = click[c].org
        /\ k.trigger = workflows[w].trigger /\ k.account = workflows[w].account
    BY <2>3 DEF TypeInv, Click
  <2>5. click'[c] = k /\ \A d \in Clicks : d # c => click'[d] = click[d]
    BY <2>2 DEF TypeInv
  <2>6. click' \in [Clicks -> Click]
    BY <2>2, <2>4 DEF TypeInv
  <2>7. Named'
    BY <1>1, <2>4, <2>5 DEF TypeInv, Named, OnWorkflow, OnAgent
  <2> QED  BY <1>2, <2>4, <2>5, <2>6, <2>7 DEF FindToActivate, TypeInv
<1>3. CASE ~(OwnWorkflow(c) /\ Activatable(w))
  <2>1. Goto(c, "idle")
    BY <1>3 DEF FindToActivate
  <2>2. /\ click' \in [Clicks -> Click]
        /\ Named'
        /\ click'[c].pc = "idle"
        /\ \A d \in Clicks : d # c => click'[d] = click[d]
    BY <2>1, GotoType DEF OnWorkflow, OnAgent
  <2> QED  BY <2>2 DEF FindToActivate, TypeInv
<1> QED  BY <1>2, <1>3

\* Every step of a click keeps the types.
LEMMA WorkType ==
    ASSUME TypeInv, NEW c \in Clicks, Work(c)
    PROVE  TypeInv'
<1>1. CASE FindToActivate(c)
  BY <1>1, FoundToActivate
<1>2. CASE Demote(c)
  <2>1. workflows' \in [Workflows -> Row]
    BY <1>2 DEF Demote, TypeInv, Row
  <2>2. click[c].workflow \in Workflows
    BY <1>2 DEF Demote, At, TypeInv, Named, OnWorkflow
  <2>3. Goto(c, "setActive")
    BY <1>2, ThenOrder DEF Demote
  <2> QED  BY <1>2, <2>1, <2>2, <2>3, GotoType DEF Demote, TypeInv, OnAgent
<1>3. ASSUME NEW here \in {"setActive", "setDraft"}, NEW status \in {"ACTIVE", "DRAFT"},
             SetStatus(c, here, status, "idle")
      PROVE  TypeInv'
  <2>1. workflows' \in [Workflows -> Row]
    BY <1>3 DEF SetStatus, TypeInv, Row
  <2> QED  BY <1>3, <2>1, GotoType DEF SetStatus, TypeInv, OnWorkflow, OnAgent
<1>4. CASE SetActive(c)
  BY <1>3, <1>4, ThenOrder DEF SetActive
<1>5. CASE SetDraft(c)
  BY <1>3, <1>5 DEF SetDraft
<1>6. ASSUME NEW here \in OnWorkflow, NEW l \in {"idle", "setDraft", "findAgent", "upsert"},
             At(c, here), Goto(c, l), l \in OnAgent => here \in OnAgent,
             UNCHANGED <<workflows, members, agents, accounts, spent, msg>>
      PROVE  TypeInv'
  BY <1>6, GotoType DEF At, TypeInv, Named, OnWorkflow, OnAgent
<1>7. CASE FindToDeactivate(c)
  BY <1>6, <1>7 DEF FindToDeactivate, OnWorkflow, OnAgent
<1>8. CASE FindToAdd(c)
  BY <1>6, <1>8 DEF FindToAdd, OnWorkflow, OnAgent
<1>9. CASE FindAgent(c)
  BY <1>6, <1>9 DEF FindAgent, OnWorkflow, OnAgent
<1>10. CASE Upsert(c)
  <2>1. members' \in MemberRows
    BY <1>10 DEF Upsert, TypeInv, MemberRows, Click
  <2> QED  BY <1>10, <2>1, GotoType DEF Upsert, TypeInv, OnWorkflow, OnAgent
<1>11. CASE Validate(c)
  BY <1>11, GotoType DEF Validate, TypeInv, OnWorkflow, OnAgent
<1>12. CASE Insert(c)
  <2>1. workflows' \in [Workflows -> Row]
    BY <1>12 DEF Insert, TypeInv, Row, Click
  <2> QED  BY <1>12, <2>1, GotoType DEF Insert, TypeInv, OnWorkflow, OnAgent
<1> QED
  BY <1>1, <1>2, <1>4, <1>5, <1>7, <1>8, <1>9, <1>10, <1>11, <1>12 DEF Work

\* A message that arrives is one on an account, for which nothing is read yet.
LEMMA Arrived ==
    ASSUME TypeInv, NEW m \in Messages, Arrive(m)
    PROVE  /\ msg' \in [Messages -> Message]
           /\ msg[m].pc = "idle"
           /\ msg'[m].pc = "findSpecific"
           /\ msg'[m].account \in Accounts
           /\ msg'[m].agent = msg[m].agent
           /\ \A n \in Messages : n # m => msg'[n] = msg[n]
<1>1. PICK a \in Accounts, trigger \in Triggers :
          msg' = [msg EXCEPT ![m].pc = "findSpecific",
                             ![m].trigger = trigger, ![m].account = a]
  BY DEF Arrive
<1> DEFINE k == [msg[m] EXCEPT !.pc = "findSpecific", !.trigger = trigger,
                               !.account = a]
<1>2. msg' = [msg EXCEPT ![m] = k]
  BY <1>1 DEF TypeInv
<1>3. /\ k \in Message /\ k.pc = "findSpecific" /\ k.account = a
      /\ k.agent = msg[m].agent
  BY DEF TypeInv, Message, Bindings
<1>4. msg'[m] = k /\ \A n \in Messages : n # m => msg'[n] = msg[n]
  BY <1>2 DEF TypeInv
<1>5. msg' \in [Messages -> Message]
  BY <1>2, <1>3 DEF TypeInv
<1> QED  BY <1>3, <1>4, <1>5 DEF Arrive

\* The workflow that is found leaves its active handlers in the message.
LEMMA FoundFields ==
    ASSUME TypeInv, NEW m \in Messages, NEW w \in Workflows, Found(m, w)
    PROVE  /\ msg' \in [Messages -> Message]
           /\ msg'[m].pc \in {"choose", "ended"}
           /\ msg'[m].account = msg[m].account
           /\ msg'[m].agent = msg[m].agent
           /\ msg'[m].pc = "choose" => msg'[m].handlers = ActiveHandlers(w)
           /\ \A n \in Messages : n # m => msg'[n] = msg[n]
<1> DEFINE k == IF Classified(w) /\ ActiveHandlers(w) # {}
                THEN [msg[m] EXCEPT !.pc = "choose", !.found = w,
                                    !.bound = workflows[w].account,
                                    !.handlers = ActiveHandlers(w)]
                ELSE [msg[m] EXCEPT !.pc = "ended"]
<1>1. msg' = [msg EXCEPT ![m] = k]
  BY DEF Found, TypeInv
<1>2. workflows[w].account \in Bindings
  BY DEF TypeInv, Row
<1>3. ActiveHandlers(w) \subseteq Agents
  BY DEF ActiveHandlers
<1>4. /\ k \in Message /\ k.pc \in {"choose", "ended"}
      /\ k.account = msg[m].account /\ k.agent = msg[m].agent
      /\ k.pc = "choose" => k.handlers = ActiveHandlers(w)
  BY <1>2, <1>3 DEF TypeInv, Message
<1>5. msg'[m] = k /\ \A n \in Messages : n # m => msg'[n] = msg[n]
  BY <1>1 DEF TypeInv
<1>6. msg' \in [Messages -> Message]
  BY <1>1, <1>4 DEF TypeInv
<1> QED  BY <1>4, <1>5, <1>6

\* Every step of a message's handler keeps the types.
LEMMA DeliverType ==
    ASSUME TypeInv, NEW m \in Messages, Deliver(m)
    PROVE  TypeInv'
<1>1. ASSUME msg' \in [Messages -> Message],
             UNCHANGED <<workflows, members, agents, click>>
      PROVE  TypeInv'
  BY <1>1 DEF TypeInv, Named
<1>2. ASSUME NEW w \in Workflows, Found(m, w)
      PROVE  msg' \in [Messages -> Message]
  BY <1>2, FoundFields
<1>3. ASSUME NEW a \in Accounts \cup {None}, NEW w, w \in Matching(m, a)
      PROVE  w \in Workflows
  BY <1>3 DEF Matching, ActiveInSlot, InSlot
<1>4. CASE Arrive(m)
  BY <1>1, <1>4, Arrived DEF Arrive
<1>5. CASE FindSpecific(m)
  <2>1. CASE msg' = [msg EXCEPT ![m].pc = "findGeneric"]
    BY <1>1, <1>5, <2>1 DEF FindSpecific, TypeInv, Message
  <2>2. ASSUME NEW w \in Matching(m, msg[m].account), Found(m, w)
        PROVE  TypeInv'
    <3>1. msg[m].account \in Accounts \cup {None}
      BY DEF TypeInv, Message, Bindings
    <3> QED  BY <1>1, <1>2, <1>3, <1>5, <2>2, <3>1 DEF FindSpecific
  <2> QED  BY <1>5, <2>1, <2>2 DEF FindSpecific
<1>6. CASE FindGeneric(m)
  <2>1. CASE msg' = [msg EXCEPT ![m].pc = "ended"]
    BY <1>1, <1>6, <2>1 DEF FindGeneric, TypeInv, Message
  <2>2. ASSUME NEW w \in Matching(m, None), Found(m, w)
        PROVE  TypeInv'
    BY <1>1, <1>2, <1>3, <1>6, <2>2 DEF FindGeneric
  <2> QED  BY <1>6, <2>1, <2>2 DEF FindGeneric
<1>7. CASE Choose(m)
  <2>1. ASSUME NEW a \in msg[m].handlers
        PROVE  [msg[m] EXCEPT !.pc = "run", !.agent = a, !.handlers = {}] \in Message
    BY DEF TypeInv, Message
  <2>2. [msg[m] EXCEPT !.pc = "ended", !.handlers = {}] \in Message
    BY DEF TypeInv, Message
  <2>3. \A k \in Message : [msg EXCEPT ![m] = k] \in [Messages -> Message]
    BY DEF TypeInv
  <2>4. CASE msg' = [msg EXCEPT ![m].pc = "ended", ![m].handlers = {}]
    <3>1. msg' = [msg EXCEPT ![m] = [msg[m] EXCEPT !.pc = "ended", !.handlers = {}]]
      BY <2>4 DEF TypeInv
    <3> QED  BY <1>1, <1>7, <2>2, <2>3, <3>1 DEF Choose
  <2>5. ASSUME NEW a \in msg[m].handlers,
               msg' = [msg EXCEPT ![m].pc = "run", ![m].agent = a,
                                  ![m].handlers = {}]
        PROVE  TypeInv'
    <3>1. msg' = [msg EXCEPT ![m] =
                    [msg[m] EXCEPT !.pc = "run", !.agent = a, !.handlers = {}]]
      BY <2>5 DEF TypeInv
    <3> QED  BY <1>1, <1>7, <2>1, <2>3, <3>1 DEF Choose
  <2> QED  BY <1>7, <2>4, <2>5 DEF Choose
<1>8. CASE Run(m)
  BY <1>1, <1>8 DEF Run, TypeInv, Message
<1> QED  BY <1>4, <1>5, <1>6, <1>7, <1>8 DEF Deliver

LEMMA TypeNext == TypeInv /\ [Next]_vars => TypeInv'
<1> SUFFICES ASSUME TypeInv, [Next]_vars
             PROVE  TypeInv'
  OBVIOUS
<1>1. ASSUME NEW a \in Accounts, Connect(a)
      PROVE  TypeInv'
  BY <1>1 DEF Connect, TypeInv, Named
<1>2. ASSUME NEW a \in Accounts, Disconnect(a)
      PROVE  TypeInv'
  <2>1. workflows' \in [Workflows -> Row]
    BY <1>2 DEF Disconnect, TypeInv, Row, Bindings
  <2> QED  BY <1>2, <2>1 DEF Disconnect, TypeInv, Named
<1>3. ASSUME NEW a \in Agents, SetAgentStatus(a)
      PROVE  TypeInv'
  BY <1>3 DEF SetAgentStatus, TypeInv, Named
<1>4. ASSUME NEW a \in Agents, DeleteAgent(a)
      PROVE  TypeInv'
  BY <1>4 DEF DeleteAgent, TypeInv, Named, MemberRows
<1>5. ASSUME NEW w \in Workflows, NEW a \in Agents, RemoveMember(w, a)
      PROVE  TypeInv'
  BY <1>5 DEF RemoveMember, TypeInv, Named, MemberRows
<1>6. ASSUME NEW c \in Clicks, Start(c)
      PROVE  TypeInv'
  BY <1>6, StartedOnWorkflow, StartedAdding, StartedCreating
  DEF Start, StartActivate, StartDeactivate
<1>7. ASSUME NEW c \in Clicks, Work(c)
      PROVE  TypeInv'
  BY <1>7, WorkType
<1>8. ASSUME NEW c \in Clicks, Abandon(c)
      PROVE  TypeInv'
  BY <1>8, GotoType DEF Abandon, TypeInv, OnWorkflow, OnAgent
<1>9. ASSUME NEW m \in Messages, Deliver(m)
      PROVE  TypeInv'
  BY <1>9, DeliverType
<1>10. CASE UNCHANGED vars
  BY <1>10 DEF vars, TypeInv, Named
<1> QED
  BY <1>1, <1>2, <1>3, <1>4, <1>5, <1>6, <1>7, <1>8, <1>9, <1>10 DEF Next

-----------------------------------------------------------------------------
(* Organisations.                                                           *)

\* What a click has looked up belongs to the organisation it works for.
ClickScoped(c) ==
    /\ click[c].pc \in {"demote", "setActive", "setDraft", "findAgent", "upsert"}
           => OrgOf[click[c].workflow] = click[c].org
    /\ click[c].pc = "upsert" => OrgOf[click[c].agent] = click[c].org
    /\ click[c].pc = "insert" /\ click[c].account # None
           => Bindable(click[c].org, click[c].trigger, click[c].account)

\* The handlers a message may choose from, and the one it chose, belong to the
\* organisation of its account.
MessageScoped(m) ==
    /\ msg[m].pc \in {"idle", "findSpecific", "findGeneric"} => msg[m].agent = None
    /\ msg[m].pc = "choose"
           => \A a \in msg[m].handlers : OrgOf[a] = OrgOf[msg[m].account]
    /\ msg[m].agent # None => OrgOf[msg[m].agent] = OrgOf[msg[m].account]

ScopeInv ==
    /\ TypeInv
    /\ MembersScoped
    /\ BindingsScoped
    /\ \A c \in Clicks : ClickScoped(c)
    /\ \A m \in Messages : MessageScoped(m)

LEMMA ScopeInit == Init => ScopeInv
<1> SUFFICES ASSUME Init
             PROVE  ScopeInv
  OBVIOUS
<1>1. TypeInv
  BY TypeInit
<1>2. MembersScoped /\ BindingsScoped
  BY SetupAssumption
  DEF Init, MembersScoped, ScopedMembers, BindingsScoped, ScopedBindings
<1>3. \A c \in Clicks : ClickScoped(c)
  BY DEF Init, ClickScoped, NoClick
<1>4. \A m \in Messages : MessageScoped(m)
  BY DEF Init, MessageScoped
<1> QED  BY <1>1, <1>2, <1>3, <1>4 DEF ScopeInv

\* Every step of a click stays within the organisation it works for.
LEMMA WorkScoped ==
    ASSUME ScopeInv, NEW c \in Clicks, Work(c)
    PROVE  /\ MembersScoped'
           /\ BindingsScoped'
           /\ \A d \in Clicks : ClickScoped(d)'
<1> USE DEF ScopeInv
<1>1. ASSUME \A d \in Clicks : d # c => click'[d] = click[d], ClickScoped(c)'
      PROVE  \A d \in Clicks : ClickScoped(d)'
  BY <1>1 DEF ClickScoped
<1>2. ASSUME NEW l \in {"idle", "demote", "setActive", "setDraft", "findAgent",
                         "upsert", "insert"},
             Goto(c, l),
             l \in OnWorkflow => click[c].workflow \in Workflows,
             l \in OnAgent => click[c].agent \in Agents,
             l \in {"demote", "setActive", "setDraft", "findAgent", "upsert"}
                 => OrgOf[click[c].workflow] = click[c].org,
             l = "upsert" => OrgOf[click[c].agent] = click[c].org,
             l = "insert" => Bindable(click[c].org, click[c].trigger, click[c].account)
      PROVE  \A d \in Clicks : ClickScoped(d)'
  <2>1. /\ click'[c].pc = l
        /\ l # "idle" => click'[c] = [click[c] EXCEPT !.pc = l]
        /\ \A d \in Clicks : d # c => click'[d] = click[d]
    BY <1>2, GotoType
  <2>2. l # "idle" => /\ click'[c].workflow = click[c].workflow
                      /\ click'[c].agent = click[c].agent
                      /\ click'[c].org = click[c].org
                      /\ click'[c].trigger = click[c].trigger
                      /\ click'[c].account = click[c].account
    BY <2>1 DEF TypeInv, Click
  <2>3. ClickScoped(c)'
    BY <1>2, <2>1, <2>2 DEF ClickScoped
  <2> QED  BY <1>1, <2>1, <2>3
<1>3. ASSUME UNCHANGED members
      PROVE  MembersScoped'
  BY <1>3 DEF MembersScoped, ScopedMembers
<1>4. ASSUME \A w \in Workflows : \/ workflows'[w].account = None
                                 \/ /\ workflows'[w].account = workflows[w].account
                                    /\ workflows'[w].trigger = workflows[w].trigger
      PROVE  BindingsScoped'
  BY <1>4 DEF BindingsScoped, ScopedBindings
<1>5. CASE FindToActivate(c)
  <2>1. ClickScoped(c)'
    BY <1>5, FoundToActivate DEF ClickScoped, OwnWorkflow
  <2> QED  BY <1>1, <1>3, <1>4, <1>5, <2>1, FoundToActivate DEF FindToActivate
<1>6. CASE Demote(c)
  <2>1. /\ Goto(c, "setActive")
        /\ click[c].workflow \in Workflows
        /\ OrgOf[click[c].workflow] = click[c].org
    BY <1>6, ThenOrder DEF Demote, At, ClickScoped, TypeInv, Named, OnWorkflow
  <2>2. \A w \in Workflows : /\ workflows'[w].account = workflows[w].account
                            /\ workflows'[w].trigger = workflows[w].trigger
    BY <1>6 DEF Demote, TypeInv, Row
  <2> QED  BY <1>2, <1>3, <1>4, <1>6, <2>1, <2>2 DEF Demote, OnAgent
<1>7. ASSUME NEW here, NEW status, SetStatus(c, here, status, "idle")
      PROVE  /\ MembersScoped'
             /\ BindingsScoped'
             /\ \A d \in Clicks : ClickScoped(d)'
  <2>1. \A w \in Workflows : /\ workflows'[w].account = workflows[w].account
                            /\ workflows'[w].trigger = workflows[w].trigger
    BY <1>7 DEF SetStatus, TypeInv, Row
  <2> QED  BY <1>2, <1>3, <1>4, <1>7, <2>1 DEF SetStatus, OnWorkflow, OnAgent
<1>8. CASE SetActive(c)
  BY <1>7, <1>8, ThenOrder DEF SetActive
<1>9. CASE SetDraft(c)
  BY <1>7, <1>9 DEF SetDraft
<1>10. CASE FindToDeactivate(c)
  BY <1>2, <1>3, <1>4, <1>10
  DEF FindToDeactivate, At, OwnWorkflow, TypeInv, Named, OnWorkflow, OnAgent
<1>11. CASE FindToAdd(c)
  BY <1>2, <1>3, <1>4, <1>11
  DEF FindToAdd, At, OwnWorkflow, TypeInv, Named, OnWorkflow, OnAgent
<1>12. CASE FindAgent(c)
  BY <1>2, <1>3, <1>4, <1>12
  DEF FindAgent, At, OwnAgent, ClickScoped, TypeInv, Named, OnWorkflow, OnAgent
<1>13. CASE Upsert(c)
  <2>1. /\ click[c].workflow \in Workflows
        /\ click[c].agent \in Agents
        /\ OrgOf[click[c].agent] = OrgOf[click[c].workflow]
    BY <1>13 DEF Upsert, At, ClickScoped, TypeInv, Named, OnWorkflow, OnAgent
  <2>2. MembersScoped'
    BY <1>13, <2>1 DEF Upsert, MembersScoped, ScopedMembers, TypeInv, MemberRows
  <2> QED  BY <1>2, <1>4, <1>13, <2>2 DEF Upsert, OnWorkflow, OnAgent
<1>14. CASE Validate(c)
  BY <1>2, <1>3, <1>4, <1>14 DEF Validate, Accepted, OnWorkflow, OnAgent
<1>15. CASE Insert(c)
  <2>1. CASE UNCHANGED workflows
    BY <1>2, <1>3, <1>4, <1>15, <2>1 DEF Insert, OnWorkflow, OnAgent
  <2>2. ASSUME NEW w \in Workflows, OrgOf[w] = click[c].org,
               workflows' = [workflows EXCEPT
                   ![w] = [status |-> "DRAFT", trigger |-> click[c].trigger,
                           account |-> click[c].account]]
        PROVE  BindingsScoped'
    <3>1. click[c].account # None
              => Bindable(OrgOf[w], click[c].trigger, click[c].account)
      BY <1>15, <2>2 DEF Insert, At, ClickScoped
    <3>2. /\ workflows'[w].trigger = click[c].trigger
          /\ workflows'[w].account = click[c].account
          /\ \A v \in Workflows : v # w => workflows'[v] = workflows[v]
      BY <2>2 DEF TypeInv
    <3>3. \A v \in Workflows : workflows'[v].account # None =>
              Bindable(OrgOf[v], workflows'[v].trigger, workflows'[v].account)
      BY <3>1, <3>2 DEF BindingsScoped, ScopedBindings
    <3> QED  BY <3>3 DEF BindingsScoped, ScopedBindings, Bindable
  <2> QED  BY <1>2, <1>3, <1>15, <2>1, <2>2 DEF Insert, OnWorkflow, OnAgent
<1> QED
  BY <1>5, <1>6, <1>8, <1>9, <1>10, <1>11, <1>12, <1>13, <1>14, <1>15 DEF Work

\* A message's handler reads only workflows of the organisation of its account.
LEMMA DeliverScoped ==
    ASSUME ScopeInv, NEW m \in Messages, Deliver(m)
    PROVE  \A n \in Messages : MessageScoped(n)'
<1> USE DEF ScopeInv
<1>1. ASSUME \A n \in Messages : n # m => msg'[n] = msg[n], MessageScoped(m)'
      PROVE  \A n \in Messages : MessageScoped(n)'
  BY <1>1 DEF MessageScoped
<1>2. ASSUME NEW account, NEW w \in Matching(m, account), Found(m, w),
             msg[m].pc \in {"findSpecific", "findGeneric"}
      PROVE  \A n \in Messages : MessageScoped(n)'
  <2>1. w \in Workflows /\ OrgOf[w] = OrgOf[msg[m].account]
    BY <1>2 DEF Matching, ActiveInSlot, InSlot
  <2>2. \A a \in ActiveHandlers(w) : OrgOf[a] = OrgOf[w]
    BY <2>1 DEF ActiveHandlers, MembersScoped, ScopedMembers
  <2>3. /\ msg'[m].pc \in {"choose", "ended"}
        /\ msg'[m].account = msg[m].account
        /\ msg'[m].agent = msg[m].agent
        /\ msg'[m].pc = "choose" => msg'[m].handlers = ActiveHandlers(w)
        /\ \A n \in Messages : n # m => msg'[n] = msg[n]
    BY <1>2, <2>1, FoundFields
  <2>4. MessageScoped(m)'
    BY <1>2, <2>1, <2>2, <2>3 DEF MessageScoped
  <2> QED  BY <1>1, <2>3, <2>4
<1>3. CASE Arrive(m)
  <2>1. MessageScoped(m)'
    BY <1>3, Arrived DEF MessageScoped
  <2> QED  BY <1>1, <1>3, <2>1, Arrived
<1>4. ASSUME NEW l \in {"findGeneric", "ended", "handled"},
             msg' = [msg EXCEPT ![m].pc = l],
             l = "findGeneric" => msg[m].pc = "findSpecific"
      PROVE  \A n \in Messages : MessageScoped(n)'
  <2>1. /\ msg'[m] = [msg[m] EXCEPT !.pc = l]
        /\ \A n \in Messages : n # m => msg'[n] = msg[n]
    BY <1>4 DEF TypeInv
  <2>2. /\ msg'[m].pc = l
        /\ msg'[m].agent = msg[m].agent
        /\ msg'[m].account = msg[m].account
    BY <2>1 DEF TypeInv, Message
  <2>3. MessageScoped(m)'
    BY <1>4, <2>2 DEF MessageScoped
  <2> QED  BY <1>1, <2>1, <2>3
<1>5. CASE FindSpecific(m)
  BY <1>2, <1>4, <1>5 DEF FindSpecific
<1>6. CASE FindGeneric(m)
  BY <1>2, <1>4, <1>6 DEF FindGeneric
<1>7. CASE Choose(m)
  <2>1. ASSUME NEW a \in msg[m].handlers,
               msg' = [msg EXCEPT ![m].pc = "run", ![m].agent = a,
                                  ![m].handlers = {}]
        PROVE  \A n \in Messages : MessageScoped(n)'
    <3>1. OrgOf[a] = OrgOf[msg[m].account]
      BY <1>7 DEF Choose, MessageScoped
    <3>2. /\ msg'[m] = [msg[m] EXCEPT !.pc = "run", !.agent = a, !.handlers = {}]
          /\ \A n \in Messages : n # m => msg'[n] = msg[n]
      BY <2>1 DEF TypeInv
    <3>3. /\ msg'[m].pc = "run"
          /\ msg'[m].agent = a
          /\ msg'[m].account = msg[m].account
      BY <3>2 DEF TypeInv, Message
    <3>4. MessageScoped(m)'
      BY <3>1, <3>3 DEF MessageScoped
    <3> QED  BY <1>1, <3>2, <3>4
  <2>2. ASSUME msg' = [msg EXCEPT ![m].pc = "ended", ![m].handlers = {}]
        PROVE  \A n \in Messages : MessageScoped(n)'
    <3>1. /\ msg'[m] = [msg[m] EXCEPT !.pc = "ended", !.handlers = {}]
          /\ \A n \in Messages : n # m => msg'[n] = msg[n]
      BY <2>2 DEF TypeInv
    <3>2. /\ msg'[m].pc = "ended"
          /\ msg'[m].agent = msg[m].agent
          /\ msg'[m].account = msg[m].account
      BY <3>1 DEF TypeInv, Message
    <3>3. MessageScoped(m)'
      BY <3>2 DEF MessageScoped
    <3> QED  BY <1>1, <3>1, <3>3
  <2> QED  BY <1>7, <2>1, <2>2 DEF Choose
<1>8. CASE Run(m)
  <2>1. PICK l \in {"ended", "handled"} : msg' = [msg EXCEPT ![m].pc = l]
    BY <1>8 DEF Run
  <2> QED  BY <1>4, <2>1
<1> QED  BY <1>3, <1>5, <1>6, <1>7, <1>8 DEF Deliver

LEMMA ScopeNext == ScopeInv /\ [Next]_vars => ScopeInv'
<1> SUFFICES ASSUME ScopeInv, [Next]_vars
             PROVE  ScopeInv'
  OBVIOUS
<1>1. TypeInv'
  BY TypeNext DEF ScopeInv
<1>2. ASSUME UNCHANGED members PROVE MembersScoped'
  BY <1>2 DEF ScopeInv, MembersScoped, ScopedMembers
<1>3. ASSUME UNCHANGED workflows PROVE BindingsScoped'
  BY <1>3 DEF ScopeInv, BindingsScoped, ScopedBindings
<1>4. ASSUME UNCHANGED click PROVE \A c \in Clicks : ClickScoped(c)'
  BY <1>4 DEF ScopeInv, ClickScoped
<1>5. ASSUME UNCHANGED msg PROVE \A m \in Messages : MessageScoped(m)'
  BY <1>5 DEF ScopeInv, MessageScoped
<1>6. ASSUME NEW a \in Accounts, Connect(a)
      PROVE  ScopeInv'
  BY <1>1, <1>2, <1>3, <1>4, <1>5, <1>6 DEF Connect, ScopeInv
<1>7. ASSUME NEW a \in Accounts, Disconnect(a)
      PROVE  ScopeInv'
  <2>1. \A w \in Workflows :
           \/ workflows'[w].account = None
           \/ workflows'[w] = workflows[w]
    BY <1>7 DEF Disconnect, ScopeInv, TypeInv, Row, Bindings
  <2>2. BindingsScoped'
    BY <2>1 DEF ScopeInv, BindingsScoped, ScopedBindings
  <2> QED  BY <1>1, <1>2, <1>4, <1>5, <1>7, <2>2 DEF Disconnect, ScopeInv
<1>8. ASSUME NEW a \in Agents, SetAgentStatus(a)
      PROVE  ScopeInv'
  BY <1>1, <1>2, <1>3, <1>4, <1>5, <1>8 DEF SetAgentStatus, ScopeInv
<1>9. ASSUME \A w \in Workflows, a \in Agents :
                members'[w][a] \in {members[w][a], "NONE"}
      PROVE  MembersScoped'
  BY <1>9 DEF ScopeInv, MembersScoped, ScopedMembers
<1>10. ASSUME NEW a \in Agents, DeleteAgent(a)
       PROVE  ScopeInv'
  <2>1. MembersScoped'
    BY <1>9, <1>10 DEF DeleteAgent, ScopeInv, TypeInv, MemberRows
  <2> QED  BY <1>1, <1>3, <1>4, <1>5, <1>10, <2>1 DEF DeleteAgent, ScopeInv
<1>11. ASSUME NEW w \in Workflows, NEW a \in Agents, RemoveMember(w, a)
       PROVE  ScopeInv'
  <2>1. MembersScoped'
    BY <1>9, <1>11 DEF RemoveMember, ScopeInv, TypeInv, MemberRows
  <2> QED  BY <1>1, <1>3, <1>4, <1>5, <1>11, <2>1 DEF RemoveMember, ScopeInv
<1>12. ASSUME NEW c \in Clicks,
              click'[c].pc \in {"idle", "findToActivate", "findToDeactivate",
                                "findToAdd", "validate", "insert"},
              click'[c].pc = "insert" => click'[c].account = None,
              \A d \in Clicks : d # c => click'[d] = click[d]
       PROVE  \A d \in Clicks : ClickScoped(d)'
  BY <1>12 DEF ScopeInv, ClickScoped
<1>13. ASSUME NEW c \in Clicks, Start(c)
       PROVE  ScopeInv'
  <2>1. /\ click'[c].pc \in {"findToActivate", "findToDeactivate", "findToAdd",
                              "validate", "insert"}
        /\ click'[c].pc = "insert" => click'[c].account = None
        /\ \A d \in Clicks : d # c => click'[d] = click[d]
    BY <1>13, StartedOnWorkflow, StartedAdding, StartedCreating
    DEF Start, StartActivate, StartDeactivate, ScopeInv
  <2>2. UNCHANGED <<workflows, members, msg>>
    BY <1>13 DEF Start, StartActivate, StartDeactivate, StartOnWorkflow,
                 StartAdd, StartCreate
  <2> QED  BY <1>1, <1>2, <1>3, <1>5, <1>12, <2>1, <2>2 DEF ScopeInv
<1>14. ASSUME NEW c \in Clicks, Work(c)
       PROVE  ScopeInv'
  <2>1. UNCHANGED msg
    BY <1>14 DEF Work, FindToActivate, Demote, SetActive, FindToDeactivate,
                 SetDraft, SetStatus, FindToAdd, FindAgent, Upsert, Validate, Insert
  <2> QED  BY <1>1, <1>5, <1>14, <2>1, WorkScoped DEF ScopeInv
<1>15. ASSUME NEW c \in Clicks, Abandon(c)
       PROVE  ScopeInv'
  <2>1. /\ click'[c].pc = "idle"
        /\ \A d \in Clicks : d # c => click'[d] = click[d]
    BY <1>15, GotoType DEF Abandon, ScopeInv, OnWorkflow, OnAgent
  <2> QED  BY <1>1, <1>2, <1>3, <1>5, <1>12, <1>15, <2>1 DEF Abandon, ScopeInv
<1>16. ASSUME NEW m \in Messages, Deliver(m)
       PROVE  ScopeInv'
  <2>1. UNCHANGED <<workflows, members, click>>
    BY <1>16 DEF Deliver, Arrive, FindSpecific, FindGeneric, Choose, Run
  <2> QED  BY <1>1, <1>2, <1>3, <1>4, <1>16, <2>1, DeliverScoped DEF ScopeInv
<1>17. CASE UNCHANGED vars
  BY <1>1, <1>2, <1>3, <1>4, <1>5, <1>17 DEF vars, ScopeInv
<1> QED
  BY <1>6, <1>7, <1>8, <1>10, <1>11, <1>13, <1>14, <1>15, <1>16, <1>17 DEF Next

\* A workflow's members are agents of its own organisation, however the clicks
\* of however many organisations interleave, whatever ids they name.
THEOREM MembersAlwaysScoped == Spec => []MembersScoped
<1>1. ScopeInv => MembersScoped
  BY DEF ScopeInv
<1> QED  BY <1>1, ScopeInit, ScopeNext, PTL DEF Spec

\* A workflow is bound only to an account of its own organisation and of a
\* provider its trigger allows.
THEOREM BindingsAlwaysScoped == Spec => []BindingsScoped
<1>1. ScopeInv => BindingsScoped
  BY DEF ScopeInv
<1> QED  BY <1>1, ScopeInit, ScopeNext, PTL DEF Spec

\* No workflow ever has a member or a binding of another organisation, whatever
\* ids the forms name and however the clicks interleave.
THEOREM ScopesAlwaysKept == Spec => []ScopesKept
<1>1. MembersScoped /\ BindingsScoped => ScopesKept
  BY DEF ScopesKept
<1> QED  BY <1>1, MembersAlwaysScoped, BindingsAlwaysScoped, PTL

\* A message is handled by an agent of the organisation whose account it
\* arrived on, whatever is edited while it is being routed.
THEOREM AlwaysHandledAtHome == Spec => []HandledAtHome
<1>1. ScopeInv => HandledAtHome
  BY DEF ScopeInv, MessageScoped, HandledAtHome
<1> QED  BY <1>1, ScopeInit, ScopeNext, PTL DEF Spec

-----------------------------------------------------------------------------
(* Slots.                                                                   *)

\* Clicks come one at a time, and no account is disconnected.
Undisturbed ==
    /\ \A c, d \in Clicks : c = d
    /\ Disconnectable = {}

\* The slot an activation read is still that of its workflow, and once the
\* others are demoted none of them is ACTIVE in it.
Claims(c) ==
    LET k == click[c]
    IN  /\ k.pc \in {"demote", "setActive"} =>
              /\ OrgOf[k.workflow] = k.org
              /\ workflows[k.workflow].status # "NONE"
              /\ workflows[k.workflow].trigger = k.trigger
              /\ workflows[k.workflow].account = k.account
        /\ k.pc = "setActive" =>
              ActiveInSlot(workflows, k.org, k.trigger, k.account)
                  \subseteq {k.workflow}

SlotInv == TypeInv /\ OneActivePerSlot /\ \A c \in Clicks : Claims(c)

LEMMA SlotInit == Init => SlotInv
<1> SUFFICES ASSUME Init
             PROVE  SlotInv
  OBVIOUS
<1>1. TypeInv
  BY TypeInit
<1>2. OneActivePerSlot
  BY SetupAssumption
  DEF Init, OneActivePerSlot, AtMostOneActive, ActiveInSlot, InSlot
<1>3. \A c \in Clicks : Claims(c)
  BY DEF Init, Claims, NoClick
<1> QED  BY <1>1, <1>2, <1>3 DEF SlotInv

\* A step that makes no workflow ACTIVE and moves none that is keeps a slot's
\* only ACTIVE workflow the only one.
LEMMA NoneActivated ==
    ASSUME OneActivePerSlot,
           \A w \in Workflows :
               workflows'[w].status = "ACTIVE" => workflows'[w] = workflows[w]
    PROVE  OneActivePerSlot'
<1> SUFFICES ASSUME NEW org \in Orgs, NEW trigger \in Triggers,
                    NEW account \in Bindings,
                    NEW v \in ActiveInSlot(workflows', org, trigger, account),
                    NEW w \in ActiveInSlot(workflows', org, trigger, account)
             PROVE  v = w
  BY DEF OneActivePerSlot, AtMostOneActive
<1>1. /\ v \in ActiveInSlot(workflows, org, trigger, account)
      /\ w \in ActiveInSlot(workflows, org, trigger, account)
  BY DEF ActiveInSlot, InSlot
<1> QED  BY <1>1 DEF OneActivePerSlot, AtMostOneActive

\* The only click there is claims nothing unless it activates.
LEMMA NoClaim ==
    ASSUME Undisturbed, NEW c \in Clicks,
           click'[c].pc \notin {"demote", "setActive"}
    PROVE  \A d \in Clicks : Claims(d)'
  BY DEF Undisturbed, Claims

LEMMA WorkSlots ==
    ASSUME Undisturbed, SlotInv, NEW c \in Clicks, Work(c)
    PROVE  OneActivePerSlot' /\ \A d \in Clicks : Claims(d)'
<1> USE DEF SlotInv
<1> DEFINE w == click[c].workflow
<1>1. ASSUME UNCHANGED workflows
      PROVE  OneActivePerSlot'
  BY <1>1, NoneActivated
<1>2. ASSUME NEW l \in {"idle", "setDraft", "findAgent", "upsert", "insert"},
             Goto(c, l),
             l \in OnWorkflow => w \in Workflows,
             l \in OnAgent => click[c].agent \in Agents
      PROVE  \A d \in Clicks : Claims(d)'
  <2>1. click'[c].pc = l
    BY <1>2, GotoType
  <2> QED  BY <2>1, NoClaim
<1>3. CASE FindToActivate(c)
  <2>1. OneActivePerSlot'
    BY <1>1, <1>3 DEF FindToActivate
  <2>2. Claims(c)'
    BY <1>3, FoundToActivate DEF Claims, OwnWorkflow, FindToActivate
  <2> QED  BY <2>1, <2>2 DEF Undisturbed
<1>4. CASE Demote(c)
  <2>1. /\ w \in Workflows
        /\ click[c].pc = "demote"
        /\ Goto(c, "setActive")
    BY <1>4, ThenOrder DEF Demote, At, TypeInv, Named, OnWorkflow
  <2>2. /\ click'[c] = [click[c] EXCEPT !.pc = "setActive"]
        /\ click'[c].pc = "setActive"
    BY <2>1, GotoType DEF OnAgent
  <2>3. /\ click'[c].workflow = w
        /\ click'[c].org = click[c].org
        /\ click'[c].trigger = click[c].trigger
        /\ click'[c].account = click[c].account
    BY <2>2 DEF TypeInv, Click
  <2>4. ASSUME NEW v \in Workflows
        PROVE  workflows'[v] =
                   IF v \in Competitors(c) /\ workflows[v].status = "ACTIVE"
                   THEN [workflows[v] EXCEPT !.status = "DRAFT"]
                   ELSE workflows[v]
    BY <1>4 DEF Demote
  <2>5. ASSUME NEW v \in Workflows
        PROVE  /\ workflows'[v].trigger = workflows[v].trigger
               /\ workflows'[v].account = workflows[v].account
               /\ workflows'[v].status = "ACTIVE"
                      => workflows'[v] = workflows[v] /\ v \notin Competitors(c)
    BY <2>4 DEF TypeInv, Row
  <2>6. w \notin Competitors(c)
    BY DEF Competitors
  <2>7. OneActivePerSlot'
    BY <2>5, NoneActivated
  <2>8. ActiveInSlot(workflows', click[c].org, click[c].trigger, click[c].account)
            \subseteq {w}
    BY <2>5 DEF ActiveInSlot, InSlot, Competitors
  <2>9. workflows'[w] = workflows[w]
    BY <2>1, <2>4, <2>6
  <2>10. Claims(c)'
    BY <2>1, <2>2, <2>3, <2>8, <2>9 DEF Claims
  <2> QED  BY <2>7, <2>10 DEF Undisturbed
<1>5. CASE SetActive(c)
  <2>1. /\ w \in Workflows
        /\ click[c].pc = "setActive"
        /\ Goto(c, "idle")
        /\ workflows' = [workflows EXCEPT ![w].status = "ACTIVE"]
    BY <1>5, ThenOrder DEF SetActive, SetStatus, At, TypeInv, Named, OnWorkflow
  <2>2. /\ workflows'[w].trigger = click[c].trigger
        /\ workflows'[w].account = click[c].account
        /\ OrgOf[w] = click[c].org
        /\ \A v \in Workflows : v # w => workflows'[v] = workflows[v]
    BY <2>1 DEF Claims, TypeInv, Row
  <2>3. ActiveInSlot(workflows, click[c].org, click[c].trigger, click[c].account)
            \subseteq {w}
    BY <2>1 DEF Claims
  <2>4. ASSUME NEW org \in Orgs, NEW trigger \in Triggers, NEW account \in Bindings,
               NEW u \in ActiveInSlot(workflows', org, trigger, account),
               NEW v \in ActiveInSlot(workflows', org, trigger, account)
        PROVE  u = v
    <3>1. CASE w \notin {u, v}
      <4>1. /\ u \in ActiveInSlot(workflows, org, trigger, account)
            /\ v \in ActiveInSlot(workflows, org, trigger, account)
        BY <2>2, <3>1 DEF ActiveInSlot, InSlot
      <4> QED  BY <4>1 DEF OneActivePerSlot, AtMostOneActive
    <3>2. CASE w \in {u, v}
      <4>1. /\ org = click[c].org
            /\ trigger = click[c].trigger
            /\ account = click[c].account
        BY <2>2, <3>2 DEF ActiveInSlot, InSlot
      <4>2. ASSUME NEW x \in {u, v}, x # w
            PROVE  FALSE
        <5>1. x \in ActiveInSlot(workflows, org, trigger, account)
          BY <2>2, <4>2 DEF ActiveInSlot, InSlot
        <5> QED  BY <2>3, <4>1, <4>2, <5>1
      <4> QED  BY <4>2
    <3> QED  BY <3>1, <3>2
  <2>5. OneActivePerSlot'
    BY <2>4 DEF OneActivePerSlot, AtMostOneActive
  <2> QED  BY <1>2, <2>1, <2>5 DEF OnWorkflow, OnAgent
<1>6. CASE SetDraft(c)
  <2>1. \A v \in Workflows :
            workflows'[v].status = "ACTIVE" => workflows'[v] = workflows[v]
    BY <1>6 DEF SetDraft, SetStatus, TypeInv, Row
  <2> QED  BY <1>2, <1>6, <2>1, NoneActivated
           DEF SetDraft, SetStatus, OnWorkflow, OnAgent
<1>7. CASE FindToDeactivate(c)
  BY <1>1, <1>2, <1>7
  DEF FindToDeactivate, At, TypeInv, Named, OnWorkflow, OnAgent
<1>8. CASE FindToAdd(c)
  BY <1>1, <1>2, <1>8 DEF FindToAdd, At, TypeInv, Named, OnWorkflow, OnAgent
<1>9. CASE FindAgent(c)
  BY <1>1, <1>2, <1>9 DEF FindAgent, At, TypeInv, Named, OnWorkflow, OnAgent
<1>10. CASE Upsert(c)
  BY <1>1, <1>2, <1>10 DEF Upsert, OnWorkflow, OnAgent
<1>11. CASE Validate(c)
  BY <1>1, <1>2, <1>11 DEF Validate, OnWorkflow, OnAgent
<1>12. CASE Insert(c)
  <2>1. \A v \in Workflows :
            workflows'[v].status = "ACTIVE" => workflows'[v] = workflows[v]
    BY <1>12 DEF Insert, TypeInv
  <2> QED  BY <1>2, <1>12, <2>1, NoneActivated DEF Insert, OnWorkflow, OnAgent
<1> QED
  BY <1>3, <1>4, <1>5, <1>6, <1>7, <1>8, <1>9, <1>10, <1>11, <1>12 DEF Work

LEMMA SlotNext ==
    ASSUME Undisturbed
    PROVE  SlotInv /\ [Next]_vars => SlotInv'
<1> SUFFICES ASSUME SlotInv, [Next]_vars
             PROVE  SlotInv'
  OBVIOUS
<1>1. TypeInv'
  BY TypeNext DEF SlotInv
<1>2. ASSUME UNCHANGED workflows
      PROVE  OneActivePerSlot'
  BY <1>2, NoneActivated DEF SlotInv
<1>3. ASSUME UNCHANGED <<workflows, click>>
      PROVE  SlotInv'
  <2>1. \A c \in Clicks : Claims(c)'
    BY <1>3 DEF SlotInv, Claims, ActiveInSlot, InSlot
  <2> QED  BY <1>1, <1>2, <1>3, <2>1 DEF SlotInv
<1>4. ASSUME NEW a \in Accounts, Connect(a) \/ Disconnect(a)
      PROVE  SlotInv'
  BY <1>3, <1>4 DEF Connect, Disconnect, Undisturbed
<1>5. ASSUME NEW a \in Agents, SetAgentStatus(a) \/ DeleteAgent(a)
      PROVE  SlotInv'
  BY <1>3, <1>5 DEF SetAgentStatus, DeleteAgent
<1>6. ASSUME NEW w \in Workflows, NEW a \in Agents, RemoveMember(w, a)
      PROVE  SlotInv'
  BY <1>3, <1>6 DEF RemoveMember
<1>7. ASSUME NEW c \in Clicks, Start(c)
      PROVE  SlotInv'
  <2>1. click'[c].pc \in {"findToActivate", "findToDeactivate", "findToAdd",
                          "validate", "insert"}
    BY <1>7, StartedOnWorkflow, StartedAdding, StartedCreating
    DEF Start, StartActivate, StartDeactivate, SlotInv
  <2>2. UNCHANGED workflows
    BY <1>7 DEF Start, StartActivate, StartDeactivate, StartOnWorkflow,
                StartAdd, StartCreate
  <2> QED  BY <1>1, <1>2, <2>1, <2>2, NoClaim DEF SlotInv
<1>8. ASSUME NEW c \in Clicks, Work(c)
      PROVE  SlotInv'
  BY <1>1, <1>8, WorkSlots DEF SlotInv
<1>9. ASSUME NEW c \in Clicks, Abandon(c)
      PROVE  SlotInv'
  <2>1. click'[c].pc = "idle"
    BY <1>9, GotoType DEF Abandon, SlotInv, OnWorkflow, OnAgent
  <2> QED  BY <1>1, <1>2, <1>9, <2>1, NoClaim DEF Abandon, SlotInv
<1>10. ASSUME NEW m \in Messages, Deliver(m)
       PROVE  SlotInv'
  BY <1>3, <1>10 DEF Deliver, Arrive, FindSpecific, FindGeneric, Choose, Run
<1>11. CASE UNCHANGED vars
  BY <1>3, <1>11 DEF vars
<1> QED
  BY <1>4, <1>5, <1>6, <1>7, <1>8, <1>9, <1>10, <1>11 DEF Next

\* At most one workflow per organisation, trigger and account is ACTIVE, as
\* long as clicks come one at a time and no account is disconnected.
THEOREM OneActiveWhenUndisturbed ==
    ASSUME Undisturbed
    PROVE  Spec => []OneActivePerSlot
<1>1. SlotInv => OneActivePerSlot
  BY DEF SlotInv
<1> QED  BY <1>1, SlotInit, SlotNext, PTL DEF Spec
-----------------------------------------------------------------------------
(* The tables: ids, types and foreign keys.                                 *)

\* The labels at which a click has found the workflow it works on.
FoundAt == {"demote", "setActive", "setDraft", "findAgent", "upsert"}

\* Rows are never created anew under an old id, so no id is listed twice.
AccountsOnce ==
    /\ accounts \in Seq(Accounts)
    /\ \A j, k \in DOMAIN accounts : accounts[j] = accounts[k] => j = k
    /\ Connected \subseteq spent
    /\ spent \subseteq Accounts

\* Workflows are not deleted: one that was found is still there.
StillThere(c) ==
    click[c].pc \in FoundAt => workflows[click[c].workflow].status # "NONE"

KeysHold == ForeignKeys(workflows, members, Present, Connected)

RowInv ==
    /\ TypeInv
    /\ AccountsOnce
    /\ KeysHold
    /\ \A c \in Clicks : StillThere(c)

LEMMA RowInit == Init => RowInv
<1> SUFFICES ASSUME Init  PROVE RowInv
  OBVIOUS
<1>1. AccountsOnce
  <2>1. accounts = Setup.accounts /\ Setup.accounts \in Seq(Accounts)
    BY SetupAssumption DEF Init
  <2>2. \A k \in DOMAIN accounts : accounts[k] \in Accounts
    BY <2>1, ElementOfSeq, LenProperties
  <2>3. Connected \subseteq Accounts /\ spent = Connected
    BY <2>2 DEF Init, Connected
  <2> QED  BY <2>1, <2>3, SetupAssumption DEF AccountsOnce
<1>2. KeysHold
  <2>1. Present = Agents
    BY DEF Init, Present
  <2>2. Connected = {Setup.accounts[k] : k \in DOMAIN Setup.accounts}
    BY DEF Init, Connected
  <2> QED  BY <2>1, <2>2, SetupAssumption DEF Init, KeysHold
<1>3. \A c \in Clicks : StillThere(c)
  BY DEF Init, StillThere, FoundAt, NoClick
<1> QED  BY <1>1, <1>2, <1>3, TypeInit DEF RowInv

\* A new account joins the table, at its end.
LEMMA AccountConnected ==
    ASSUME AccountsOnce, NEW a \in Accounts, Connect(a)
    PROVE  AccountsOnce' /\ Connected' = Connected \cup {a}
<1> DEFINE last == Len(accounts) + 1
<1>1. /\ accounts \in Seq(Accounts)
      /\ accounts' = Append(accounts, a)
      /\ spent' = spent \cup {a}
      /\ a \notin Connected
  BY DEF AccountsOnce, Connect
<1>2. /\ accounts' \in Seq(Accounts)
      /\ Len(accounts') = last
      /\ accounts'[last] = a
      /\ \A k \in 1 .. Len(accounts) : accounts'[k] = accounts[k]
  BY <1>1, AppendProperties
<1>3. /\ DOMAIN accounts = 1 .. Len(accounts)
      /\ DOMAIN accounts' = 1 .. last
      /\ Len(accounts) \in Nat
  BY <1>1, <1>2, LenProperties
<1>4. DOMAIN accounts' = DOMAIN accounts \cup {last}
  BY <1>3
<1>5. Connected' = Connected \cup {a}
  BY <1>2, <1>3, <1>4 DEF Connected
<1>6. \A j, k \in DOMAIN accounts' : accounts'[j] = accounts'[k] => j = k
  BY <1>1, <1>2, <1>3, <1>4 DEF AccountsOnce, Connected
<1> QED  BY <1>1, <1>2, <1>5, <1>6 DEF AccountsOnce

\* A disconnected account leaves the table, and only that one.
LEMMA AccountDisconnected ==
    ASSUME AccountsOnce, NEW a \in Accounts, Disconnect(a)
    PROVE  AccountsOnce' /\ Connected' = Connected \ {a}
<1>1. PICK k \in DOMAIN accounts :
          /\ accounts[k] = a
          /\ accounts' = [j \in 1 .. Len(accounts) - 1 |->
                             accounts[IF j < k THEN j ELSE j + 1]]
  BY DEF Disconnect
<1> DEFINE n == Len(accounts)
           from(j) == IF j < k THEN j ELSE j + 1
<1>2. /\ DOMAIN accounts = 1 .. n /\ n \in Nat
      /\ \A j \in DOMAIN accounts : accounts[j] \in Accounts
  BY LenProperties, ElementOfSeq DEF AccountsOnce
<1>3. k \in 1 .. n /\ n - 1 \in Nat
  BY <1>2
<1>4. /\ DOMAIN accounts' = 1 .. n - 1
      /\ \A j \in 1 .. n - 1 : accounts'[j] = accounts[from(j)]
  BY <1>1
<1>5. /\ \A j \in 1 .. n - 1 : from(j) \in (1 .. n) \ {k}
      /\ \A i, j \in 1 .. n - 1 : from(i) = from(j) => i = j
      /\ \A j \in (1 .. n) \ {k} : \E i \in 1 .. n - 1 : from(i) = j
  <2>1. \A j \in 1 .. n - 1 : from(j) \in (1 .. n) \ {k}
    BY <1>2, <1>3
  <2>2. \A i, j \in 1 .. n - 1 : from(i) = from(j) => i = j
    BY <1>2, <1>3
  <2>3. ASSUME NEW j \in (1 .. n) \ {k}  PROVE \E i \in 1 .. n - 1 : from(i) = j
    <3>1. CASE j < k
      <4>1. j \in 1 .. n - 1 /\ from(j) = j
        BY <1>2, <1>3, <3>1
      <4> QED  BY <4>1
    <3>2. CASE ~(j < k)
      <4>1. j - 1 \in 1 .. n - 1 /\ from(j - 1) = j
        BY <1>2, <1>3, <3>2
      <4> QED  BY <4>1
    <3> QED  BY <3>1, <3>2
  <2> QED  BY <2>1, <2>2, <2>3
<1> HIDE DEF n, from
<1>6. accounts' \in Seq(Accounts)
  <2>1. \A j \in 1 .. n - 1 : accounts[from(j)] \in Accounts
    BY <1>2, <1>5
  <2>2. accounts' = [j \in 1 .. n - 1 |-> accounts[from(j)]]
    BY <1>1 DEF n, from
  <2> QED  BY <1>3, <2>1, <2>2, IsASeq
<1>7. \A i, j \in DOMAIN accounts' : accounts'[i] = accounts'[j] => i = j
  BY <1>2, <1>4, <1>5 DEF AccountsOnce
<1>8. Connected' = Connected \ {a}
  <2>1. ASSUME NEW b \in Connected'  PROVE b \in Connected \ {a}
    <3>1. PICK j \in 1 .. n - 1 : b = accounts[from(j)]
      BY <1>4 DEF Connected
    <3> QED  BY <1>1, <1>2, <1>3, <1>5, <3>1 DEF Connected, AccountsOnce
  <2>2. ASSUME NEW b \in Connected \ {a}  PROVE b \in Connected'
    <3>1. PICK j \in (1 .. n) \ {k} : b = accounts[j]
      BY <1>1, <1>2 DEF Connected
    <3>2. PICK i \in 1 .. n - 1 : from(i) = j
      BY <1>5, <3>1
    <3> QED  BY <1>4, <3>1, <3>2 DEF Connected
  <2> QED  BY <2>1, <2>2
<1>9. spent' = spent
  BY DEF Disconnect
<1> QED  BY <1>6, <1>7, <1>8, <1>9 DEF AccountsOnce

\* A step of a click that loses no workflow leaves the others where they were.
LEMMA StillThereKept ==
    ASSUME TypeInv, \A d \in Clicks : StillThere(d), NEW c \in Clicks,
           \A d \in Clicks : d # c => click'[d] = click[d],
           \A w \in Workflows :
               workflows[w].status # "NONE" => workflows'[w].status # "NONE",
           StillThere(c)'
    PROVE  \A d \in Clicks : StillThere(d)'
<1> SUFFICES ASSUME NEW d \in Clicks, d # c  PROVE StillThere(d)'
  OBVIOUS
<1>1. click[d].pc \in FoundAt => click[d].workflow \in Workflows
  BY DEF TypeInv, Named, FoundAt, OnWorkflow
<1> QED  BY <1>1 DEF StillThere

\* Every step of a click keeps the foreign keys.
LEMMA WorkRows ==
    ASSUME RowInv, NEW c \in Clicks, Work(c)
    PROVE  KeysHold' /\ \A d \in Clicks : StillThere(d)'
<1> USE DEF RowInv
<1> DEFINE w == click[c].workflow
<1>0. UNCHANGED <<agents, accounts>>
  BY DEF Work, FindToActivate, Demote, SetActive, FindToDeactivate, SetDraft,
         SetStatus, FindToAdd, FindAgent, Upsert, Validate, Insert
<1>1. Present' = Present /\ Connected' = Connected
  BY <1>0 DEF Present, Connected
<1>2. ASSUME UNCHANGED <<workflows, members>>
      PROVE  KeysHold'
  BY <1>1, <1>2 DEF KeysHold, ForeignKeys
<1>3. ASSUME NEW l \in {"idle", "demote", "setActive", "setDraft", "findAgent",
                         "upsert", "insert"},
             Goto(c, l),
             l \in OnWorkflow => w \in Workflows,
             l \in OnAgent => click[c].agent \in Agents,
             l \in FoundAt => workflows'[w].status # "NONE",
             \A v \in Workflows :
                 workflows[v].status # "NONE" => workflows'[v].status # "NONE"
      PROVE  \A d \in Clicks : StillThere(d)'
  <2>1. /\ click'[c].pc = l
        /\ l # "idle" => click'[c] = [click[c] EXCEPT !.pc = l]
        /\ \A d \in Clicks : d # c => click'[d] = click[d]
    BY <1>3, GotoType
  <2>2. l # "idle" => click'[c].workflow = w
    BY <2>1 DEF TypeInv, Click
  <2>3. StillThere(c)'
    BY <1>3, <2>1, <2>2 DEF StillThere, FoundAt
  <2> QED  BY <1>3, <2>1, <2>3, StillThereKept
<1>4. CASE FindToActivate(c)
  <2>1. UNCHANGED <<workflows, members>>
    BY <1>4 DEF FindToActivate
  <2>2. StillThere(c)'
    BY <1>4, <2>1, FoundToActivate DEF StillThere, OwnWorkflow, FoundAt
  <2> QED  BY <1>2, <1>4, <2>1, <2>2, FoundToActivate, StillThereKept
<1>5. CASE Demote(c)
  <2>1. /\ w \in Workflows /\ workflows[w].status # "NONE"
        /\ Goto(c, "setActive") /\ members' = members
    BY <1>5, ThenOrder DEF Demote, At, TypeInv, Named, OnWorkflow, StillThere, FoundAt
  <2>2. ASSUME NEW v \in Workflows
        PROVE  /\ workflows'[v].account = workflows[v].account
               /\ workflows[v].status # "NONE" => workflows'[v].status # "NONE"
    <3>1. workflows'[v] = IF v \in Competitors(c) /\ workflows[v].status = "ACTIVE"
                          THEN [workflows[v] EXCEPT !.status = "DRAFT"]
                          ELSE workflows[v]
      BY <1>5 DEF Demote
    <3> QED  BY <3>1 DEF TypeInv, Row
  <2>3. KeysHold'
    BY <1>1, <2>1, <2>2 DEF KeysHold, ForeignKeys
  <2> QED  BY <1>3, <2>1, <2>2, <2>3 DEF OnAgent
<1>6. ASSUME NEW here \in {"setActive", "setDraft"}, NEW status \in {"ACTIVE", "DRAFT"},
             SetStatus(c, here, status, "idle")
      PROVE  KeysHold' /\ \A d \in Clicks : StillThere(d)'
  <2>1. /\ w \in Workflows /\ Goto(c, "idle") /\ members' = members
        /\ workflows' = [workflows EXCEPT ![w].status = status]
    BY <1>6 DEF SetStatus, At, TypeInv, Named, OnWorkflow
  <2>2. /\ workflows[w].status # "NONE"
    BY <1>6, <2>1 DEF SetStatus, At, StillThere, FoundAt
  <2>3. ASSUME NEW v \in Workflows
        PROVE  /\ workflows'[v].account = workflows[v].account
               /\ workflows[v].status # "NONE" => workflows'[v].status # "NONE"
    BY <2>1 DEF TypeInv, Row
  <2>4. KeysHold'
    BY <1>1, <2>1, <2>3 DEF KeysHold, ForeignKeys
  <2> QED  BY <1>3, <2>1, <2>3, <2>4 DEF OnWorkflow, OnAgent, FoundAt
<1>7. CASE SetActive(c)
  BY <1>6, <1>7, ThenOrder DEF SetActive
<1>8. CASE SetDraft(c)
  BY <1>6, <1>8 DEF SetDraft
<1>9. CASE FindToDeactivate(c)
  BY <1>2, <1>3, <1>9
  DEF FindToDeactivate, At, OwnWorkflow, TypeInv, Named, OnWorkflow, OnAgent, FoundAt
<1>10. CASE FindToAdd(c)
  BY <1>2, <1>3, <1>10
  DEF FindToAdd, At, OwnWorkflow, TypeInv, Named, OnWorkflow, OnAgent, FoundAt
<1>11. CASE FindAgent(c)
  BY <1>2, <1>3, <1>11
  DEF FindAgent, At, TypeInv, Named, OnWorkflow, OnAgent, StillThere, FoundAt
<1>12. CASE Upsert(c)
  <2>1. /\ w \in Workflows /\ click[c].agent \in Agents /\ Goto(c, "idle")
        /\ workflows' = workflows /\ workflows[w].status # "NONE"
    BY <1>12 DEF Upsert, At, TypeInv, Named, OnWorkflow, OnAgent, StillThere, FoundAt
  <2>2. ASSUME NEW v \in Workflows, NEW a \in Agents, members'[v][a] # "NONE"
        PROVE  members[v][a] # "NONE" \/ (v = w /\ a \in Present)
    BY <1>12, <2>1, <2>2 DEF Upsert, Insertable, TypeInv, MemberRows
  <2>3. KeysHold'
    BY <1>1, <2>1, <2>2 DEF KeysHold, ForeignKeys
  <2> QED  BY <1>3, <2>1, <2>3 DEF OnWorkflow, OnAgent, FoundAt
<1>13. CASE Validate(c)
  BY <1>2, <1>3, <1>13 DEF Validate, OnWorkflow, OnAgent, FoundAt
<1>14. CASE Insert(c)
  <2>1. Goto(c, "idle") /\ members' = members
    BY <1>14 DEF Insert
  <2>2. ASSUME NEW v \in Workflows
        PROVE  /\ workflows'[v].account = workflows[v].account
                      \/ workflows'[v].account \in Connected \cup {None}
               /\ workflows[v].status # "NONE" => workflows'[v].status # "NONE"
    BY <1>14 DEF Insert, TypeInv
  <2>3. KeysHold'
    BY <1>1, <2>1, <2>2 DEF KeysHold, ForeignKeys
  <2> QED  BY <1>3, <2>1, <2>2, <2>3 DEF OnWorkflow, OnAgent, FoundAt
<1> QED
  BY <1>4, <1>5, <1>7, <1>8, <1>9, <1>10, <1>11, <1>12, <1>13, <1>14 DEF Work

LEMMA RowNext == RowInv /\ [Next]_vars => RowInv'
<1> SUFFICES ASSUME RowInv, [Next]_vars  PROVE RowInv'
  OBVIOUS
<1>0. TypeInv'
  BY TypeNext DEF RowInv
<1>1. ASSUME UNCHANGED <<accounts, spent>>
      PROVE  AccountsOnce' /\ Connected' = Connected
  BY <1>1 DEF RowInv, AccountsOnce, Connected
<1>2. ASSUME UNCHANGED <<workflows, click>>
      PROVE  \A c \in Clicks : StillThere(c)'
  BY <1>2 DEF RowInv, StillThere
<1>3. ASSUME UNCHANGED <<workflows, members, agents, accounts>>
      PROVE  KeysHold'
  BY <1>3 DEF RowInv, KeysHold, ForeignKeys, Present, Connected
<1>4. ASSUME NEW a \in Accounts, Connect(a)
      PROVE  RowInv'
  <2>1. AccountsOnce' /\ Connected' = Connected \cup {a}
    BY <1>4, AccountConnected DEF RowInv
  <2>2. UNCHANGED <<workflows, members, agents, click>>
    BY <1>4 DEF Connect
  <2>3. KeysHold'
    BY <2>1, <2>2 DEF RowInv, KeysHold, ForeignKeys, Present
  <2> QED  BY <1>0, <1>2, <2>1, <2>2, <2>3 DEF RowInv
<1>5. ASSUME NEW a \in Accounts, Disconnect(a)
      PROVE  RowInv'
  <2>1. AccountsOnce' /\ Connected' = Connected \ {a}
    BY <1>5, AccountDisconnected DEF RowInv
  <2>2. /\ UNCHANGED <<members, agents, click>>
        /\ workflows' = [w \in Workflows |->
               IF workflows[w].account = a
               THEN [workflows[w] EXCEPT !.account = None] ELSE workflows[w]]
    BY <1>5 DEF Disconnect
  <2>3. ASSUME NEW w \in Workflows
        PROVE  /\ workflows'[w].status = workflows[w].status
               /\ workflows'[w].account = IF workflows[w].account = a THEN None
                                          ELSE workflows[w].account
    BY <2>2 DEF RowInv, TypeInv, Row
  <2>4. KeysHold'
    BY <2>1, <2>2, <2>3 DEF RowInv, KeysHold, ForeignKeys, Present
  <2>5. \A c \in Clicks : StillThere(c)'
    <3> SUFFICES ASSUME NEW c \in Clicks  PROVE StillThere(c)'
      OBVIOUS
    <3>1. click[c].pc \in FoundAt => click[c].workflow \in Workflows
      BY DEF RowInv, TypeInv, Named, FoundAt, OnWorkflow
    <3> QED  BY <2>2, <2>3, <3>1 DEF RowInv, StillThere
  <2> QED  BY <1>0, <2>1, <2>4, <2>5 DEF RowInv
<1>6. ASSUME NEW a \in Agents, SetAgentStatus(a)
      PROVE  RowInv'
  <2>1. UNCHANGED <<workflows, members, accounts, spent, click>>
    BY <1>6 DEF SetAgentStatus
  <2>2. Present \subseteq Present'
    BY <1>6 DEF SetAgentStatus, Present, RowInv, TypeInv
  <2>3. KeysHold'
    BY <1>1, <2>1, <2>2 DEF RowInv, KeysHold, ForeignKeys
  <2> QED  BY <1>0, <1>1, <1>2, <2>1, <2>3 DEF RowInv
<1>7. ASSUME NEW a \in Agents, DeleteAgent(a)
      PROVE  RowInv'
  <2>1. /\ UNCHANGED <<workflows, accounts, spent, click>>
        /\ agents' = [agents EXCEPT ![a] = "GONE"]
        /\ members' = [w \in Workflows |-> [members[w] EXCEPT ![a] = "NONE"]]
    BY <1>7 DEF DeleteAgent
  <2>2. Present' = Present \ {a}
    BY <2>1 DEF Present, RowInv, TypeInv
  <2>3. ASSUME NEW w \in Workflows, NEW b \in Agents, members'[w][b] # "NONE"
        PROVE  b # a /\ members[w][b] # "NONE"
    BY <2>1, <2>3 DEF RowInv, TypeInv, MemberRows
  <2>4. KeysHold'
    BY <1>1, <2>1, <2>2, <2>3 DEF RowInv, KeysHold, ForeignKeys
  <2> QED  BY <1>0, <1>1, <1>2, <2>1, <2>4 DEF RowInv
<1>8. ASSUME NEW w \in Workflows, NEW a \in Agents, RemoveMember(w, a)
      PROVE  RowInv'
  <2>1. /\ UNCHANGED <<workflows, agents, accounts, spent, click>>
        /\ members' = [members EXCEPT ![w][a] = "NONE"]
    BY <1>8 DEF RemoveMember
  <2>2. \A v \in Workflows, b \in Agents :
            members'[v][b] # "NONE" => members[v][b] # "NONE"
    BY <2>1 DEF RowInv, TypeInv, MemberRows
  <2>3. KeysHold'
    BY <1>1, <2>1, <2>2 DEF RowInv, KeysHold, ForeignKeys, Present
  <2> QED  BY <1>0, <1>1, <1>2, <2>1, <2>3 DEF RowInv
<1>9. ASSUME NEW c \in Clicks, Start(c)
      PROVE  RowInv'
  <2>1. /\ click'[c].pc \in {"findToActivate", "findToDeactivate", "findToAdd",
                             "validate", "insert"}
        /\ \A d \in Clicks : d # c => click'[d] = click[d]
    BY <1>9, StartedOnWorkflow, StartedAdding, StartedCreating
    DEF Start, StartActivate, StartDeactivate, RowInv
  <2>2. UNCHANGED <<workflows, members, agents, accounts, spent>>
    BY <1>9 DEF Start, StartActivate, StartDeactivate, StartOnWorkflow,
                StartAdd, StartCreate
  <2>3. StillThere(c)'
    BY <2>1 DEF StillThere, FoundAt
  <2> QED  BY <1>0, <1>1, <1>3, <2>1, <2>2, <2>3, StillThereKept DEF RowInv
<1>10. ASSUME NEW c \in Clicks, Work(c)
       PROVE  RowInv'
  <2>1. UNCHANGED <<accounts, spent>>
    BY <1>10 DEF Work, FindToActivate, Demote, SetActive, FindToDeactivate,
        SetDraft, SetStatus, FindToAdd, FindAgent, Upsert, Validate, Insert
  <2> QED  BY <1>0, <1>1, <1>10, <2>1, WorkRows DEF RowInv
<1>11. ASSUME NEW c \in Clicks, Abandon(c)
       PROVE  RowInv'
  <2>1. /\ click'[c].pc = "idle"
        /\ \A d \in Clicks : d # c => click'[d] = click[d]
    BY <1>11, GotoType DEF Abandon, RowInv, OnWorkflow, OnAgent
  <2>2. UNCHANGED <<workflows, members, agents, accounts, spent>>
    BY <1>11 DEF Abandon
  <2>3. StillThere(c)'
    BY <2>1 DEF StillThere, FoundAt
  <2> QED  BY <1>0, <1>1, <1>3, <2>1, <2>2, <2>3, StillThereKept DEF RowInv
<1>12. ASSUME NEW m \in Messages, Deliver(m)
       PROVE  RowInv'
  <2>1. UNCHANGED <<workflows, members, agents, accounts, spent, click>>
    BY <1>12 DEF Deliver, Arrive, FindSpecific, FindGeneric, Choose, Run
  <2> QED  BY <1>0, <1>1, <1>2, <1>3, <2>1 DEF RowInv
<1>13. CASE UNCHANGED vars
  BY <1>0, <1>1, <1>2, <1>3, <1>13 DEF vars, RowInv
<1> QED
  BY <1>4, <1>5, <1>6, <1>7, <1>8, <1>9, <1>10, <1>11, <1>12, <1>13 DEF Next

\* The tables keep their types and their foreign keys: no membership outlives
\* its agent and no binding its account, however deletions, disconnections and
\* clicks half-way interleave.
THEOREM TypeCorrect == Spec => []TypeOK
<1>1. RowInv => TypeOK
  BY DEF RowInv, TypeInv, AccountsOnce, KeysHold, TypeOK
<1> QED  BY <1>1, RowInit, RowNext, PTL DEF Spec

-----------------------------------------------------------------------------
(* ACTIVE workflows that no message can reach.                              *)

\* No webhook workflow is unbound at the start, and no webhook account is
\* disconnected.
WebhooksKept ==
    /\ \A a \in Disconnectable : ProviderOf[a] # "webhook"
    /\ \A w \in Workflows :
          /\ Setup.workflows[w].status # "NONE"
          /\ Setup.workflows[w].trigger = "WEBHOOK"
          => Setup.workflows[w].account # None

\* An existing webhook workflow has an account, DRAFT or ACTIVE: an activation
\* does not look.
WebhookBound(w) ==
    workflows[w].status # "NONE" /\ workflows[w].trigger = "WEBHOOK"
        => workflows[w].account # None

\* The form's check still holds when the row is inserted.
WebhookNamed(c) ==
    click[c].pc \in {"validate", "insert"} /\ click[c].trigger = "WEBHOOK"
        => click[c].account # None

ServedInv ==
    /\ ScopeInv
    /\ RowInv
    /\ \A w \in Workflows : WebhookBound(w)
    /\ \A c \in Clicks : WebhookNamed(c)

LEMMA ServedInit ==
    ASSUME WebhooksKept, Init
    PROVE  ServedInv
<1>1. \A w \in Workflows : WebhookBound(w)
  BY DEF Init, WebhookBound, WebhooksKept
<1>2. \A c \in Clicks : WebhookNamed(c)
  BY DEF Init, WebhookNamed, NoClick
<1> QED  BY <1>1, <1>2, ScopeInit, RowInit DEF ServedInv

\* Creating a webhook workflow without naming an account is refused at once.
LEMMA StartedNamed ==
    ASSUME TypeInv, NEW c \in Clicks, StartCreate(c)
    PROVE  WebhookNamed(c)'
<1>1. PICK org \in Orgs, trigger \in Triggers, account \in Bindings :
          /\ account = None => ~NeedsAccount(trigger)
          /\ click' = [click EXCEPT
                 ![c].pc = IF account = None THEN "insert" ELSE "validate",
                 ![c].org = org, ![c].trigger = trigger, ![c].account = account]
  BY DEF StartCreate
<1> DEFINE k == [click[c] EXCEPT
                     !.pc = IF account = None THEN "insert" ELSE "validate",
                     !.org = org, !.trigger = trigger, !.account = account]
<1>2. click'[c] = k
  BY <1>1 DEF TypeInv
<1>3. k.trigger = trigger /\ k.account = account
  BY DEF TypeInv, Click
<1> QED  BY <1>1, <1>2, <1>3 DEF WebhookNamed, NeedsAccount

\* A step of a click that leaves bindings and triggers alone, or inserts what it
\* named, keeps webhook workflows bound.
LEMMA WorkServed ==
    ASSUME ServedInv, NEW c \in Clicks, Work(c)
    PROVE  /\ \A w \in Workflows : WebhookBound(w)'
           /\ \A d \in Clicks : WebhookNamed(d)'
<1> USE DEF ServedInv, ScopeInv, RowInv
<1>1. ASSUME \A d \in Clicks : d # c => click'[d] = click[d], WebhookNamed(c)'
      PROVE  \A d \in Clicks : WebhookNamed(d)'
  BY <1>1 DEF WebhookNamed
<1>2. ASSUME NEW l \in {"idle", "demote", "setActive", "setDraft", "findAgent",
                         "upsert", "insert"},
             Goto(c, l),
             l \in OnWorkflow => click[c].workflow \in Workflows,
             l \in OnAgent => click[c].agent \in Agents,
             l = "insert" => click[c].pc = "validate"
      PROVE  \A d \in Clicks : WebhookNamed(d)'
  <2>1. /\ click'[c].pc = l
        /\ l # "idle" => click'[c] = [click[c] EXCEPT !.pc = l]
        /\ \A d \in Clicks : d # c => click'[d] = click[d]
    BY <1>2, GotoType
  <2>2. l # "idle" => /\ click'[c].trigger = click[c].trigger
                      /\ click'[c].account = click[c].account
    BY <2>1 DEF TypeInv, Click
  <2>3. WebhookNamed(c)'
    BY <1>2, <2>1, <2>2 DEF WebhookNamed
  <2> QED  BY <1>1, <2>1, <2>3
<1>3. ASSUME UNCHANGED workflows
      PROVE  \A w \in Workflows : WebhookBound(w)'
  BY <1>3 DEF WebhookBound
<1>4. ASSUME \A w \in Workflows :
                 /\ workflows'[w].account = workflows[w].account
                 /\ workflows'[w].trigger = workflows[w].trigger
                 /\ workflows'[w].status # "NONE" => workflows[w].status # "NONE"
      PROVE  \A w \in Workflows : WebhookBound(w)'
  BY <1>4 DEF WebhookBound
<1>5. CASE FindToActivate(c)
  <2>1. WebhookNamed(c)'
    BY <1>5, FoundToActivate DEF WebhookNamed
  <2> QED  BY <1>1, <1>3, <1>5, <2>1, FoundToActivate DEF FindToActivate
<1>6. CASE Demote(c)
  <2>1. Goto(c, "setActive") /\ click[c].workflow \in Workflows
    BY <1>6, ThenOrder DEF Demote, At, TypeInv, Named, OnWorkflow
  <2>2. \A w \in Workflows :
            /\ workflows'[w].account = workflows[w].account
            /\ workflows'[w].trigger = workflows[w].trigger
            /\ workflows'[w].status # "NONE" => workflows[w].status # "NONE"
    BY <1>6 DEF Demote, TypeInv, Row
  <2> QED  BY <1>2, <1>4, <2>1, <2>2 DEF OnAgent
<1>7. ASSUME NEW here \in {"setActive", "setDraft"}, NEW status,
             SetStatus(c, here, status, "idle")
      PROVE  /\ \A w \in Workflows : WebhookBound(w)'
             /\ \A d \in Clicks : WebhookNamed(d)'
  <2>1. /\ click[c].workflow \in Workflows
        /\ workflows[click[c].workflow].status # "NONE"
    BY <1>7 DEF SetStatus, At, StillThere, FoundAt, Named, OnWorkflow, TypeInv
  <2>2. \A w \in Workflows :
            /\ workflows'[w].account = workflows[w].account
            /\ workflows'[w].trigger = workflows[w].trigger
            /\ workflows'[w].status # "NONE" => workflows[w].status # "NONE"
    BY <1>7, <2>1 DEF SetStatus, TypeInv, Row
  <2> QED  BY <1>2, <1>4, <1>7, <2>2 DEF SetStatus, OnWorkflow, OnAgent
<1>8. CASE SetActive(c)
  BY <1>7, <1>8, ThenOrder DEF SetActive
<1>9. CASE SetDraft(c)
  BY <1>7, <1>9 DEF SetDraft
<1>10. CASE FindToDeactivate(c)
  BY <1>2, <1>3, <1>10 DEF FindToDeactivate, At, TypeInv, Named, OnWorkflow, OnAgent
<1>11. CASE FindToAdd(c)
  BY <1>2, <1>3, <1>11 DEF FindToAdd, At, TypeInv, Named, OnWorkflow, OnAgent
<1>12. CASE FindAgent(c)
  BY <1>2, <1>3, <1>12 DEF FindAgent, At, TypeInv, Named, OnWorkflow, OnAgent
<1>13. CASE Upsert(c)
  BY <1>2, <1>3, <1>13 DEF Upsert, OnWorkflow, OnAgent
<1>14. CASE Validate(c)
  BY <1>2, <1>3, <1>14 DEF Validate, At, OnWorkflow, OnAgent
<1>15. CASE Insert(c)
  <2>1. ASSUME NEW v \in Workflows,
               workflows' = [workflows EXCEPT
                   ![v] = [status |-> "DRAFT", trigger |-> click[c].trigger,
                           account |-> click[c].account]]
        PROVE  \A w \in Workflows : WebhookBound(w)'
    <3>1. /\ workflows'[v].trigger = click[c].trigger
          /\ workflows'[v].account = click[c].account
          /\ \A w \in Workflows : w # v => workflows'[w] = workflows[w]
      BY <2>1 DEF TypeInv
    <3>2. WebhookNamed(c) /\ click[c].pc = "insert"
      BY <1>15 DEF Insert, At
    <3> QED  BY <3>1, <3>2 DEF WebhookBound, WebhookNamed
  <2> QED  BY <1>2, <1>3, <1>15, <2>1 DEF Insert, OnWorkflow, OnAgent
<1> QED
  BY <1>5, <1>6, <1>8, <1>9, <1>10, <1>11, <1>12, <1>13, <1>14, <1>15 DEF Work

LEMMA ServedNext ==
    ASSUME WebhooksKept
    PROVE  ServedInv /\ [Next]_vars => ServedInv'
<1> SUFFICES ASSUME ServedInv, [Next]_vars  PROVE ServedInv'
  OBVIOUS
<1>1. ScopeInv' /\ RowInv'
  BY ScopeNext, RowNext DEF ServedInv
<1>2. ASSUME UNCHANGED workflows
      PROVE  \A w \in Workflows : WebhookBound(w)'
  BY <1>2 DEF ServedInv, WebhookBound
<1>3. ASSUME UNCHANGED click
      PROVE  \A c \in Clicks : WebhookNamed(c)'
  BY <1>3 DEF ServedInv, WebhookNamed
<1>4. ASSUME NEW a \in Accounts, Disconnect(a)
      PROVE  ServedInv'
  <2>1. /\ click' = click
        /\ ProviderOf[a] # "webhook"
        /\ workflows' = [w \in Workflows |->
               IF workflows[w].account = a
               THEN [workflows[w] EXCEPT !.account = None] ELSE workflows[w]]
    BY <1>4 DEF Disconnect, WebhooksKept
  <2>2. ASSUME NEW w \in Workflows, workflows[w].account = a
        PROVE  workflows[w].trigger # "WEBHOOK"
    <3>1. a # None
      BY IdsAssumption
    <3>2. ProviderOf[a] \in ProvidersFor(workflows[w].trigger)
      BY <2>2, <3>1 DEF ServedInv, ScopeInv, BindingsScoped, ScopedBindings, Bindable
    <3> QED  BY <2>1, <3>2 DEF ProvidersFor
  <2>3. ASSUME NEW w \in Workflows
        PROVE  WebhookBound(w)'
    <3>1. CASE workflows[w].account # a
      BY <2>1, <3>1 DEF ServedInv, WebhookBound
    <3>2. CASE workflows[w].account = a
      <4>1. workflows'[w].trigger = workflows[w].trigger
        BY <2>1, <3>2 DEF ServedInv, ScopeInv, TypeInv, Row
      <4> QED  BY <2>2, <3>2, <4>1 DEF WebhookBound
    <3> QED  BY <3>1, <3>2
  <2> QED  BY <1>1, <1>3, <2>1, <2>3 DEF ServedInv
<1>5. ASSUME NEW c \in Clicks, Start(c)
      PROVE  ServedInv'
  <2>1. /\ click'[c].pc \in {"findToActivate", "findToDeactivate", "findToAdd"}
              \/ StartCreate(c)
        /\ \A d \in Clicks : d # c => click'[d] = click[d]
    BY <1>5, StartedOnWorkflow, StartedAdding, StartedCreating
    DEF Start, StartActivate, StartDeactivate, ServedInv, RowInv
  <2>2. WebhookNamed(c)'
    <3>1. CASE StartCreate(c)
      BY <3>1, StartedNamed DEF ServedInv, RowInv
    <3>2. CASE ~StartCreate(c)
      BY <2>1, <3>2 DEF WebhookNamed
    <3> QED  BY <3>1, <3>2
  <2>3. \A d \in Clicks : WebhookNamed(d)'
    BY <2>1, <2>2 DEF ServedInv, WebhookNamed
  <2>4. UNCHANGED workflows
    BY <1>5 DEF Start, StartActivate, StartDeactivate, StartOnWorkflow,
                StartAdd, StartCreate
  <2> QED  BY <1>1, <1>2, <2>3, <2>4 DEF ServedInv
<1>6. ASSUME NEW c \in Clicks, Work(c)
      PROVE  ServedInv'
  BY <1>1, <1>6, WorkServed DEF ServedInv
<1>7. ASSUME NEW c \in Clicks, Abandon(c)
      PROVE  ServedInv'
  <2>1. /\ click'[c].pc = "idle"
        /\ \A d \in Clicks : d # c => click'[d] = click[d]
    BY <1>7, GotoType DEF Abandon, ServedInv, RowInv, OnWorkflow, OnAgent
  <2>2. \A d \in Clicks : WebhookNamed(d)'
    BY <2>1 DEF ServedInv, WebhookNamed
  <2>3. UNCHANGED workflows
    BY <1>7 DEF Abandon
  <2> QED  BY <1>1, <1>2, <2>2, <2>3 DEF ServedInv
<1>8. CASE UNCHANGED <<workflows, click>>
  BY <1>1, <1>2, <1>3, <1>8 DEF ServedInv
<1> QED
  <2>1. ASSUME NEW a \in Accounts, Connect(a)  PROVE ServedInv'
    BY <1>8, <2>1 DEF Connect
  <2>2. ASSUME NEW a \in Agents, SetAgentStatus(a) \/ DeleteAgent(a)
        PROVE  ServedInv'
    BY <1>8, <2>2 DEF SetAgentStatus, DeleteAgent
  <2>3. ASSUME NEW w \in Workflows, NEW a \in Agents, RemoveMember(w, a)
        PROVE  ServedInv'
    BY <1>8, <2>3 DEF RemoveMember
  <2>4. ASSUME NEW m \in Messages, Deliver(m)  PROVE ServedInv'
    BY <1>8, <2>4 DEF Deliver, Arrive, FindSpecific, FindGeneric, Choose, Run
  <2>5. CASE UNCHANGED vars
    BY <1>8, <2>5 DEF vars
  <2> QED  BY <1>4, <1>5, <1>6, <1>7, <2>1, <2>2, <2>3, <2>4, <2>5 DEF Next

\* A workflow whose binding is connected and fits its trigger lacks an account
\* only if it is generic, and then the missing mailbox is a warning.
LEMMA IdleWarned == ServedInv => WarnedWhenIdle
<1> SUFFICES ASSUME ServedInv, NEW w \in Workflows,
                    workflows[w].status = "ACTIVE", ~CanRun(w)
             PROVE  Warnings(w) # {}
  BY DEF WarnedWhenIdle
<1>1. CASE ~Classified(w)
  <2>1. "noClassifier" \in Warnings(w)
    BY <1>1 DEF Warnings
  <2> QED  BY <2>1
<1>2. CASE ActiveHandlers(w) = {}
  <2>1. "noHandler" \in Warnings(w)
    BY <1>2 DEF Warnings
  <2> QED  BY <2>1
<1>3. CASE Classified(w) /\ ActiveHandlers(w) # {}
  <2>1. ~\E a \in Connected :
            /\ OrgOf[a] = OrgOf[w]
            /\ ProviderOf[a] \in ProvidersFor(workflows[w].trigger)
            /\ workflows[w].account \in {None, a}
    BY <1>3 DEF CanRun
  <2>2. workflows[w].account = None
    <3>1. SUFFICES ASSUME workflows[w].account # None  PROVE FALSE
      OBVIOUS
    <3>2. workflows[w].account \in Connected
      BY <3>1 DEF ServedInv, RowInv, KeysHold, ForeignKeys
    <3>3. Bindable(OrgOf[w], workflows[w].trigger, workflows[w].account)
      BY <3>1 DEF ServedInv, ScopeInv, BindingsScoped, ScopedBindings
    <3> QED  BY <2>1, <3>2, <3>3 DEF Bindable
  <2>3. workflows[w].trigger = "EMAIL"
    <3>1. workflows[w].trigger \in Triggers
      BY DEF ServedInv, RowInv, TypeInv, Row
    <3>2. workflows[w].trigger # "WEBHOOK"
      BY <2>2 DEF ServedInv, WebhookBound
    <3> QED  BY <3>1, <3>2 DEF Triggers
  <2>4. "noMailbox" \in Warnings(w)
    BY <2>1, <2>2, <2>3 DEF Warnings
  <2> QED  BY <2>4
<1> QED  BY <1>1, <1>2, <1>3

\* No ACTIVE webhook workflow is ever generic, and an ACTIVE workflow that no
\* message could make run an agent is shown with a warning, as long as the
\* account of no webhook workflow is disconnected.
THEOREM ActiveAlwaysServed ==
    ASSUME WebhooksKept
    PROVE  Spec => []ActiveMeansServed
<1>1. ServedInv => ActiveMeansServed
  <2>1. ServedInv => WebhookNeverGeneric
    BY DEF ServedInv, WebhookNeverGeneric, WebhookBound
  <2> QED  BY <2>1, IdleWarned DEF ActiveMeansServed
<1> QED  BY <1>1, ServedInit, ServedNext, PTL DEF Spec
-----------------------------------------------------------------------------
(* Accounts with a workflow of their own.                                   *)

\* Every workflow bound to an account is live at the start, alone in its slot,
\* and clicks only activate workflows and add members.
Unrivalled ==
    /\ Disconnectable = {}
    /\ Ops \subseteq {"activate", "add"}
    /\ \A w \in Workflows :
          Setup.workflows[w].status # "NONE" /\ Setup.workflows[w].account # None
              => Setup.workflows[w].status = "ACTIVE"
    /\ \A v, w \in Workflows :
          /\ Setup.workflows[v].status # "NONE"
          /\ Setup.workflows[w].status # "NONE"
          /\ Setup.workflows[v].account # None
          /\ Setup.workflows[v].account = Setup.workflows[w].account
          /\ Setup.workflows[v].trigger = Setup.workflows[w].trigger
          /\ OrgOf[v] = OrgOf[w]
          => v = w

\* The workflows bound to an account.
Bound == {w \in Workflows : workflows[w].status # "NONE" /\ workflows[w].account # None}

BoundLive ==
    /\ \A w \in Bound : workflows[w].status = "ACTIVE"
    /\ \A v, w \in Bound :
          /\ workflows[v].account = workflows[w].account
          /\ workflows[v].trigger = workflows[w].trigger
          /\ OrgOf[v] = OrgOf[w]
          => v = w

\* A click is an activation or adds a member, and an activation still knows the
\* slot of its workflow.
ClickUnrivalled(c) ==
    /\ click[c].pc \in {"idle", "findToActivate", "demote", "setActive",
                        "findToAdd", "findAgent", "upsert"}
    /\ click[c].pc \in {"demote", "setActive"} =>
          /\ OrgOf[click[c].workflow] = click[c].org
          /\ workflows[click[c].workflow].trigger = click[c].trigger
          /\ workflows[click[c].workflow].account = click[c].account

\* Once the look-up of the account's own workflow found nothing, there is none.
NoneOfItsOwn(m) ==
    /\ msg[m].pc # "idle" => msg[m].account \in Accounts
    /\ \/ msg[m].pc = "findGeneric"
       \/ msg[m].pc \in {"choose", "run"} /\ msg[m].bound = None
       => Matching(m, msg[m].account) = {}

SpecificInv ==
    /\ RowInv
    /\ BoundLive
    /\ \A c \in Clicks : ClickUnrivalled(c)
    /\ \A m \in Messages : NoneOfItsOwn(m)

\* No row moves to another slot, appears or disappears, and no bound workflow
\* changes at all.
BoundKept ==
    \A w \in Workflows :
        /\ workflows'[w].trigger = workflows[w].trigger
        /\ workflows'[w].account = workflows[w].account
        /\ workflows'[w].status = "NONE" <=> workflows[w].status = "NONE"
        /\ workflows[w].account # None => workflows'[w].status = workflows[w].status

LEMMA SpecificInit ==
    ASSUME Unrivalled, Init
    PROVE  SpecificInv
<1>1. BoundLive
  BY DEF Init, BoundLive, Bound, Unrivalled
<1>2. \A c \in Clicks : ClickUnrivalled(c)
  BY DEF Init, ClickUnrivalled, NoClick
<1>3. \A m \in Messages : NoneOfItsOwn(m)
  BY DEF Init, NoneOfItsOwn
<1> QED  BY <1>1, <1>2, <1>3, RowInit DEF SpecificInv

\* What such a step leaves true: of the rows,
LEMMA BoundLiveKept ==
    ASSUME BoundLive, BoundKept
    PROVE  BoundLive'
<1>1. Bound' = Bound
  BY DEF Bound, BoundKept
<1>2. \A w \in Bound : /\ workflows'[w].trigger = workflows[w].trigger
                       /\ workflows'[w].account = workflows[w].account
                       /\ workflows'[w].status = workflows[w].status
  BY DEF Bound, BoundKept
<1> QED  BY <1>1, <1>2 DEF BoundLive

\* of the other clicks,
LEMMA ClicksUnrivalled ==
    ASSUME TypeInv, \A d \in Clicks : ClickUnrivalled(d), BoundKept,
           NEW c \in Clicks, \A d \in Clicks : d # c => click'[d] = click[d],
           ClickUnrivalled(c)'
    PROVE  \A d \in Clicks : ClickUnrivalled(d)'
<1> SUFFICES ASSUME NEW d \in Clicks, d # c  PROVE ClickUnrivalled(d)'
  OBVIOUS
<1>1. click[d].pc \in {"demote", "setActive"} => click[d].workflow \in Workflows
  BY DEF TypeInv, Named, OnWorkflow
<1> QED  BY <1>1 DEF ClickUnrivalled, BoundKept

\* and of the messages.
LEMMA NoneOfItsOwnKept ==
    ASSUME SpecificInv, BoundKept, NEW m \in Messages, msg'[m] = msg[m]
    PROVE  NoneOfItsOwn(m)'
<1>1. msg[m].pc # "idle" => msg[m].account \in Accounts
  BY DEF SpecificInv, NoneOfItsOwn
<1>2. CASE msg[m].pc = "idle"
  BY <1>2 DEF NoneOfItsOwn
<1>3. CASE msg[m].pc # "idle"
  <2>1. msg[m].account # None
    BY <1>1, <1>3, IdsAssumption
  <2>2. Matching(m, msg[m].account)' = Matching(m, msg[m].account)
    BY <2>1 DEF BoundKept, Matching, ActiveInSlot, InSlot
  <2> QED  BY <1>1, <1>3, <2>2 DEF SpecificInv, NoneOfItsOwn
<1> QED  BY <1>2, <1>3

LEMMA WorkUnrivalled ==
    ASSUME SpecificInv, NEW c \in Clicks, Work(c)
    PROVE  BoundKept /\ \A d \in Clicks : ClickUnrivalled(d)'
<1> USE DEF SpecificInv, RowInv
<1> DEFINE w == click[c].workflow
<1>1. ASSUME UNCHANGED workflows
      PROVE  BoundKept
  BY <1>1 DEF BoundKept
<1>2. ASSUME NEW l \in {"idle", "setActive", "findAgent", "upsert"}, Goto(c, l),
             l \in OnWorkflow => w \in Workflows,
             l \in OnAgent => click[c].agent \in Agents,
             l = "setActive" => click[c].pc = "demote",
             BoundKept
      PROVE  \A d \in Clicks : ClickUnrivalled(d)'
  <2>1. /\ click'[c].pc = l
        /\ l # "idle" => click'[c] = [click[c] EXCEPT !.pc = l]
        /\ \A d \in Clicks : d # c => click'[d] = click[d]
    BY <1>2, GotoType
  <2>2. l # "idle" => /\ click'[c].workflow = w
                      /\ click'[c].org = click[c].org
                      /\ click'[c].trigger = click[c].trigger
                      /\ click'[c].account = click[c].account
    BY <2>1 DEF TypeInv, Click
  <2>3. ClickUnrivalled(c)'
    BY <1>2, <2>1, <2>2 DEF ClickUnrivalled, OnWorkflow, BoundKept
  <2> QED  BY <1>2, <2>1, <2>3, ClicksUnrivalled
<1>3. CASE FindToActivate(c)
  <2>1. BoundKept
    BY <1>1, <1>3 DEF FindToActivate
  <2>2. ClickUnrivalled(c)'
    BY <1>3, FoundToActivate DEF ClickUnrivalled, OwnWorkflow, FindToActivate
  <2> QED  BY <1>3, <2>1, <2>2, FoundToActivate, ClicksUnrivalled
<1>4. CASE Demote(c)
  <2>1. /\ w \in Workflows
        /\ click[c].pc = "demote"
        /\ workflows[w].status # "NONE"
        /\ Goto(c, "setActive")
    BY <1>4, ThenOrder DEF Demote, At, TypeInv, Named, OnWorkflow, StillThere, FoundAt
  <2>2. ASSUME NEW v \in Workflows
        PROVE  workflows'[v] =
                   IF v \in Competitors(c) /\ workflows[v].status = "ACTIVE"
                   THEN [workflows[v] EXCEPT !.status = "DRAFT"]
                   ELSE workflows[v]
    BY <1>4 DEF Demote
  <2>3. ASSUME NEW v \in Workflows
        PROVE  /\ workflows'[v].trigger = workflows[v].trigger
               /\ workflows'[v].account = workflows[v].account
               /\ workflows'[v].status = "NONE" <=> workflows[v].status = "NONE"
               /\ workflows'[v].status # workflows[v].status
                      => v \in Competitors(c) /\ workflows[v].status = "ACTIVE"
    BY <2>2 DEF TypeInv, Row
  <2>4. ASSUME NEW v \in Competitors(c), workflows[v].status = "ACTIVE",
               workflows[v].account # None
        PROVE  FALSE
    <3>1. /\ v \in Workflows /\ v # w
          /\ OrgOf[v] = OrgOf[w]
          /\ workflows[v].trigger = workflows[w].trigger
          /\ workflows[v].account = workflows[w].account
      BY <2>1 DEF Competitors, InSlot, ClickUnrivalled
    <3>2. v \in Bound /\ w \in Bound
      BY <2>1, <2>4, <3>1 DEF Bound
    <3> QED  BY <3>1, <3>2 DEF BoundLive
  <2>5. BoundKept
    BY <2>3, <2>4 DEF BoundKept
  <2> QED  BY <1>2, <2>1, <2>5 DEF OnAgent
<1>5. CASE SetActive(c)
  <2>1. /\ w \in Workflows
        /\ workflows[w].status # "NONE"
        /\ Goto(c, "idle")
        /\ workflows' = [workflows EXCEPT ![w].status = "ACTIVE"]
    BY <1>5, ThenOrder
    DEF SetActive, SetStatus, At, TypeInv, Named, OnWorkflow, StillThere, FoundAt
  <2>2. workflows[w].account # None => workflows[w].status = "ACTIVE"
    BY <2>1 DEF BoundLive, Bound
  <2>3. BoundKept
    BY <2>1, <2>2 DEF BoundKept, TypeInv, Row
  <2> QED  BY <1>2, <2>1, <2>3 DEF OnWorkflow, OnAgent
<1>6. CASE FindToAdd(c)
  BY <1>1, <1>2, <1>6 DEF FindToAdd, At, TypeInv, Named, OnWorkflow, OnAgent
<1>7. CASE FindAgent(c)
  BY <1>1, <1>2, <1>7 DEF FindAgent, At, TypeInv, Named, OnWorkflow, OnAgent
<1>8. CASE Upsert(c)
  BY <1>1, <1>2, <1>8 DEF Upsert, OnWorkflow, OnAgent
<1>9. CASE FindToDeactivate(c) \/ SetDraft(c) \/ Validate(c) \/ Insert(c)
  BY <1>9 DEF FindToDeactivate, SetDraft, SetStatus, Validate, Insert, At,
              ClickUnrivalled
<1> QED
  BY <1>3, <1>4, <1>5, <1>6, <1>7, <1>8, <1>9 DEF Work

\* What a message's handler finds is bound as the row was when it was read.
LEMMA FoundBound ==
    ASSUME TypeInv, NEW m \in Messages, NEW w \in Workflows, Found(m, w)
    PROVE  /\ msg'[m].trigger = msg[m].trigger
           /\ msg'[m].pc = "choose" => msg'[m].bound = workflows[w].account
<1> DEFINE k == IF Classified(w) /\ ActiveHandlers(w) # {}
                THEN [msg[m] EXCEPT !.pc = "choose", !.found = w,
                                    !.bound = workflows[w].account,
                                    !.handlers = ActiveHandlers(w)]
                ELSE [msg[m] EXCEPT !.pc = "ended"]
<1>1. msg'[m] = k
  BY DEF Found, TypeInv
<1>2. k.trigger = msg[m].trigger /\ (k.pc = "choose" => k.bound = workflows[w].account)
  BY DEF TypeInv, Message
<1> QED  BY <1>1, <1>2

LEMMA DeliverUnrivalled ==
    ASSUME SpecificInv, NEW m \in Messages, Deliver(m)
    PROVE  \A n \in Messages : NoneOfItsOwn(n)'
<1> USE DEF SpecificInv, RowInv
<1>0. UNCHANGED workflows
  BY DEF Deliver, Arrive, FindSpecific, FindGeneric, Choose, Run
<1>1. ASSUME \A n \in Messages : n # m => msg'[n] = msg[n], NoneOfItsOwn(m)'
      PROVE  \A n \in Messages : NoneOfItsOwn(n)'
  <2>1. BoundKept
    BY <1>0 DEF BoundKept
  <2> QED  BY <1>1, <2>1, NoneOfItsOwnKept
<1>2. ASSUME msg'[m].account = msg[m].account, msg'[m].trigger = msg[m].trigger
      PROVE  Matching(m, msg[m].account)' = Matching(m, msg[m].account)
  BY <1>0, <1>2 DEF Matching, ActiveInSlot, InSlot
<1>3. CASE Arrive(m)
  <2>1. NoneOfItsOwn(m)'
    BY <1>3, Arrived DEF NoneOfItsOwn
  <2> QED  BY <1>1, <1>3, <2>1, Arrived
<1>4. ASSUME NEW account, NEW w \in Matching(m, account), Found(m, w),
             msg[m].pc \in {"findSpecific", "findGeneric"},
             account = None => msg[m].pc = "findGeneric"
      PROVE  \A n \in Messages : NoneOfItsOwn(n)'
  <2>1. w \in Workflows /\ workflows[w].account = account
    BY <1>4 DEF Matching, ActiveInSlot, InSlot
  <2>2. /\ msg'[m].pc \in {"choose", "ended"}
        /\ msg'[m].account = msg[m].account
        /\ \A n \in Messages : n # m => msg'[n] = msg[n]
    BY <1>4, <2>1, FoundFields
  <2>3. /\ msg'[m].trigger = msg[m].trigger
        /\ msg'[m].pc = "choose" => msg'[m].bound = account
    BY <1>4, <2>1, FoundBound
  <2>4. NoneOfItsOwn(m)'
    BY <1>2, <1>4, <2>2, <2>3 DEF NoneOfItsOwn
  <2> QED  BY <1>1, <2>2, <2>4
<1>5. ASSUME NEW l \in {"findGeneric", "ended", "handled"},
             msg' = [msg EXCEPT ![m].pc = l], msg[m].pc # "idle",
             l = "findGeneric" => Matching(m, msg[m].account) = {}
      PROVE  \A n \in Messages : NoneOfItsOwn(n)'
  <2>1. /\ msg'[m] = [msg[m] EXCEPT !.pc = l]
        /\ \A n \in Messages : n # m => msg'[n] = msg[n]
    BY <1>5 DEF TypeInv
  <2>2. /\ msg'[m].pc = l
        /\ msg'[m].trigger = msg[m].trigger
        /\ msg'[m].account = msg[m].account
    BY <2>1 DEF TypeInv, Message
  <2>3. NoneOfItsOwn(m)'
    BY <1>2, <1>5, <2>2 DEF NoneOfItsOwn
  <2> QED  BY <1>1, <2>1, <2>3
<1>6. CASE FindSpecific(m)
  <2>1. msg[m].account # None
    BY <1>6, IdsAssumption DEF FindSpecific, NoneOfItsOwn
  <2> QED  BY <1>4, <1>5, <1>6, <2>1 DEF FindSpecific
<1>7. CASE FindGeneric(m)
  BY <1>4, <1>5, <1>7 DEF FindGeneric
<1>8. CASE Choose(m)
  <2>1. ASSUME NEW k \in Message, msg' = [msg EXCEPT ![m] = k],
               k.pc \in {"run", "ended"}, k.account = msg[m].account,
               k.trigger = msg[m].trigger, k.bound = msg[m].bound
        PROVE  \A n \in Messages : NoneOfItsOwn(n)'
    <3>1. msg'[m] = k /\ \A n \in Messages : n # m => msg'[n] = msg[n]
      BY <2>1 DEF TypeInv
    <3>2. NoneOfItsOwn(m)'
      BY <1>2, <1>8, <2>1, <3>1 DEF NoneOfItsOwn, Choose
    <3> QED  BY <1>1, <3>1, <3>2
  <2>2. ASSUME NEW a \in msg[m].handlers,
               msg' = [msg EXCEPT ![m].pc = "run", ![m].agent = a,
                                  ![m].handlers = {}]
        PROVE  \A n \in Messages : NoneOfItsOwn(n)'
    <3> DEFINE k == [msg[m] EXCEPT !.pc = "run", !.agent = a, !.handlers = {}]
    <3>1. msg' = [msg EXCEPT ![m] = k]
      BY <2>2 DEF TypeInv
    <3>2. /\ k \in Message /\ k.pc = "run" /\ k.account = msg[m].account
          /\ k.trigger = msg[m].trigger /\ k.bound = msg[m].bound
      BY DEF TypeInv, Message
    <3> QED  BY <2>1, <3>1, <3>2
  <2>3. ASSUME msg' = [msg EXCEPT ![m].pc = "ended", ![m].handlers = {}]
        PROVE  \A n \in Messages : NoneOfItsOwn(n)'
    <3> DEFINE k == [msg[m] EXCEPT !.pc = "ended", !.handlers = {}]
    <3>1. msg' = [msg EXCEPT ![m] = k]
      BY <2>3 DEF TypeInv
    <3>2. /\ k \in Message /\ k.pc = "ended" /\ k.account = msg[m].account
          /\ k.trigger = msg[m].trigger /\ k.bound = msg[m].bound
      BY DEF TypeInv, Message
    <3> QED  BY <2>1, <3>1, <3>2
  <2> QED  BY <1>8, <2>2, <2>3 DEF Choose
<1>9. CASE Run(m)
  <2>1. PICK l \in {"ended", "handled"} : msg' = [msg EXCEPT ![m].pc = l]
    BY <1>9 DEF Run
  <2> QED  BY <1>5, <1>9, <2>1 DEF Run
<1> QED  BY <1>3, <1>6, <1>7, <1>8, <1>9 DEF Deliver

LEMMA SpecificNext ==
    ASSUME Unrivalled
    PROVE  SpecificInv /\ [Next]_vars => SpecificInv'
<1> SUFFICES ASSUME SpecificInv, [Next]_vars  PROVE SpecificInv'
  OBVIOUS
<1>1. RowInv' /\ TypeInv
  BY RowNext DEF SpecificInv, RowInv
<1>2. ASSUME BoundKept, UNCHANGED msg, \A c \in Clicks : ClickUnrivalled(c)'
      PROVE  SpecificInv'
  BY <1>1, <1>2, BoundLiveKept, NoneOfItsOwnKept DEF SpecificInv
<1>3. ASSUME UNCHANGED workflows
      PROVE  BoundKept
  BY <1>3 DEF BoundKept
<1>4. ASSUME UNCHANGED <<workflows, click>>
      PROVE  \A c \in Clicks : ClickUnrivalled(c)'
  BY <1>4 DEF SpecificInv, ClickUnrivalled
<1>5. CASE UNCHANGED <<workflows, click, msg>>
  BY <1>2, <1>3, <1>4, <1>5
<1>6. ASSUME NEW a \in Accounts, Connect(a) \/ Disconnect(a)
      PROVE  SpecificInv'
  BY <1>5, <1>6 DEF Connect, Disconnect, Unrivalled
<1>7. ASSUME NEW a \in Agents, SetAgentStatus(a) \/ DeleteAgent(a)
      PROVE  SpecificInv'
  BY <1>5, <1>7 DEF SetAgentStatus, DeleteAgent
<1>8. ASSUME NEW w \in Workflows, NEW a \in Agents, RemoveMember(w, a)
      PROVE  SpecificInv'
  BY <1>5, <1>8 DEF RemoveMember
<1>9. ASSUME NEW c \in Clicks, Start(c)
      PROVE  SpecificInv'
  <2>1. StartActivate(c) \/ StartAdd(c)
    BY <1>9 DEF Start, StartDeactivate, StartCreate, StartOnWorkflow, Unrivalled
  <2>2. /\ click'[c].pc \in {"findToActivate", "findToAdd"}
        /\ \A d \in Clicks : d # c => click'[d] = click[d]
    BY <1>1, <2>1, StartedOnWorkflow, StartedAdding DEF StartActivate
  <2>3. UNCHANGED <<workflows, msg>>
    BY <2>1 DEF StartActivate, StartOnWorkflow, StartAdd
  <2>4. ClickUnrivalled(c)'
    BY <2>2 DEF ClickUnrivalled
  <2>5. \A d \in Clicks : ClickUnrivalled(d)'
    BY <1>1, <1>3, <2>2, <2>3, <2>4, ClicksUnrivalled DEF SpecificInv
  <2> QED  BY <1>2, <1>3, <2>3, <2>5
<1>10. ASSUME NEW c \in Clicks, Work(c)
       PROVE  SpecificInv'
  <2>1. UNCHANGED msg
    BY <1>10 DEF Work, FindToActivate, Demote, SetActive, FindToDeactivate,
        SetDraft, SetStatus, FindToAdd, FindAgent, Upsert, Validate, Insert
  <2> QED  BY <1>2, <1>10, <2>1, WorkUnrivalled
<1>11. ASSUME NEW c \in Clicks, Abandon(c)
       PROVE  SpecificInv'
  <2>1. /\ click'[c].pc = "idle"
        /\ \A d \in Clicks : d # c => click'[d] = click[d]
    BY <1>1, <1>11, GotoType DEF Abandon, OnWorkflow, OnAgent
  <2>2. UNCHANGED <<workflows, msg>>
    BY <1>11 DEF Abandon
  <2>3. ClickUnrivalled(c)'
    BY <2>1 DEF ClickUnrivalled
  <2>4. \A d \in Clicks : ClickUnrivalled(d)'
    BY <1>1, <1>3, <2>1, <2>2, <2>3, ClicksUnrivalled DEF SpecificInv
  <2> QED  BY <1>2, <1>3, <2>2, <2>4
<1>12. ASSUME NEW m \in Messages, Deliver(m)
       PROVE  SpecificInv'
  <2>1. UNCHANGED <<workflows, click>>
    BY <1>12 DEF Deliver, Arrive, FindSpecific, FindGeneric, Choose, Run
  <2> QED  BY <1>1, <1>3, <1>4, <1>12, <2>1, BoundLiveKept, DeliverUnrivalled
           DEF SpecificInv
<1>13. CASE UNCHANGED vars
  BY <1>5, <1>13 DEF vars
<1> QED
  BY <1>6, <1>7, <1>8, <1>9, <1>10, <1>11, <1>12, <1>13 DEF Next

\* A message on an account that has its own ACTIVE workflow is not handled by
\* the generic one, however many activations compete for the generic slot, as
\* long as no other workflow competes for the account.
THEOREM AlwaysSpecificFirst ==
    ASSUME Unrivalled
    PROVE  Spec => []SpecificFirst
<1>1. SpecificInv => SpecificFirst
  BY DEF SpecificInv, NoneOfItsOwn, SpecificFirst
<1> QED  BY <1>1, SpecificInit, SpecificNext, PTL DEF Spec
=============================================================================
