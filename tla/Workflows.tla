------------------------------ MODULE Workflows ------------------------------
(***************************************************************************)
(* Workflows, their members and the accounts they listen on, as the server *)
(* actions that edit them (the clicks) and the dispatches that read them   *)
(* (the messages) see them.  Each awaited call is a step, so clicks and    *)
(* messages interleave between any two; a click of one call is one action. *)
(*                                                                         *)
(* All organisations share the tables.  OrgOf says whose a row is: rows    *)
(* are created for one organisation and never move.                        *)
(***************************************************************************)
EXTENDS Naturals, Sequences, FiniteSets

CONSTANTS
    Workflows, Accounts, Agents,    \* the ids rows have or may get
    OrgOf,          \* the organisation of each of them
    ProviderOf,     \* the provider of each account
    Setup,          \* the rows at the start
    Clicks,         \* the server actions that may be at work at once
    Messages,       \* the inbound messages
    None,           \* no workflow, agent or account
    Ops,            \* what the clicks may ask for
    Disconnectable, \* the accounts that may be disconnected
    Removable,      \* the agents that may be archived, deleted or taken off
    Faults          \* may a click fail or die half-way?

Orgs == {OrgOf[a] : a \in Agents}
Triggers == {"EMAIL", "WEBHOOK"}
Roles == {"CLASSIFIER", "HANDLER"}
Providers == {"gmail", "outlook", "webhook"}
Bindings == Accounts \cup {None}

\* TRIGGER_INTEGRATION_PROVIDERS.
ProvidersFor(trigger) ==
    IF trigger = "EMAIL" THEN {"gmail", "outlook"} ELSE {"webhook"}

Row == [status : {"NONE", "DRAFT", "ACTIVE"}, trigger : Triggers,
        account : Bindings]
MemberRows == [Workflows -> [Agents -> Roles \cup {"NONE"}]]

\* The workflows in a slot: those that compete for one trigger and account.
InSlot(table, org, trigger, account) ==
    {w \in Workflows : /\ OrgOf[w] = org
                       /\ table[w].trigger = trigger
                       /\ table[w].account = account}

ActiveInSlot(table, org, trigger, account) ==
    {w \in InSlot(table, org, trigger, account) : table[w].status = "ACTIVE"}

AtMostOneActive(table) ==
    \A org \in Orgs, trigger \in Triggers, account \in Bindings :
        \A v, w \in ActiveInSlot(table, org, trigger, account) : v = w

\* The foreign keys of the tables.
ForeignKeys(table, roles, present, connected) ==
    \A w \in Workflows :
        /\ table[w].account \in connected \cup {None}
        /\ \A a \in Agents : roles[w][a] # "NONE"
               => table[w].status # "NONE" /\ a \in present

Bindable(org, trigger, account) ==
    /\ OrgOf[account] = org
    /\ ProviderOf[account] \in ProvidersFor(trigger)

ScopedBindings(table) ==
    \A w \in Workflows : table[w].account # None
        => Bindable(OrgOf[w], table[w].trigger, table[w].account)

ScopedMembers(roles) ==
    \A w \in Workflows, a \in Agents :
        roles[w][a] # "NONE" => OrgOf[a] = OrgOf[w]

ASSUME IdsAssumption ==
    /\ None \notin Workflows \cup Agents \cup Accounts \cup Orgs
    /\ \A w \in Workflows : OrgOf[w] \in Orgs
    /\ \A a \in Accounts : ProviderOf[a] \in Providers
ASSUME SetupAssumption ==
    /\ Setup \in [workflows : [Workflows -> Row], members : MemberRows,
                  accounts : Seq(Accounts)]
    /\ \A j, k \in DOMAIN Setup.accounts :
           Setup.accounts[j] = Setup.accounts[k] => j = k
    /\ ForeignKeys(Setup.workflows, Setup.members, Agents,
                   {Setup.accounts[k] : k \in DOMAIN Setup.accounts})
    /\ AtMostOneActive(Setup.workflows)
    /\ ScopedBindings(Setup.workflows)
    /\ ScopedMembers(Setup.members)
ASSUME SwitchesAssumption ==
    /\ Ops \subseteq {"activate", "deactivate", "add", "create"}
    /\ Disconnectable \subseteq Accounts
    /\ Removable \subseteq Agents
    /\ Faults \in BOOLEAN

VARIABLES
    workflows,  \* the Workflow rows: status, trigger and bound account
    members,    \* the WorkflowAgent rows: each agent's role in each workflow
    agents,     \* the status of the Agent rows
    accounts,   \* the ids of the Integration rows, earliest connected first
    spent,      \* the account ids used so far: an id is never used again
    click,      \* the local state of each click
    msg         \* the local state of each message's handler

vars == <<workflows, members, agents, accounts, spent, click, msg>>

\* A click, where it is (the call it makes next), for whom it works and what
\* it read: trigger and account are the slot.
Click == [pc : {"idle", "findToActivate", "demote", "setActive",
                "findToDeactivate", "setDraft", "findToAdd", "findAgent",
                "upsert", "validate", "insert"},
          org : Orgs \cup {None}, workflow : Workflows \cup {None},
          agent : Agents \cup {None}, role : Roles,
          trigger : Triggers, account : Bindings]

\* found is the workflow a message's handler read, bound its account then,
\* handlers its active handlers then, and agent the one chosen.
Message == [pc : {"idle", "ended", "findSpecific", "findGeneric", "choose",
                  "run", "handled"},
            trigger : Triggers, account : Bindings,
            found : Workflows \cup {None}, bound : Bindings,
            handlers : SUBSET Agents, agent : Agents \cup {None}]

NoClick == [pc |-> "idle", org |-> None, workflow |-> None, agent |-> None,
            role |-> "HANDLER", trigger |-> "EMAIL", account |-> None]

Connected == {accounts[k] : k \in DOMAIN accounts}

Present == {a \in Agents : agents[a] # "GONE"}

TypeOK ==
    /\ workflows \in [Workflows -> Row]
    /\ members \in MemberRows
    /\ agents \in [Agents -> {"ACTIVE", "ARCHIVED", "GONE"}]
    /\ accounts \in Seq(Accounts)
    /\ spent \subseteq Accounts
    /\ click \in [Clicks -> Click]
    /\ msg \in [Messages -> Message]
    /\ ForeignKeys(workflows, members, Present, Connected)

Init ==
    /\ workflows = Setup.workflows
    /\ members = Setup.members
    /\ agents = [a \in Agents |-> "ACTIVE"]
    /\ accounts = Setup.accounts
    /\ spent = {accounts[k] : k \in DOMAIN accounts}
    /\ click = [c \in Clicks |-> NoClick]
    /\ msg = [m \in Messages |->
           [pc |-> "idle", trigger |-> "EMAIL", account |-> None,
            found |-> None, bound |-> None, handlers |-> {}, agent |-> None]]

At(c, l) == click[c].pc = l

\* A click that is over leaves nothing: the next one starts afresh.
Goto(c, l) ==
    click' = [click EXCEPT ![c] =
                  IF l = "idle" THEN NoClick ELSE [@ EXCEPT !.pc = l]]

-----------------------------------------------------------------------------
(* Accounts and agents: actions of one call.                                *)

\* upsertIntegration with a name not seen before.
Connect(a) ==
    /\ a \notin spent
    /\ accounts' = Append(accounts, a)
    /\ spent' = spent \cup {a}
    /\ UNCHANGED <<workflows, members, agents, click, msg>>

\* deleteIntegration.  The foreign key of Workflow is ON DELETE SET NULL.
Disconnect(a) ==
    /\ a \in Disconnectable \cap Connected
    /\ \E k \in DOMAIN accounts :
          /\ accounts[k] = a
          /\ accounts' = [j \in 1 .. Len(accounts) - 1 |->
                             accounts[IF j < k THEN j ELSE j + 1]]
    /\ workflows' = [w \in Workflows |->
           IF workflows[w].account = a
           THEN [workflows[w] EXCEPT !.account = None] ELSE workflows[w]]
    /\ UNCHANGED <<members, agents, spent, click, msg>>

\* updateAgentStatus.  ARCHIVED stands for DRAFT too: neither is dispatched to.
SetAgentStatus(a) ==
    /\ a \in Removable
    /\ agents[a] # "GONE"
    /\ \E status \in {"ACTIVE", "ARCHIVED"} \ {agents[a]} :
          agents' = [agents EXCEPT ![a] = status]
    /\ UNCHANGED <<workflows, members, accounts, spent, click, msg>>

\* The foreign key of AgentRun keeps an agent that has runs.
HasRuns(a) == \E m \in Messages : msg[m].pc = "handled" /\ msg[m].agent = a

\* deleteAgent, which takes the agent's memberships with it.
DeleteAgent(a) ==
    /\ a \in Removable
    /\ agents[a] # "GONE"
    /\ ~HasRuns(a)
    /\ agents' = [agents EXCEPT ![a] = "GONE"]
    /\ members' = [w \in Workflows |-> [members[w] EXCEPT ![a] = "NONE"]]
    /\ UNCHANGED <<workflows, accounts, spent, click, msg>>

\* removeMember.
RemoveMember(w, a) ==
    /\ a \in Removable
    /\ members[w][a] # "NONE"
    /\ members' = [members EXCEPT ![w][a] = "NONE"]
    /\ UNCHANGED <<workflows, agents, accounts, spent, click, msg>>

-----------------------------------------------------------------------------
(* The clicks of several calls.  A form may name any ids: they are looked   *)
(* up for the organisation of the session.                                  *)

\* A click on a workflow's page.
StartOnWorkflow(c, op, l) ==
    /\ op \in Ops
    /\ At(c, "idle")
    /\ \E org \in Orgs, w \in Workflows :
          click' = [click EXCEPT ![c].pc = l, ![c].org = org, ![c].workflow = w]
    /\ UNCHANGED <<workflows, members, agents, accounts, spent, msg>>

StartActivate(c) == StartOnWorkflow(c, "activate", "findToActivate")

StartDeactivate(c) == StartOnWorkflow(c, "deactivate", "findToDeactivate")

StartAdd(c) ==
    /\ "add" \in Ops
    /\ At(c, "idle")
    /\ \E org \in Orgs, w \in Workflows, a \in Agents, role \in Roles :
          click' = [click EXCEPT ![c].pc = "findToAdd", ![c].org = org,
                                 ![c].workflow = w, ![c].agent = a,
                                 ![c].role = role]
    /\ UNCHANGED <<workflows, members, agents, accounts, spent, msg>>

\* Mutant: a webhook workflow need not be bound.
NeedsAccount_never(trigger) == FALSE

\* TRIGGERS_REQUIRING_ACCOUNT.
NeedsAccount(trigger) == trigger = "WEBHOOK"

\* createWorkflow; without an account there is nothing to look up.
StartCreate(c) ==
    /\ "create" \in Ops
    /\ At(c, "idle")
    /\ \E org \in Orgs, trigger \in Triggers, account \in Bindings :
          /\ account = None => ~NeedsAccount(trigger)
          /\ click' = [click EXCEPT
                 ![c].pc = IF account = None THEN "insert" ELSE "validate",
                 ![c].org = org, ![c].trigger = trigger, ![c].account = account]
    /\ UNCHANGED <<workflows, members, agents, accounts, spent, msg>>

\* findWorkflowById.
OwnWorkflow(c) ==
    /\ workflows[click[c].workflow].status # "NONE"
    /\ OrgOf[click[c].workflow] = click[c].org

Activatable(w) == \A role \in Roles : \E a \in Agents : members[w][a] = role

\* Mutant: activate first, demote the others afterwards.
Then_swapped(l) ==
    CASE l = "find" -> "setActive"
      [] l = "setActive" -> "demote"
      [] l = "demote" -> "idle"

\* The order of the calls of activateWorkflow.
Then(l) ==
    CASE l = "find" -> "demote"
      [] l = "demote" -> "setActive"
      [] l = "setActive" -> "idle"

\* activateWorkflow's checks.  trigger and account are as read here.
FindToActivate(c) ==
    LET w == click[c].workflow
    IN  /\ At(c, "findToActivate")
        /\ IF OwnWorkflow(c) /\ Activatable(w)
           THEN click' = [click EXCEPT ![c].pc = Then("find"),
                                       ![c].trigger = workflows[w].trigger,
                                       ![c].account = workflows[w].account]
           ELSE Goto(c, "idle")
        /\ UNCHANGED <<workflows, members, agents, accounts, spent, msg>>

\* Mutant: only the generic workflows compete.
Competitors_generic(c) ==
    IF click[c].account # None THEN {}
    ELSE InSlot(workflows, click[c].org, click[c].trigger, None)
             \ {click[c].workflow}

Competitors(c) ==
    InSlot(workflows, click[c].org, click[c].trigger, click[c].account)
        \ {click[c].workflow}

\* deactivateOtherWorkflowsForTrigger.
Demote(c) ==
    /\ At(c, "demote")
    /\ workflows' = [w \in Workflows |->
           IF w \in Competitors(c) /\ workflows[w].status = "ACTIVE"
           THEN [workflows[w] EXCEPT !.status = "DRAFT"] ELSE workflows[w]]
    /\ Goto(c, Then("demote"))
    /\ UNCHANGED <<members, agents, accounts, spent, msg>>

\* setWorkflowStatus.
SetStatus(c, here, status, next) ==
    /\ At(c, here)
    /\ workflows' = [workflows EXCEPT ![click[c].workflow].status = status]
    /\ Goto(c, next)
    /\ UNCHANGED <<members, agents, accounts, spent, msg>>

SetActive(c) == SetStatus(c, "setActive", "ACTIVE", Then("setActive"))

FindToDeactivate(c) ==
    /\ At(c, "findToDeactivate")
    /\ Goto(c, IF OwnWorkflow(c) THEN "setDraft" ELSE "idle")
    /\ UNCHANGED <<workflows, members, agents, accounts, spent, msg>>

SetDraft(c) == SetStatus(c, "setDraft", "DRAFT", "idle")

FindToAdd(c) ==
    /\ At(c, "findToAdd")
    /\ Goto(c, IF OwnWorkflow(c) THEN "findAgent" ELSE "idle")
    /\ UNCHANGED <<workflows, members, agents, accounts, spent, msg>>

\* Mutant: the agent is looked up without its organisation.
OwnAgent_anyOrg(c) == agents[click[c].agent] # "GONE"

\* findAgentById.
OwnAgent(c) ==
    /\ agents[click[c].agent] # "GONE"
    /\ OrgOf[click[c].agent] = click[c].org

FindAgent(c) ==
    /\ At(c, "findAgent")
    /\ Goto(c, IF OwnAgent(c) THEN "upsert" ELSE "idle")
    /\ UNCHANGED <<workflows, members, agents, accounts, spent, msg>>

\* Mutant: no foreign key stops the insert.
Insertable_always(c) == TRUE

\* The foreign key of WorkflowAgent: the agent may be gone by now.
Insertable(c) == click[c].agent \in Present

\* addWorkflowMember.
Upsert(c) ==
    /\ At(c, "upsert")
    /\ members' = IF ~Insertable(c) THEN members
                  ELSE [members EXCEPT
                            ![click[c].workflow][click[c].agent] = click[c].role]
    /\ Goto(c, "idle")
    /\ UNCHANGED <<workflows, agents, accounts, spent, msg>>

\* Mutant: the account is looked up without its organisation.
Accepted_anyOrg(c) ==
    /\ click[c].account \in Connected
    /\ ProviderOf[click[c].account] \in ProvidersFor(click[c].trigger)

Accepted(c) ==
    /\ click[c].account \in Connected
    /\ Bindable(click[c].org, click[c].trigger, click[c].account)

\* validateTriggerIntegration.
Validate(c) ==
    /\ At(c, "validate")
    /\ Goto(c, IF Accepted(c) THEN "insert" ELSE "idle")
    /\ UNCHANGED <<workflows, members, agents, accounts, spent, msg>>

\* workflowRepository.createWorkflow: a DRAFT under a new id.  The insert fails
\* if the account is gone by now.
Insert(c) ==
    /\ At(c, "insert")
    /\ \/ /\ click[c].account \in Connected \cup {None}
          /\ \E w \in Workflows :
                /\ workflows[w].status = "NONE"
                /\ OrgOf[w] = click[c].org
                /\ workflows' = [workflows EXCEPT
                       ![w] = [status |-> "DRAFT", trigger |-> click[c].trigger,
                               account |-> click[c].account]]
       \/ /\ click[c].account \notin Connected \cup {None}
          /\ UNCHANGED workflows
    /\ Goto(c, "idle")
    /\ UNCHANGED <<members, agents, accounts, spent, msg>>

\* A call throws or the process dies: nothing goes on with the click.
Abandon(c) ==
    /\ Faults
    /\ ~At(c, "idle")
    /\ Goto(c, "idle")
    /\ UNCHANGED <<workflows, members, agents, accounts, spent, msg>>

-----------------------------------------------------------------------------
(* Messages.                                                                *)

\* getDefaultIntegrationByProvider: the earliest connected.
Default(a) ==
    \E k \in DOMAIN accounts :
        /\ accounts[k] = a
        /\ \A j \in 1 .. k - 1 :
              \/ OrgOf[accounts[j]] # OrgOf[a]
              \/ ProviderOf[accounts[j]] # ProviderOf[a]

\* A webhook is delivered to its own URL; the inbox check reads the default
\* account of each mail provider.
Receives(a, trigger) ==
    /\ a \in Connected
    /\ ProviderOf[a] \in ProvidersFor(trigger)
    /\ trigger = "EMAIL" => Default(a)

Arrive(m) ==
    /\ msg[m].pc = "idle"
    /\ \E a \in Accounts, trigger \in Triggers :
          /\ Receives(a, trigger)
          /\ msg' = [msg EXCEPT ![m].pc = "findSpecific",
                                ![m].trigger = trigger, ![m].account = a]
    /\ UNCHANGED <<workflows, members, agents, accounts, spent, click>>

\* findActiveWorkflowByTrigger may return any of the matching rows.
Matching(m, account) ==
    ActiveInSlot(workflows, OrgOf[msg[m].account], msg[m].trigger, account)

Classified(w) == \E a \in Agents : members[w][a] = "CLASSIFIER"

\* Mutant: the handlers of every workflow.
ActiveHandlers_all(w) ==
    {a \in Agents : agents[a] = "ACTIVE" /\ \E v \in Workflows : members[v][a] = "HANDLER"}

ActiveHandlers(w) ==
    {a \in Agents : members[w][a] = "HANDLER" /\ agents[a] = "ACTIVE"}

\* The workflow is read with its members and their agents at once.
Found(m, w) ==
    msg' = IF Classified(w) /\ ActiveHandlers(w) # {}
           THEN [msg EXCEPT ![m].pc = "choose", ![m].found = w,
                            ![m].bound = workflows[w].account,
                            ![m].handlers = ActiveHandlers(w)]
           ELSE [msg EXCEPT ![m].pc = "ended"]

\* Mutant: the generic workflow is looked up first.
FindSpecific_genericFirst(m) ==
    /\ msg[m].pc = "findSpecific"
    /\ \/ \E w \in Matching(m, None) : Found(m, w)
       \/ /\ Matching(m, None) = {}
          /\ \E w \in Matching(m, msg[m].account) : Found(m, w)
       \/ /\ Matching(m, None) \cup Matching(m, msg[m].account) = {}
          /\ msg' = [msg EXCEPT ![m].pc = "ended"]
    /\ UNCHANGED <<workflows, members, agents, accounts, spent, click>>

\* findActiveWorkflowForDispatch: first the workflow bound to the account,
FindSpecific(m) ==
    /\ msg[m].pc = "findSpecific"
    /\ \/ \E w \in Matching(m, msg[m].account) : Found(m, w)
       \/ /\ Matching(m, msg[m].account) = {}
          /\ msg' = [msg EXCEPT ![m].pc = "findGeneric"]
    /\ UNCHANGED <<workflows, members, agents, accounts, spent, click>>

\* then the generic one.
FindGeneric(m) ==
    /\ msg[m].pc = "findGeneric"
    /\ \/ \E w \in Matching(m, None) : Found(m, w)
       \/ /\ Matching(m, None) = {}
          /\ msg' = [msg EXCEPT ![m].pc = "ended"]
    /\ UNCHANGED <<workflows, members, agents, accounts, spent, click>>

\* A single handler is taken; otherwise the keywords or the classifier choose
\* one, or none.
Choose(m) ==
    /\ msg[m].pc = "choose"
    /\ \/ \E a \in msg[m].handlers :
             msg' = [msg EXCEPT ![m].pc = "run", ![m].agent = a,
                                ![m].handlers = {}]
       \/ /\ Cardinality(msg[m].handlers) > 1
          /\ msg' = [msg EXCEPT ![m].pc = "ended", ![m].handlers = {}]
    /\ UNCHANGED <<workflows, members, agents, accounts, spent, click>>

\* runAgentByExecutionMode creates the run, which fails if the agent is gone.
Run(m) ==
    /\ msg[m].pc = "run"
    /\ msg' = [msg EXCEPT ![m].pc = IF agents[msg[m].agent] = "GONE"
                                    THEN "ended" ELSE "handled"]
    /\ UNCHANGED <<workflows, members, agents, accounts, spent, click>>

-----------------------------------------------------------------------------

Start(c) == StartActivate(c) \/ StartDeactivate(c) \/ StartAdd(c) \/ StartCreate(c)

Work(c) ==
    \/ FindToActivate(c) \/ Demote(c) \/ SetActive(c)
    \/ FindToDeactivate(c) \/ SetDraft(c)
    \/ FindToAdd(c) \/ FindAgent(c) \/ Upsert(c)
    \/ Validate(c) \/ Insert(c)

Deliver(m) ==
    Arrive(m) \/ FindSpecific(m) \/ FindGeneric(m) \/ Choose(m) \/ Run(m)

Next ==
    \/ \E a \in Accounts : Connect(a) \/ Disconnect(a)
    \/ \E a \in Agents : SetAgentStatus(a) \/ DeleteAgent(a)
    \/ \E w \in Workflows, a \in Agents : RemoveMember(w, a)
    \/ \E c \in Clicks : Start(c) \/ Work(c) \/ Abandon(c)
    \/ \E m \in Messages : Deliver(m)

Spec == Init /\ [][Next]_vars

\* A click that has started goes on: the calls it awaits return.
FairSpec == Spec /\ \A c \in Clicks : WF_vars(Work(c))
-----------------------------------------------------------------------------
(* Properties.                                                              *)

\* At most one workflow per organisation, trigger and account is ACTIVE
\* (schema.prisma, Workflow.status), when clicks come one at a time and no
\* account is disconnected: an activation puts the others back to DRAFT.
OneActivePerSlot == AtMostOneActive(workflows)

\* A workflow's members are agents of its own organisation, whatever ids the
\* forms name and whatever happens between the two look-ups.
MembersScoped == ScopedMembers(members)

\* A workflow is bound to a connected account of its own organisation, of a
\* provider its trigger allows, whatever account the form names and whenever
\* that account is disconnected.
BindingsScoped == ScopedBindings(workflows)

\* No workflow has a member or a binding of another organisation.
ScopesKept == MembersScoped /\ BindingsScoped

\* A message is handled by an agent of the organisation whose account it
\* arrived on.
HandledAtHome ==
    \A m \in Messages :
        msg[m].agent # None => OrgOf[msg[m].agent] = OrgOf[msg[m].account]

\* A message on an account that has its own ACTIVE workflow is not handled by
\* the generic one, as long as no other workflow competes for the account.
SpecificFirst ==
    \A m \in Messages :
        msg[m].pc = "run" /\ msg[m].bound = None
            => Matching(m, msg[m].account) = {}

\* "A null-bound ACTIVE WEBHOOK workflow can never exist": the look-up of the
\* generic workflow finds nothing for a webhook's message, as long as the
\* account of no webhook workflow is disconnected.
WebhookNeverGeneric ==
    \A w \in Workflows :
        workflows[w].status = "ACTIVE" /\ workflows[w].trigger = "WEBHOOK"
            => workflows[w].account # None

\* Once a slot has an ACTIVE workflow it has one again and again, however the
\* activations that compete for it overlap: each of them ends with a workflow
\* in place.
SlotStaysServed ==
    \A org \in Orgs, trigger \in Triggers, account \in Bindings :
        LET served == ActiveInSlot(workflows, org, trigger, account) # {}
        IN  [](served => []<>served)

\* Mutant: the mailbox is not looked at.
Warnings_noMailbox(w) ==
    IF workflows[w].status # "ACTIVE" THEN {}
    ELSE {x \in {"noClassifier", "noHandler"} :
            IF x = "noClassifier" THEN ~Classified(w) ELSE ActiveHandlers(w) = {}}

\* getWorkflowWarnings.
Warnings(w) ==
    IF workflows[w].status # "ACTIVE" THEN {}
    ELSE {x \in {"noClassifier", "noHandler", "noMailbox"} :
            CASE x = "noClassifier" -> ~Classified(w)
              [] x = "noHandler" -> ActiveHandlers(w) = {}
              [] x = "noMailbox" ->
                    /\ workflows[w].trigger = "EMAIL"
                    /\ workflows[w].account = None
                    /\ ~\E a \in Connected :
                          /\ OrgOf[a] = OrgOf[w]
                          /\ ProviderOf[a] \in ProvidersFor("EMAIL")}

\* An ACTIVE workflow that no message of its organisation could make run an
\* agent, because it has no connected account for its trigger, no classifier or
\* no active handler, is shown with a warning.
CanRun(w) ==
    /\ Classified(w)
    /\ ActiveHandlers(w) # {}
    /\ \E a \in Connected :
          /\ OrgOf[a] = OrgOf[w]
          /\ ProviderOf[a] \in ProvidersFor(workflows[w].trigger)
          /\ workflows[w].account \in {None, a}

WarnedWhenIdle ==
    \A w \in Workflows :
        workflows[w].status = "ACTIVE" /\ ~CanRun(w) => Warnings(w) # {}

\* An ACTIVE workflow gets messages, or people are told why not.
ActiveMeansServed == WebhookNeverGeneric /\ WarnedWhenIdle
=============================================================================
