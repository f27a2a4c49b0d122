----------------------------- MODULE Provisioning -----------------------------
(***************************************************************************)
(* The rows of one organisation: getCurrentOrganisation, which creates its *)
(* row at the first request and provisions it with the starter workflow,   *)
(* the edits of its agents, and deleteOrganisation.  Each awaited query or *)
(* request is a step.                                                      *)
(*                                                                         *)
(* The ids of the starter rows are made of the organisation's own id: rows *)
(* of an earlier, deleted organisation are never those of a later one.     *)
(***************************************************************************)
EXTENDS Templates

CONSTANTS
    Starters,       \* the starter agents, in order, the classifier first
    Custom,         \* the ids of agents a business may create
    StarterTypes,   \* STARTER_RECORD_TYPES, in order
    TemplateTools,  \* the tools of each starter agent
    Editors,        \* the requests that create or update an agent
    EditorTools,    \* the tools each submits
    Requests,       \* the requests of signed-in people
    None,
    MaxOrganisations \* bound: local rows ever created

StarterAgents == {Starters[i] : i \in DOMAIN Starters}
Agents == StarterAgents \cup Custom
Types == {StarterTypes[i] : i \in DOMAIN StarterTypes}
Writers == {"template"} \cup Editors
Tools == UNION ({TemplateTools[a] : a \in StarterAgents}
                  \cup {EditorTools[e] : e \in Editors})

ASSUME ProvisioningAssumption ==
    /\ Starters \in Seq(StarterAgents) /\ Starters # <<>>
    /\ StarterTypes \in Seq(Types) /\ StarterTypes # <<>>
    /\ "template" \notin Editors /\ Editors \cap Requests = {}
    /\ Custom \cap StarterAgents = {}
    /\ None \notin Agents \cup Writers
    /\ MaxOrganisations \in Nat \ {0}

VARIABLES
    organisation,   \* the id of the row of the Clerk organisation, or 0
    lastOrganisation,
    clerkOrganisation, \* does Clerk still have it?
    currency,       \* has the row its currency?
    agents,         \* the Agent rows: whose edit its columns come from
    tools,          \* the AgentTool rows of each agent, with their writer
    types,          \* the names of its record types
    workflow,       \* is the starter workflow there?
    members,        \* the agents that are its members
    documents,      \* has it knowledge documents?
    request,        \* the local state of each request
    grant,          \* the local state of each setToolsForAgent
    mixed,          \* ghost: agents whose edits overlapped or broke off
    interrupted,    \* ghost: did the provisioning of the row break off?
    altered,        \* ghost: starter agents and types people edited or removed
    revived         \* ghost: was the row created after its deletion began?

orgRow == <<organisation, lastOrganisation, clerkOrganisation, documents>>
ownRows == <<currency, agents, tools, types, workflow, members>>
ghosts == <<mixed, interrupted, altered, revived>>
provisioningVars == <<orgRow, ownRows, request, grant, ghosts>>

ToolRow == Tools \X Writers

\* seen are the rows its deleteMany saw.
Grant == [pc : {"idle", "clear", "insert", "done"}, agent : Agents \cup {None},
          row : 0 .. MaxOrganisations, seen : SUBSET ToolRow]
NoGrant == [pc |-> "idle", agent |-> None, row |-> 0, seen |-> {}]

RequestPc ==
    {"idle", "lookup", "fetch", "create", "reread", "currency", "agent", "grant",
     "type", "newtype", "workflow", "member", "resolved", "cascade", "clerk"}

\* row is the row getCurrentOrganisation works on, at the place in a list.
Request == [pc : RequestPc, row : 0 .. MaxOrganisations, at : Nat]
NoRequest == [pc |-> "idle", row |-> 0, at |-> 0]

Founded == "founded" \in cast

\* An organisation that nobody has signed in to, or one provisioned long ago.
ProvisioningInit ==
    /\ organisation = (IF Founded THEN 1 ELSE 0) /\ lastOrganisation = organisation
    /\ clerkOrganisation = TRUE
    /\ currency = Founded /\ workflow = Founded
    /\ agents = [a \in Agents |->
           IF Founded /\ a \in StarterAgents THEN "template" ELSE None]
    /\ tools = [a \in Agents |->
           IF Founded /\ a \in StarterAgents THEN TemplateTools[a] \X {"template"} ELSE {}]
    /\ types = (IF Founded THEN Types ELSE {})
    /\ members = (IF Founded THEN StarterAgents ELSE {})
    /\ documents = FALSE
    /\ request = [r \in Requests |-> NoRequest]
    /\ grant = [w \in Editors \cup Requests |-> NoGrant]
    /\ mixed = {} /\ interrupted = FALSE /\ altered = {} /\ revived = FALSE

Wanted(w, a) == IF w \in Editors THEN EditorTools[w] ELSE TemplateTools[a]

WriterOf(w) == IF w \in Editors THEN w ELSE "template"

-----------------------------------------------------------------------------
(* getCurrentOrganisation.                                                  *)

To(r, k) == request' = [request EXCEPT ![r] = k]

Provisioning == {"currency", "agent", "grant", "type", "newtype", "workflow", "member"}

\* A row the request refers to, or wants to, is there no more.
IsGone(r) == organisation # request[r].row

\* What throws within the try: a unique constraint sends the request to
\* re-read the row, anything else fails it.
Throws(r, unique) ==
    /\ To(r, IF unique THEN [NoRequest EXCEPT !.pc = "reread"] ELSE NoRequest)
    /\ grant' = [grant EXCEPT ![r] = NoGrant]
    /\ interrupted' = (interrupted \/ (request[r].pc \in Provisioning /\ ~IsGone(r)))
    /\ mixed' = IF grant[r].pc \in {"clear", "insert"} /\ ~IsGone(r)
                THEN mixed \cup {grant[r].agent} ELSE mixed

StartRequest(r) ==
    /\ r \in cast
    /\ request[r].pc = "idle"
    /\ clerkOrganisation
    /\ To(r, [NoRequest EXCEPT !.pc = "lookup"])
    /\ UNCHANGED <<orgRow, ownRows, grant, ghosts>>

\* An existing row is returned as it is.
Lookup(r) ==
    /\ request[r].pc = "lookup"
    /\ To(r, IF organisation # 0
             THEN [NoRequest EXCEPT !.pc = "resolved", !.row = organisation]
             ELSE [NoRequest EXCEPT !.pc = "fetch"])
    /\ UNCHANGED <<orgRow, ownRows, grant, ghosts>>

\* Clerk is asked for the name.
Fetch(r) ==
    /\ request[r].pc = "fetch"
    /\ To(r, IF clerkOrganisation THEN [NoRequest EXCEPT !.pc = "create"] ELSE NoRequest)
    /\ UNCHANGED <<orgRow, ownRows, grant, ghosts>>

IsDissolving == ~clerkOrganisation \/ \E d \in Requests : request[d].pc = "clerk"

\* The first to create the row provisions it.
CreateOrganisation(r) ==
    /\ request[r].pc = "create"
    /\ \/ /\ organisation = 0
          /\ lastOrganisation < MaxOrganisations
          /\ organisation' = lastOrganisation + 1
          /\ lastOrganisation' = lastOrganisation + 1
          /\ To(r, [NoRequest EXCEPT !.pc = "currency", !.row = lastOrganisation + 1])
          /\ revived' = (revived \/ IsDissolving)
          /\ UNCHANGED <<grant, mixed, interrupted, altered>>
       \/ /\ organisation # 0
          /\ Throws(r, TRUE)
          /\ UNCHANGED <<organisation, lastOrganisation, revived, altered>>
    /\ UNCHANGED <<clerkOrganisation, ownRows, documents>>

\* findUniqueOrThrow.
Reread(r) ==
    /\ request[r].pc = "reread"
    /\ To(r, IF organisation # 0
             THEN [NoRequest EXCEPT !.pc = "resolved", !.row = organisation]
             ELSE NoRequest)
    /\ UNCHANGED <<orgRow, ownRows, grant, ghosts>>

-----------------------------------------------------------------------------
(* provisionEmailWorkflow: every row refers to one that may have gone.      *)

\* A statement of the provisioning: what it does, unless it throws.
Provision(r, pc, does, next) ==
    /\ request[r].pc = pc
    /\ \/ /\ ~IsGone(r)
          /\ does
          /\ To(r, next)
          /\ UNCHANGED <<grant, mixed, interrupted>>
       \/ /\ IsGone(r)
          /\ Throws(r, FALSE)
          /\ UNCHANGED ownRows
    /\ UNCHANGED <<orgRow, altered, revived>>

At(r, pc, at) == [request[r] EXCEPT !.pc = pc, !.at = at]

SetCurrency(r) ==
    Provision(r, "currency",
        currency' = TRUE /\ UNCHANGED <<agents, tools, types, workflow, members>>,
        At(r, "agent", 1))

\* Who is between the columns of an agent and its tools.
IsAtWork(a) ==
    \E w \in DOMAIN grant : grant[w].pc \in {"clear", "insert"} /\ grant[w].agent = a

\* The agent is upserted by its id, and its tools are set next.
UpsertAgent(r) ==
    LET a == Starters[request[r].at]
    IN  /\ request[r].pc = "agent"
        /\ \/ /\ ~IsGone(r)
              /\ agents' = [agents EXCEPT ![a] = "template"]
              /\ To(r, At(r, "grant", request[r].at))
              /\ grant' = [grant EXCEPT ![r] =
                     [NoGrant EXCEPT !.pc = "clear", !.agent = a, !.row = organisation]]
              /\ mixed' = IF IsAtWork(a) THEN mixed \cup {a} ELSE mixed
              /\ UNCHANGED interrupted
           \/ /\ IsGone(r)
              /\ Throws(r, FALSE)
              /\ UNCHANGED agents
        /\ UNCHANGED <<orgRow, currency, tools, types, workflow, members, altered, revived>>

\* Mutant: a type that is there ends the seeding.
AfterType_returns(r, found) ==
    IF found \/ request[r].at = Len(StarterTypes) THEN At(r, "workflow", 0)
    ELSE At(r, "type", request[r].at + 1)

\* seedStarterRecordTypes goes on to the next type, at last to the workflow.
AfterType(r, found) ==
    IF request[r].at = Len(StarterTypes) THEN At(r, "workflow", 0)
    ELSE At(r, "type", request[r].at + 1)

FindType(r) ==
    /\ request[r].pc = "type"
    /\ To(r, IF ~IsGone(r) /\ StarterTypes[request[r].at] \in types
             THEN AfterType(r, TRUE) ELSE [request[r] EXCEPT !.pc = "newtype"])
    /\ UNCHANGED <<orgRow, ownRows, grant, ghosts>>

\* Somebody may have created a type of that name meanwhile.
CreateType(r) ==
    LET t == StarterTypes[request[r].at]
    IN  /\ request[r].pc = "newtype"
        /\ \/ /\ ~IsGone(r) /\ t \notin types
              /\ types' = types \cup {t}
              /\ To(r, AfterType(r, FALSE))
              /\ UNCHANGED <<grant, mixed, interrupted>>
           \/ /\ IsGone(r) \/ t \in types
              /\ Throws(r, ~IsGone(r))
              /\ UNCHANGED types
        /\ UNCHANGED <<orgRow, currency, agents, tools, workflow, members,
                       altered, revived>>

UpsertWorkflow(r) ==
    Provision(r, "workflow",
        workflow' = TRUE /\ UNCHANGED <<currency, agents, tools, types, members>>,
        At(r, "member", 1))

\* An agent that was deleted meanwhile is no member: its foreign key fails.
UpsertMember(r) ==
    LET a == Starters[request[r].at]
    IN  /\ request[r].pc = "member"
        /\ \/ /\ ~IsGone(r) /\ agents[a] # None
              /\ members' = members \cup {a}
              /\ To(r, IF request[r].at = Len(Starters) THEN At(r, "resolved", 0)
                       ELSE At(r, "member", request[r].at + 1))
              /\ UNCHANGED <<grant, mixed, interrupted>>
           \/ /\ IsGone(r) \/ agents[a] = None
              /\ Throws(r, FALSE)
              /\ UNCHANGED members
        /\ UNCHANGED <<orgRow, currency, agents, tools, types, workflow, altered, revived>>

-----------------------------------------------------------------------------
(* Edits of agents, and setToolsForAgent.                                   *)

\* createAgent, or the columns of updateAgent.
WriteColumns(e) ==
    /\ e \in cast
    /\ grant[e].pc = "idle"
    /\ organisation # 0
    /\ \E a \in Agents :
          /\ agents[a] # None \/ a \in Custom
          /\ agents' = [agents EXCEPT ![a] = e]
          /\ grant' = [grant EXCEPT ![e] =
                 [NoGrant EXCEPT !.pc = "clear", !.agent = a, !.row = organisation]]
          /\ altered' = altered \cup ({a} \cap StarterAgents)
          /\ mixed' = IF IsAtWork(a) THEN mixed \cup {a} ELSE mixed
    /\ UNCHANGED <<orgRow, currency, tools, types, workflow, members, request,
                   interrupted, revived>>

\* Is the agent of w's grant there?
HasAgent(w) == grant[w].row = organisation /\ agents[grant[w].agent] # None

\* Within a transaction the rows there are deleted,
ClearTools(w) ==
    /\ grant[w].pc = "clear"
    /\ grant' = [grant EXCEPT ![w].pc = "insert",
           ![w].seen = IF HasAgent(w) THEN tools[grant[w].agent] ELSE {}]
    /\ UNCHANGED <<orgRow, ownRows, request, ghosts>>

\* Mutant: rows are only added.
Kept_all(w) == tools[grant[w].agent]

\* The rows that were not there when the transaction deleted those it saw.
Kept(w) == tools[grant[w].agent] \ grant[w].seen

EditBreaks(e) ==
    /\ grant' = [grant EXCEPT ![e] = [NoGrant EXCEPT !.pc = "done"]]
    /\ mixed' = IF grant[e].row = organisation THEN mixed \cup {grant[e].agent} ELSE mixed
    /\ UNCHANGED <<request, interrupted>>

NextAgent(r) ==
    IF request[r].at = Len(Starters) THEN At(r, "type", 1)
    ELSE At(r, "agent", request[r].at + 1)

\* and the new ones created, unless one of another transaction is in the way.
InsertTools(w) ==
    LET a == grant[w].agent
        want == Wanted(w, a)
        clash == HasAgent(w) /\ \E row \in Kept(w) : row[1] \in want
    IN  /\ grant[w].pc = "insert"
        /\ \/ /\ HasAgent(w) /\ ~clash
              /\ tools' = [tools EXCEPT ![a] = Kept(w) \cup (want \X {WriterOf(w)})]
              /\ grant' = [grant EXCEPT ![w] =
                     IF w \in Editors THEN [NoGrant EXCEPT !.pc = "done"] ELSE NoGrant]
              /\ IF w \in Editors THEN UNCHANGED request ELSE To(w, NextAgent(w))
              /\ UNCHANGED <<mixed, interrupted>>
           \/ /\ ~HasAgent(w) \/ clash
              /\ UNCHANGED tools
              /\ IF w \in Requests THEN Throws(w, clash)
                 ELSE EditBreaks(w)
        /\ UNCHANGED <<orgRow, currency, agents, types, workflow, members, altered,
                       revived>>

\* deleteAgent: its tools and memberships go with it.
DeleteAgent(a) ==
    /\ "edits" \in cast
    /\ agents[a] # None
    /\ agents' = [agents EXCEPT ![a] = None]
    /\ tools' = [tools EXCEPT ![a] = {}]
    /\ members' = members \ {a}
    /\ altered' = altered \cup ({a} \cap StarterAgents)
    /\ UNCHANGED <<orgRow, currency, types, workflow, request, grant, mixed,
                   interrupted, revived>>

\* A type of a starter's name is created or deleted in the catalog.
EditTypes ==
    /\ "edits" \in cast
    /\ organisation # 0
    /\ \E t \in Types :
          \/ /\ types' = types \cup {t}
             /\ UNCHANGED altered
          \/ /\ types' = types \ {t}
             /\ altered' = altered \cup {t}
    /\ UNCHANGED <<orgRow, currency, agents, tools, workflow, members, request,
                   grant, mixed, interrupted, revived>>

\* A knowledge document is added or deleted.
EditDocuments ==
    /\ "documents" \in cast
    /\ organisation # 0
    /\ documents' = ~documents
    /\ UNCHANGED <<organisation, lastOrganisation, clerkOrganisation, ownRows,
                   request, grant, ghosts>>

-----------------------------------------------------------------------------
(* deleteOrganisation.                                                      *)

\* Mutant: Clerk's organisation goes first.
DeletionOrder_clerkFirst == <<"clerk", "cascade">>

\* The local rows first, Clerk's organisation second.
DeletionOrder == <<"cascade", "clerk">>

AfterStep(r, step) ==
    IF step = DeletionOrder[1] THEN [request[r] EXCEPT !.pc = DeletionOrder[2]]
    ELSE NoRequest

StartDissolve(r) ==
    /\ "dissolve" \in cast
    /\ request[r].pc = "resolved"
    /\ To(r, [request[r] EXCEPT !.pc = DeletionOrder[1]])
    /\ UNCHANGED <<orgRow, ownRows, grant, ghosts>>

\* The tables the cascade does not name refer to the organisation.
IsReferredTo == documents \/ \E t \in templates : t.owner = "ours"

\* deleteOrganisationCascade, one transaction.
Cascade(r) ==
    /\ request[r].pc = "cascade"
    /\ \/ /\ ~IsGone(r) /\ ~IsReferredTo
          /\ organisation' = 0
          /\ currency' = FALSE /\ workflow' = FALSE
          /\ agents' = [a \in Agents |-> None]
          /\ tools' = [a \in Agents |-> {}]
          /\ types' = {} /\ members' = {}
          /\ mixed' = {} /\ interrupted' = FALSE /\ altered' = {}
          /\ To(r, AfterStep(r, "cascade"))
       \/ /\ IsGone(r) \/ IsReferredTo
          /\ To(r, NoRequest)
          /\ UNCHANGED <<organisation, ownRows, mixed, interrupted, altered>>
    /\ UNCHANGED <<lastOrganisation, clerkOrganisation, documents, grant, revived>>

DissolveClerk(r) ==
    /\ request[r].pc = "clerk"
    /\ clerkOrganisation' = FALSE
    /\ To(r, AfterStep(r, "clerk"))
    /\ UNCHANGED <<organisation, lastOrganisation, documents, ownRows, grant, ghosts>>

-----------------------------------------------------------------------------

\* Any query or request may fail, or the process die.
RequestFails(r) ==
    /\ Faults
    /\ request[r].pc \notin {"idle", "resolved"}
    /\ Throws(r, FALSE)
    /\ UNCHANGED <<orgRow, ownRows, altered, revived>>

EditFails(e) ==
    /\ Faults
    /\ grant[e].pc \in {"clear", "insert"}
    /\ EditBreaks(e)
    /\ UNCHANGED <<orgRow, ownRows, altered, revived>>

ProvisioningNext ==
    \/ \E r \in Requests :
          \/ Lookup(r) \/ Fetch(r) \/ CreateOrganisation(r) \/ Reread(r)
          \/ SetCurrency(r) \/ UpsertAgent(r) \/ FindType(r)
          \/ CreateType(r) \/ UpsertWorkflow(r) \/ UpsertMember(r)
          \/ StartDissolve(r) \/ Cascade(r) \/ DissolveClerk(r) \/ RequestFails(r)
    \/ \E e \in Editors : WriteColumns(e) \/ EditFails(e)
    \/ \E w \in Editors \cup Requests : ClearTools(w) \/ InsertTools(w)
    \/ \E a \in Agents : DeleteAgent(a)
    \/ EditTypes \/ EditDocuments

-----------------------------------------------------------------------------

\* An organisation that nobody is provisioning any more, and whose provisioning
\* did not break off, has everything of the starter workflow that people have
\* not changed since: a request that comes while it is under way gets the row,
\* and may edit it, already.
Complete ==
    \/ organisation = 0 \/ interrupted
    \/ \E r \in Requests : request[r].pc \in Provisioning /\ ~IsGone(r)
    \/ /\ currency /\ workflow
       /\ Types \subseteq types \cup altered
       /\ StarterAgents \subseteq members \cup altered
       /\ \A a \in StarterAgents \ altered :
             tools[a] = TemplateTools[a] \X {"template"}

\* An agent's tools are those submitted with its columns ("replaces an agent's
\* tool grants wholesale"), unless two edits of it overlapped or one broke off.
GrantsWhole ==
    \A a \in Agents :
        agents[a] = None \/ a \in mixed \/ IsAtWork(a)
            \/ {row[1] : row \in tools[a]} = Wanted(agents[a], a)

\* Once Clerk's organisation is gone no local row is left under its id, where
\* nobody could reach it, unless a request that had seen the organisation
\* created the row anew between the two deletions.
NoOrphanRows == clerkOrganisation \/ organisation = 0 \/ revived

\* Provisioned rows are all there and edited ones agree with each other.
RowsWhole == Complete /\ GrantsWhole
=============================================================================
