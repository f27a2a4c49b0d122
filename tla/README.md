# Aperator: formal models, checks and proofs

Aperator is a multi-tenant web application (Next.js, Prisma, Postgres) in which
a business lets language-model agents answer its inbound messages.  A message
comes in through a mailbox or a webhook, a workflow's classifier picks an agent,
the agent runs, calls tools on an MCP server, and pauses for a human before any
tool that speaks to the outside.  This directory holds TLA+ models of that
program, the TLC configurations that check them on small instances, and the
theorems TLAPS proves for every instance.

Paths below are relative to the repository.

## How the program executes

There is no worker, queue or scheduler.  Everything happens inside request
handlers and server actions of a serverless deployment:

* every awaited Prisma call is a statement of its own that commits at once
  (only `setToolsForAgent` and `deleteOrganisationCascade` use a transaction),
  so two handlers interleave between any two awaited calls;
* nothing locks a row, and most updates are unconditional: a check is a read
  whose answer may be out of date by the time of the write;
* a handler that throws or whose process dies leaves what it wrote so far, and
  nothing takes its work up again;
* a user may click twice, two users may click at once, and a webhook may be
  delivered again.

The models take these four facts literally: one awaited call, one action.

## Inventory

| Component | State it keeps | Operations | What is hard about it | What makes it correct |
|---|---|---|---|---|
| **Agent runtime** `lib/runtime/`, `lib/runs/`, `lib/approvals/`, `app/(app)/runs/[id]/actions.ts` | `AgentRun` (status, saved conversation), `RunStep`, `ToolCall`, `Approval`; the handlers' local variables | `runAgent`, `runLoop`, `resumeRun`, `executeAndRecordTool` | a run is worked on by several handlers in turn, and by overlapping ones when two people click; any call may throw; a process may die | a gated call executes only when approved, exactly as approved, once; a run ends or pauses, and ends once; the audit log explains the status |
| **Approval gate** `lib/policies/policy-engine.ts` | none (a fixed set of gated tools) | `requiresApprovalBeforeExecution`, `evaluatePolicy` | must hold on every path, not on the usual one | no gated call without a grant of that call |
| **Harness** `lib/harness/run-harness-pipeline.ts`, `propose-action.ts`, `pipelines/` | none of its own: writes the run's rows | `runHarnessPipeline`, the five pipelines, `proposeAction` | several writes with side effects in between; find-then-create on shared records | one proposal per run; one record per tracked item; effects in order |
| **Step engine** `lib/harness/steps/` | the variables of a programme | `runSteps`, `runLeafStep`, `compute`, conditions, value resolution | a step that reads what an earlier branch did not set; rounding; missing values | a step that cannot be evaluated stops the run and never guesses |
| **Workflows** `lib/workflows/` | `Workflow` (status, trigger, bound account), `WorkflowAgent` | create, activate, deactivate, add and remove members, provision, warnings | activation is find, check, demote the others, set; nothing in the database enforces one ACTIVE workflow per slot; disconnecting an account nulls the binding | at most one ACTIVE workflow per trigger and account; only members of the same organisation |
| **Routing** `lib/routing/` | none | `dispatchInboundMessage`, `deterministicClassify`, `classifyIntent` | reads a workflow, then runs an agent some calls later | a message goes to an active handler of the workflow of its own account, or nowhere |
| **Inbox and webhooks** `app/(app)/dashboard/actions.ts`, `app/api/webhooks/` | the mailbox's unread flags | `checkInboxAction`, `POST` | marking read comes after the run; no lock between two checks; a webhook may be delivered again | each message is answered once |
| **Integrations** `lib/integrations/` | `Integration` (tokens, expiry, secret) | connect, disconnect, `getValidAccessToken`, webhook secrets | two handlers refresh the same token; a disconnect during a refresh; the provider revokes or rotates | the newest credential is stored; a tool acts through the account it is pinned to, or the earliest connected one, or not at all |
| **Organisations and identity** `lib/organisations/`, `lib/auth/` | `Organisation`, `User` | `getCurrentOrganisation`, `requireUser`, deletion | provisioned lazily on the first request, by several requests at once; deletion removes rows in an order | one organisation per Clerk organisation, fully provisioned; nothing left behind |
| **Agents and templates** `lib/agents/` | `Agent`, `AgentTool`, `AgentTemplate` | create, update, archive, delete; save, list, seed templates | columns and tool grants are two writes; seeding is find-then-create | built-in templates exist once |
| **Records** `lib/entities/`, `lib/records/` | `CustomEntityType`, `CustomEntityRecord` (JSON data) | create, update, find by field, references | an update reads, merges and writes the whole JSON; the pipelines find and then create | an update changes only the fields it is given |
| **Knowledge** `lib/knowledge/` | `KnowledgeDocument`, `KnowledgeChunk` with vectors | chunking, add, delete, hybrid search | chunk sizes and overlap at their limits; embedding between two writes; fusing two rankings | no text is lost, no chunk is too long; a document is searchable in full or not there |
| **AI provider** `lib/ai/` | the organisation's provider settings | resolve, test, chat | settings may change during a run | the provider of the right organisation |
| **MCP server and tools** `lib/mcp/` | none; folders and files at Google Drive or SharePoint | record tools, file tools, `send_email`, `notify_channel`, calendar tools, `search_knowledge` | act on external systems without idempotency; attachments are fetched at once; find-then-create of folders | the right account, the whole message, one folder per path |
| **Provider clients** `lib/integrations/*/client.ts` | none | HTTP requests | pages, failures, lost answers | - |
| **Token encryption** `lib/crypto/` | none | AES-GCM | - | - |
| **Dashboard, settings, pages** `app/`, `components/` | none | rendering, forms | - | - |

## Modules

A module is written so that it can be proved about: parameters as constants with
named assumptions, an action per awaited call, no recursive operator.

| Module | Models | Composed with |
|---|---|---|
| `AgentRuntime`, `ApprovalGate` | one run and all handlers that touch it; what the gate promises | `AgentRuntime` implements `ApprovalGate` |
| `Workflows` | workflows, members, bindings, and the dispatch that reads them | - |
| `Accounts` | connected accounts, OAuth, token refresh, webhook secrets | - |
| `Tools` | the tools that act through an account | extends `Accounts` |
| `Inbound` | inbox checks, webhook deliveries, routing | extends `Tools` |
| `Records` | record types and records, record tools, catalog pages | - |
| `Drive` | folders and files, the file tools | - |
| `EntityPipelines` | the signal and the archive pipeline | extends `Records`, `Drive` |
| `Templates` | agent templates and their seeding | - |
| `Provisioning` | one organisation's rows, lazily created, and its deletion | extends `Templates` |
| `Tenancy` | the people of an organisation | extends `Provisioning` |
| `AIProvider`, `Chunking`, `Knowledge` | provider settings; splitting; documents and hybrid search | one extends the other |
| `Steps` | values, computations and conditions of a step programme | - |
| `Harness` | runs of step programmes and of the two reply pipelines | extends `Steps`, `Knowledge` |

`MCAgentRuntime`, `MCWorkflows`, `MCInbound`, `MCEntityPipelines`, `MCTenancy`
and `MCHarness` give the constants their values.  The theorems are in modules of
their own: `AgentRuntimeProofs` and `AgentHistoryProofs`, which goes on from it, about
`AgentRuntime`; `WorkflowsProofs` about `Workflows`; `AccountsProofs` and `InboundProofs` about `Inbound`, with
`Accounts` and `Tools` in it; `TenancyProofs` about `Tenancy`, with `Provisioning` and
`Templates` in it; `EntityPipelinesProofs` about `EntityPipelines`, with `Records` and
`Drive` in it; `HarnessProofs` about `Harness`, with `Knowledge` and `AIProvider` in it.

**Casts.**  Where many actors share rows, the constant `Casts` lists who is at work
together, and `Init` picks one cast: all interleavings of its members are explored,
those of actors of different casts are not.  It is a bound, like the number of
actors; each cast was chosen because its members touch the same rows.

**Grouped properties.**  A run checks a property with a name of its own for each
question; several are conjunctions (`Handled == RunOnce /\ ReadMeansRun /\ ...`) whose
parts are stated and commented one by one beside it, and each part has a mutant.

**Known races.**  Nothing locks a row, so some promises cannot hold of all
interleavings.  They are stated with the exact exception as a history variable
(`crossed`, `contested`, `raced`, `excused`, ...), which two actors can only enter
by reading before either wrote: the property then says that this one interleaving
is the only way to break the promise, and a mutant of the code breaks it otherwise.
The exceptions are listed with their hazards and below under Remarks.

## The agent runtime: `AgentRuntime`, `ApprovalGate`

**State.**  One run and every handler that ever touches it.  `run`, `steps`,
`toolCalls` and `approvals` are the rows; `agent` is the part of the agent's row
a run reads (execution mode and granted tools); `performed` is the history of
calls the MCP server was asked to execute; `req[i]` holds handler `i`'s local
variables and `pc`, the awaited call it makes next.  The `Starter` is the
dispatch that creates the run (`runAgent`, `runHarnessPipeline`); each member of
`Deciders` is one click on Approve or Reject (`resumeRun`).  Different runs share
no row, so one run is enough.

**Actions.**  One per awaited call, with the synchronous code up to the next
one.  `MarkRunStatus` and `AddRunStep` are the two repository functions most of
them instantiate.  `Throw` is a failing call: inside the `try` it leads to the
`catch` block, outside it ends the handler.  It fires before the call's effect
or, because the next label already stands for "effect done, answer lost", after
it.  `Crash` is the end of the process.  `EditAgent` is the agent form.

**Data.**  A tool call is its tool and the number of its proposal, so two
proposals of equal content are different calls.  A conversation is the set of
calls asked for and the set of calls answered.  Text, token counts and tool
arguments are left out.  `evaluatePolicy` allows every call in this version, so
its other answers are left out.  A pipeline is any sequence of ungated lookups
followed by one proposed action or an end: the five pipelines are instances.

| Run | Question | Result |
|---|---|---|
| `runtime_serial` | decisions one at a time, every kind of failure, two clicks | gate implemented, each proposal executed at most once, conversations sound, an ended run stays ended |
| `runtime_clean` | only the model fails; the agent's mode and tools are edited at any time | status, audit log, approvals and executions agree |
| `runtime_settles` | fair scheduling, a click at any time, failing model and tools | every started run ends or pauses; the gate holds; at most one execution per click |
| `runtime_resume` | "This run is not waiting for approval." | refuted: two approvals both resume |

**Bounds.**  Two tools, one of them gated (`Gated` and its complement are all the
code distinguishes); two clicks (the least number that can race or follow each
other); `MaxSteps` 1, and 2 for termination (the code has 8: the loop's turns
are alike, and the budget's edge is met at any value); at most two calls in one
answer, so that a gated call can precede and follow an ungated one.  `MaxSteps`
also bounds a pipeline's lookups, which the code bounds by the pipeline's text.
The two clicks are symmetric; the run that checks liveness uses no symmetry.
`CHECK_DEADLOCK FALSE` because a run with no click left is a stopped system.

**Fairness.**  `FairSpec` is weak fairness of each handler's `Work`: Node
schedules a handler whose awaited call has returned, and the calls return or
throw (HTTP and database time-outs).  Nobody has to start a run or click.

**Proofs.**  Every safety property of the runs is a theorem, for every set of handlers
and tools and all bounds.  `AgentRuntimeProofs` proves two of them for all values of
`Overlap`, `Editable` and `Faults`:

* `TypeCorrect`: `Spec => []TypeOK`, from `TypeInv`, which adds `CallInHand`: a
  handler about to execute, record or propose a call has one, and a handler that
  decides has an existing approval.  Without it `Head(todo)` would be unspecified.
* `HeldCallsAlwaysApproved`: `Spec => []HeldCallsApproved`.  The invariant is
  `GateInv`: beside the property itself, a gated call in the hand of a handler
  about to execute is the call of the approval that handler decided; a decision
  on its way to resume is an approval; and the handler of a performed gated call
  is past the point where its choice and its approval may still change.  The
  property alone is not inductive, because it says nothing of the step before
  the execution.  `GateStep` reduces every action to what it does to one
  handler, and rests on two facts: no step takes an approval away or changes its
  call (`CallsKept`), and a handler never changes its mind (`ChoiceKept`).

The next three assume that decisions arrive one at a time (`~Overlap`: a click waits until
no handler works), the last does not.

* `EndedAlwaysStays` and `ResumedWaitingWhenSerial` rest on `SerialInv`: at most one
  handler is at work, and its position says what the run's status is.  `runtime_resume`
  shows that the second of them fails with `Overlap`.
* `ProposalsAlwaysOnce` rests on `CallsInv`, which follows each proposed call: it is
  performed, held in an approval, or in the one hand that will perform it, and in one of
  these places only.
* `AlwaysImplementsGate` is the refinement, step by step: `Gate!Init` from `Init`, and
  every action maps to a proposal, a decision, a performance or a stutter of
  `ApprovalGate` (`CallsInv` says which calls may still be performed).
* `AlwaysOncePerClick` needs no assumption: what a handler still has to perform is never
  among what it performed (`OwnInv`), whatever the others do.

`AgentHistoryProofs` goes on to what a run leaves behind.

* `ConversationAlwaysSound`, under `~Overlap` and `~Editable`: the calls not yet answered
  are those in the hand of the handler, and the turns taken are counted against the start
  and the approvals (`HistoryInv`).  An edit between two turns may take a tool away that an
  earlier turn used, so the second assumption is needed.
* `AuditAlwaysTrue` and `WaitingAlwaysPending`, under `~Overlap` and
  `Faults \subseteq {"llm"}`: when nobody is at work, status, log and approvals agree
  (`Settled`), and in between `RowsOf` says which of them a handler at a given position has
  still to write (`AuditInv`).  A database call that fails, or a crash, between two of these
  writes leaves them disagreeing, because nothing takes the work up again.

TLC checked each of these invariants on the runs before it was proved.  Model-checked only:
`RunSettles` (liveness is out of the prover's reach).

## Workflows and routing: `Workflows`

**State.**  All organisations share the tables, as in the database: `workflows`
holds each row's status, trigger and bound account, `members` the role of each
agent in each workflow, `agents` and `accounts` the rows workflows depend on.
`OrgOf` and `ProviderOf` are constants because no code moves a row to another
organisation or provider.  `click[c]` is a server action at work and what it read
so far; when it is over it is forgotten and another may start, so the number of
clicks is unbounded and `Clicks` only bounds how many overlap (one member: clicks
one after the other).  `msg[m]` is the handling of one inbound message.

**Actions.**  Server actions of a single call (`Connect`, `Disconnect`,
`SetAgentStatus`, `DeleteAgent`, `RemoveMember`) are one action.  The others
(`activateWorkflow`, `deactivateWorkflow`, `addMember`, `createWorkflow`) are one
action per call, from `Start...` on; a form may name any id of any organisation,
because ids come from the browser.  The database's part is modelled where it
decides something: the foreign key from a workflow to its account nulls the
binding on delete (migration `20260901180000_add_account_specification`), the one
from a membership to its agent cascades and refuses a vanished agent, the one from
a run to its agent keeps an agent that has runs.  `Abandon` is a call that throws
or a process that dies; since these handlers catch nothing that would make them go
on, both are the same.  Dispatch is `Arrive`, the two look-ups, the choice of a
handler (with several of them, any one or none: keywords and classifier are
abstracted) and the run.

A slot is an organisation, a trigger and an account or none: the workflows in it
compete.

| Run | Question | Result |
|---|---|---|
| `workflows_serial` | clicks one after the other, failing half-way, agents removed | members and bindings stay in an organisation; one ACTIVE workflow per slot; no generic webhook workflow; what cannot run is shown with a warning |
| `workflows_served` | activations competing for ever, messages on other slots | the slot is served again and again; a message goes to its account's own workflow and organisation |

**Bounds.**  Two organisations with one to three agents; two workflows in a slot, the least that can
compete, beside one in another; two overlapping clicks; one
workflow row left to create (at most `Workflows` rows exist: with no id left
`Insert` waits).  The property that a slot stays served is stated for activations
only and without failures: a deactivation empties a slot on purpose, and an
activation that dies between its two writes leaves it empty, because nothing takes
it up again.  `SpecificFirst` is stated for accounts whose workflow no other competes
for: in the gap between demotion and activation a message falls through to the
generic workflow.  `workflows_serial` disconnects a mailbox but no webhook account,
because a nulled binding of a webhook workflow refutes its properties.

**Fairness.**  `FairSpec` is weak fairness of each click's `Work`, the calls of an
action that has started; nobody has to click.

**Proofs.**  `WorkflowsProofs` proves its theorems for every set of rows,
organisations, clicks and messages.

* `ScopesAlwaysKept` (members and bindings) and `AlwaysHandledAtHome` follow from
  one invariant, `ScopeInv`.  It adds to them what is known half-way: a click
  past its look-ups holds ids of the organisation it works for (`ClickScoped`), and
  the handlers a message may choose from are of the organisation of its account
  (`MessageScoped`).  The look-ups happen calls before the writes they justify; the
  proofs hold because no row ever changes its organisation.
* `OneActiveWhenUndisturbed`, under the assumption `Undisturbed` (clicks one at a
  time, no account disconnected), from `SlotInv`: what an activation read of its
  workflow is still so, and after the demotion no other workflow of the slot is
  ACTIVE (`Claims`).  Neither half of the assumption can be dropped: two
  overlapping activations may both demote before either sets its own status, and
  disconnecting an account moves an ACTIVE workflow into the generic slot, whoever
  holds it.

* `TypeCorrect`: types and foreign keys, from `RowInv`.  It adds that an account is in
  the table once, and that a click past its look-up names a row that is still there.
* `ActiveAlwaysServed`, under `WebhooksKept` (no webhook account may be disconnected, and
  the first webhook workflows have theirs): from `ServedInv`, a webhook workflow has its
  account from the form to the row.  That an ACTIVE workflow which could run nothing has a
  warning is the lemma `IdleWarned`, about any state with sound rows.
* `AlwaysSpecificFirst`, under `Unrivalled` (the clicks activate and add members only, no
  account is disconnected, each account has at most one workflow, and it is ACTIVE): from
  `SpecificInv`, a message that has come to the generic look-up has no workflow of its own.
  Each part is needed: a rival's activation demotes the workflow for a moment, a
  deactivation or a disconnection for good.

Model-checked only: `SlotStaysServed` (liveness).

## Accounts, tools and inbound messages: `Accounts`, `Tools`, `Inbound`

**State.**  `integrations` holds each account's row: its number in the order of
connection, its credential and its status.  A credential is the number of its issue,
`issued` what the provider issued last; whether a refresh issues a new one depends on
the provider (the constant `Rotating`).  `tab[t]` is a browser tab on its
way through an OAuth round trip, with the cookies all tabs share; `creator`, `user`
and `call` are the handlers that create a webhook account, ask for a valid token and
execute a tool; `check` and `delivery` are inbox checks and webhook requests,
`route[h]` the dispatch each of them is in.

**Actions.**  One per request to the database or a provider: the three OAuth
exchanges with the profile request that follows (Slack has none),
`getValidAccessToken` as look-up, refresh and store, with expiry as an action of its
own.  A tool resolves its account by the agent's pin, forwarded when the MCP server is
built, or else by the default; `send_email` fetches all attachments at once
(`Promise.all`) and leaves only with all of them.  An inbox check lists its accounts,
for each takes one token, lists a page of unread mail, and for each message routes,
runs the agent and marks it read.  A webhook delivery verifies its secret, routes and
answers; its sender may give up waiting and deliver again.

`inbound` checks seven properties over fourteen casts:

* `Handled`: one e-mail or delivery is run once (`RunOnce`) and marked read only then
  (`ReadMeansRun`), and an agent is taken without the classifier only when it is the
  only one that matches (`UnambiguousOrAsked`);
* `EndedMeansSettled`: a check that ends has settled all it listed;
* `LatestStored`: the stored credential is the newest issued;
* `AccountsSound`: two providers' round trips do not disturb each other
  (`OwnProviderOnly`), a shown secret stays valid (`SecretsKept`);
* `DefaultsHold`: the default account moves only with its disconnection, a pin never
  refuses a tool that has an account (`DefaultStays`, `PinNeverBlocks`);
* `ActsAsChosen`: tools act as pinned, or by default (`ActsAsPinned`, `ActsAsDefault`);
* `SentWhole`: with all attachments or not at all.

**Bounds.**  Ten accounts of eight providers, so that each family's refresh and each
tool's storage occur; two checks and two deliveries, the least that overlap; four
e-mails, of which a page holds fewer, so that a skipped one can fill it; two agents
whose keywords overlap in one message.  Every request may fail.  `After` says which
attempts a delivery repeats: of two attempts at one post, one repeats the other.

**Proofs.**  All seven properties are theorems, for every set of accounts, tabs, tools,
checks, messages, deliveries and casts, and with no assumption beyond what the modules
state of their constants.  In `AccountsProofs`:

* `TypeInv` is the common ground.  It adds to the types what a handler waits for
  (`WaitsSound`), that the rows and credentials in anybody's hand were once issued
  (`TabSound`, `CreatorSound`, `HandlerSound`), and that row numbers only grow
  (`RowsEvolve`): a row found gone never comes back under its number.
* `AccountsAlwaysSound` adds `OwnCookie` (a tab without a rival has its provider's cookie)
  and `OwnSecret` (nobody else is creating a name whose secret was shown).
* `LatestAlwaysStored` needs no more than `TypeInv`; its work is `LatestOf`, every step
  seen from one account: a new credential is issued only to one who is about to store it.
* `AlwaysActsAsChosen` and `AlwaysSentWhole` rest on `ChoicesInv`: what a tool knows of the
  pin is what the pin was (`PinsKnown`), and the account it has in hand was the pinned or the
  first one when it resolved it and still is, or its row is gone (`ChoicesSound`).
* `DefaultsAlwaysHold` is about steps: rows are ordered by connection, and a new one comes
  last.  That a non-empty set of rows has a first one is `LeastNumber`, from well-founded
  induction on the naturals.

In `InboundProofs`, from one invariant, `OnceInv`:

* `EndedAlwaysSettled`: what a check took in hand is processed, skipped, in its queue or in
  work, and in one of these only; each account is listed once, so no message comes back
  (`Settling`).
* `AlwaysHandled`: an e-mail nothing excuses is in one hand, and once it was run it is read
  or about to be marked by the hand that ran it (`MailOnce`); a post has one attempt that is
  under way or was answered for good (`PostOnce`); a route says that an agent ran only when
  one did (`RouteSound`).  `CheckMoves` and `RoutesOn` reduce the steps of checks and routes
  to what they do to the hands and counts.

## Records, files and their pipelines: `Records`, `Drive`, `EntityPipelines`

**State.**  A record's data is a partial function from fields to values; a value is a
text and whether it is in the form its field's schema stores, which is all that
coercion and JSON comparison distinguish.  `calls[c]` is a record tool's handler or a
catalog page.  `folders` and `files` are the store, known by ids as at Google Drive;
at SharePoint a second folder of a name is renamed and an upload replaces by path.
`requests[r]` is a file tool at work, `runs[r]` a pipeline.

**Actions.**  `updateRecordChecked` is look-up, definition, one action per reference,
second read, merge and write; a page's form submits every field it showed.
`ensureFolderPath` is a look-up and maybe a creation per segment; `save_file` and
`populate_template` upload, or with `replace` find and update; a template is looked for,
downloaded and populated before any folder is made.  The signal pipeline calls the
record tools, then makes folders, posts and proposes, each call able to fail; the
archive pipeline finds the record and saves the e-mail and its attachments.

| Run | Question | Result |
|---|---|---|
| `pipelines_records` | a signal, an agent's call and a page write one record while its type is redefined or dropped, records are deleted, and queries fail | patches merge (`WritesMerge`); references and values stay of their fields' types (`WellTyped`) |
| `pipelines_signals` | signals, e-mails and template calls about one item, two at a time, requests to the store failing | one record (`OneRecordUnlessContested`); one folder per path, one file of a replaced name, attachments kept, a wrong template leaves nothing (`FilesKept`); effects in order, ended means done (`EffectsAccounted`) |

**Bounds.**  Two callers at work at once (`AtOnce`), of three in a cast: a race needs
two, and the third sees what they leave.  Two types, one referring to the other; three
records; two definitions of a type, one without the reference.  Deleting is left out of
`pipelines_signals`, as a deleted record makes a second one legitimate.  It runs on
Google Drive, where two folders or files of a name can exist; with SharePoint
`AttachmentsKept` fails, because its upload replaces by path
(`lib/integrations/sharepoint/client.ts:181`).

**Proofs.**  All five properties of the runs are theorems of `EntityPipelinesProofs`, for
every set of types, fields, records, runs, agents, pages and template calls, with both
stores, with any requests failing and any number at once.  `StoredAssumption` is what the
theorems need of the start: the records already stored fit their definitions and their
references hold.  The other assumptions say that the configuration is one the code accepts
(its type and key are a type and a field, every transition has its parts), that every text
may name a folder, and that a call of `populate_template` begins with no content read.

`WellTyped`, `WritesMerge` and `EffectsAccounted` (`TypesAlwaysHeld`, `WritesAlwaysMerge`,
`EffectsAlwaysAccounted`) rest on `PipelinesInv`, which has three parts:

* `RecordsInv`: what each caller has found out holds on after every step of the others.
  `CallFits` says so by the call's position: its record was there and of the type, which
  holds on after a deletion; its values are in the form of the type, the references it has
  checked are of records of the target type (`RefsHold`), and what it read before its merge
  is still stored unless another write crossed it.  A definition somebody changed meanwhile
  excuses the type (`redefined`), and a page's write excuses the record's references
  (`byHand`); nothing else does.  `Grows` is what all steps have in common.
* `RequestsInv`: a file tool that has walked its path has made its last folder, and has the
  content it writes from before it makes the first.
* `RunsInv`: a path of the transition is made, still to ask for, on its way or refused
  (`Pending`).  A run that finds nothing left to ask for, and its last request saved,
  therefore has them all, whichever requests failed before: the refusal ends the run.  From
  there the effects follow in order.  `RunStill` shows that no step of another's takes
  anything of this from a run, for which the two other parts are needed: folders and records
  stay, and only its own tools' calls move.

`FilesTogether` (`FilesAlwaysTogether`) needs `WalksInv` besides.  `FoldersInv` gives every
folder an address, the path from the root it was made under (`Chart`): a path none of whose
names was raced is the address of one folder only, and a call that walks has its folder at
the part of its path behind it (`OnChart`).  `CallsFor` and `AsksFor` say which names a call
may ask for at all, by who made it.

`FilesKept` (`FilesAlwaysKept`) needs `ArchiveInv`: of a replaced name a folder has one file
and a call that has looked for it knows it or has raced (`ReplacedOnce`); a call
patches a file of its own name only (`PatchInv`), so that an attachment, once saved, stays
as it is (`AttachInv`); what only templates are asked for is there only if one was populated
(`OnlyPopulated`).  Its hypothesis `NamesApart` is what the tools themselves do not ensure:
an attachment named like the correspondence file or a document is replaced by the next one,
as is a document that one call replaces and another adds; and SharePoint, which supersedes
by path, keeps one of two e-mails' attachments of one name.

`OneRecordUnlessContested` (`OneRecordKept`) needs `KeysInv`: a signal that has found no
record, and until its record is stored (`Creating`), either shares its key with another
signal in flight, and the key is contested, or no record has the key (`NoneOf`).  That is kept
because only a signal stores a record with a key, and only with its own, and because the
key a write has read is still the record's when it stores its merge (`KeyCall`).  The hypothesis `KeysBySignals` says where the promise can be made at all: the keys
come as their field stores them (`find_record` compares the key as the payload spells it with
what was stored trimmed and formatted, so that another spelling makes a second record), and
agents leave them alone, whose `create_record` looks for none.  A page's record is excused
(`byHand`), and deletions are not: a record that is gone comes back for nobody.

## Organisations, people and templates: `Templates`, `Provisioning`, `Tenancy`

**State.**  The rows of one organisation (its own, the starter workflow, agents, grants,
record types), what Clerk holds of it and its people, and the template table all
organisations share; each request's position in `getCurrentOrganisation` and
`getCurrentUser`.

**Actions.**  Provisioning is one action per statement, each able to fail, so that it
breaks off anywhere and nobody resumes it; a second first request loses the race on the
unique id and goes on with the row as it is.  Deletion at Clerk and here are two steps,
in the code's order, with other requests in flight.  `setToolsForAgent` is one
transaction whose statements see each other's commits.  Users are upserted from what
the request read of Clerk before.

`tenancy`: `RowsWhole` (a provisioned organisation has everything, and overlapping edits
leave the tools of the last, or are known to have mixed), `NothingLeft` (deletion leaves no
rows of an organisation or a person, except those re-created between the two deletions),
`PeopleSynced` (after a whole request the row is as Clerk has it), `BuiltInsSeeded` (each
built-in once, and each listed).

**Bounds.**  Two people, three requests, two editors, two readers: the least that
race; two starter agents, types and built-in templates, so that a statement breaks off
between two of a kind.

**Proofs.**  All four properties are theorems of `TenancyProofs`, for every set of people,
requests, editors, readers, agents, types and templates.  The constants are assumed to be
what the code makes them: the built-in templates have different names
(`lib/agents/built-in-templates.ts`), an edit is no page request, `None` names nothing.
The inductive invariant has a part for each of the three modules:

* `TemplatesInv`: each built-in has one row or one reader about to create it (`Single`), and
  a reader has all before the one it is at (`Passed`).  Once seeded, the rows are as many as
  the built-ins exactly when none is missing, which a count of rows alone does not say:
  it follows from there being one row of each.
* `OrgInv`: a row is provisioned by the request that created it (`OneProvisions`), whose place
  in the programme says what is there already, unless people altered it (`Progress`); an agent
  not mixed has one grant at work, which sees its rows as they are (`AgentSound`).
* `PeopleInv`: requests of one person under way agree on whether what they read of Clerk is
  fresh, all of them when somebody counts on it (`VisitsFresh`); a row has its address for
  itself and stays while an approval names it (`UsersSound`).

What joins them: a visit goes on only while its request is resolved (`VisitsHeld`), so a step
of the organisation's never meets it half-way; and only a cascade that has taken the row
brings a request to Clerk (`DissolvedInv`).

## Agents' programmes and the knowledge base: `Steps`, `Harness`, `Chunking`, `Knowledge`, `AIProvider`

**State.**  `runs[j]` is a run: the steps still to do, the variables set, and what it
waits for; `acts[j]` what it proposed or performed.  `documents` and `chunks` are the
knowledge base, `uploads` the submissions of the page, `provider` the settings row.

**Data.**  Figures are decimal with two places, dates are counted in hundredths of a
day; binary dust is not modelled.  A text is a sequence of words, figures and dates, so
that a number written into a text keeps its meaning; what the model answers, what a
look-up finds and how a search ranks are free choices.  Text to be split is a sequence
of positions, so that one can say which part of a document a chunk carries.

`harness` runs eight agents (the built-in quote template, a programme with every
operation, look-ups with branches, retrieval, an empty one, the two reply pipelines and
an unknown pipeline) and the pages of documents and settings.  `ProgrammeFollowed` and
`RepliesSafe` are about the runs; `FiguresTrue` holds averages against their items and against
the sum divided by the count, and the quote pipeline's total against a compute step's; `DocumentsSound` is about documents and their chunks under failures; `ChunksSound`
(no text lost, no chunk too long) is checked on every document of one to three paragraphs
around the limits (`TargetChars` 6, `OverlapChars` 2, `MaxChars` 8, in the order of the code's
1500, 200 and 2000); `RetrievalSound` says what rank fusion promises; `SecretKept` what a
blank secret means.  `harness_template` refutes that each built-in template is "a complete,
runnable step programme" (`lib/agents/built-in-templates.ts`): the quote template reads
`item.data.unitPrice` of what is a list, and the run fails at its computation.

**Proofs.**  `HarnessProofs` rests on one invariant, `HarnessInv`, for every set of runs,
pages and submissions, all programmes and whatever the model, the look-ups and the searches
answer.  It has three parts that no action mixes:

* `RunsInv`, of each run: it is over once it has acted.  A reply pipeline past its
  extraction keeps the sender under `email`, and what it is about to propose passed the
  guardrail.  What a step programme has left to do are steps of the programme or of its
  arms, at a search the one in hand is the retrieval, and the act of an arm on `exists` is
  only ever next, right after its branch found the value there: `ArmsAgree` alone is not
  inductive, because it is silent until the act is done.
* `DocumentsInv`: a document has the chunks 0 up to where its upload stands, and its upload
  is inserting, has reported the last one, or broke off.
* `SettingsInv`: a submission that has read and was not overtaken carries the stored secret.

`DocumentsAlwaysSound`, `SecretAlwaysKept` and `ChunksAlwaysSound` hold without conditions, as
do `ReplyAlwaysToSender`, `AcknowledgementsNeverSay` and `TotalsAlwaysAgree` about the reply
pipelines.  The other theorems need something of what the agents are configured with, which
`MCHarness` has TLC evaluate for the configurations of the run:

* `ProgrammesAlwaysFollowed` is about programmes that are `Plain`: nothing else is stored under
  the name of a required look-up, and the tool of an arm's act is not used elsewhere, without
  which the property confuses two acts.
* `ProgrammesNeverSay`, and with it `RepliesAlwaysSafe`, is about programmes that are `Guarded`:
  what an act sends as its text is what a compose step stored, or a figure.  The engine holds only
  composed texts against the guardrail, so that an act which sends something it extracted says
  what it likes.
* `FiguresAlwaysTrue` is about programmes that are `Lasting`: a computed name has one value,
  and nothing it was computed from is rewritten.  Otherwise the average was right when it was
  taken and is not of what the variables hold now.
* `RetrievalAlwaysSound` and `FiguresAlwaysTrue` take the set of all values the runs are given
  (`GivenFrom`): it holds the parts of its records and lists, its figures are numbers and it
  contains no passage, for passages come from searches alone.

What these proofs add to the invariant:

* `TextsInv`: an upload that has begun has a text, and inserts no more chunks than the text splits
  into.  That no passage is lost and no chunk too long is a property of the recursive
  function that splits; with no induction theorem at hand it is proved by taking the least
  number of paragraphs for which it would fail (`LeastNumber`), as is everything below about
  paths, templates and sums.
* `SearchInv`: what the queries brought are chunks of the run's organisation, each once per
  list.  Each chunk that was found has its own number of chunks ahead of it, so the
  fusion is well defined; fractions are compared by cross multiplication.  `BestFirst` needs
  `FusionAssumption`: a side lists 3 times the limit at most, which is at most K + 1, so that
  being in both lists is worth more than any rank in one (3 * 10 and 61 in the code).
* `SaysInv`: a draft under a name that an act sends passed the guardrail.
* `QuotesInv` and `PricesInv`: only a quote prices a product, it has its quantity by then, and a
  total in the store is that of the product and the quantity beside it.
* `OwnInv`: what a run's store holds, figures being numbers, carries passages of its own
  organisation only, and whatever a path, a template or an operation makes of it does too.
* `LastsInv`: what is left to do writes nothing that a computation before it read or wrote, and
  every computed name holds what its step would compute now.  From there `AveragesTrue`
  is arithmetic: if every item were above the rounded average, so would their sum be.

## Remarks

What the models show of the code without a run of its own, because it is promised
nowhere or already the exception of a property:

* *Runtime.*  A second click reports "Approved action sent." though nothing ran; the
  resumed turn does not see the result held back (`agent-runtime.ts:414`).
* *Workflows.*  Overlapping activations leave two ACTIVE workflows in a slot
  (`schema.prisma:324`); disconnecting a webhook account makes its workflow generic
  (`workflow-service.ts:82`).
* *Accounts.*  A refresh that crosses a reconnection stores the older credential; the
  callback of a stale tab deletes a newer attempt's cookie; a credential whose profile
  request fails is lost.  A pin whose account is gone when the tools are built falls
  back to the default account (`server.ts:68`), one gone afterwards fails the call.
* *Inbox.*  Two checks run one message twice, as does a check after a failed
  `markRead`; ten skipped messages hide all later ones.
* *Records.*  Overlapping updates lose fields; pages save references unchecked
  (`schemas.ts:143`); a key stored trimmed is looked up as spelled.
* *Files.*  Two requests make a folder twice at Google Drive; SharePoint supersedes
  attachments of equal name.
* *Organisations.*  A half-provisioned organisation stays so; the deletion cascade does
  not name knowledge documents and templates, so that an organisation with one cannot be
  deleted; an e-mail address is taken over from another person's stale row; two first
  readers seed the templates twice, and a duplicate hides a missing built-in.
* *Agents.*  Concurrent edits add their grants up; any error of an update is reported as
  "Agent not found.".
* *Harness.*  The quote pipeline does not consult the guardrail, quotes negative
  quantities and takes a blank price as 0, which a compute step refuses; an optional
  look-up with a blank key fails the run (`find_record` wants one character).
* *Knowledge.*  A chunk may exceed the "hard ceiling" by the overlap and a blank line; a
  document whose insertion broke off stays listed.
* *AI provider.*  A stored secret cannot be cleared from the form; a save with a blank
  secret that races another save or a disconnection restores the old one.

## Not modelled

* How the provider clients build requests and parse replies, and the token cipher: data
  transformations without state or protocol.
* Pages, forms and counts: they render what the modelled rows hold.  What a form submits
  is an input of the action behind it.
* The content of prompts and answers; token counts and their limits.
* Renaming an organisation, its legal links and its export: single statements nothing
  else depends on.
* SharePoint in `pipelines_signals`, for the reason given there.

## What is proved, and what is only checked

Proved for every value of the constants: all safety properties, action properties and the
refinement of the passing runs, some of them under the assumptions named above, and of
`EntityPipelines` and `Harness` some under hypotheses on names, keys, programmes and values
that the runs' instances satisfy.  No proof takes a fact on trust; the assumptions on
constants (`...Assumption`) are evaluated by TLC on every run.

Only checked by TLC, on the instances above: the two liveness properties (`RunSettles`,
`SlotStaysServed`), which are out of the reach of the prover, and the two runs that expect a
violation, whose counterexamples are TLC's.
