------------------------------ MODULE Harness ------------------------------
(***************************************************************************)
(* Runs of agents in harness mode: an agent's own programme of steps, and  *)
(* the two reply pipelines written in code, quote and acknowledge_reply.   *)
(* The model only extracts fields and writes text; what it answers, what a *)
(* look-up finds and how a search ranks are free choices.  The runs share  *)
(* the knowledge base and the AI provider with the pages that edit them.   *)
(***************************************************************************)
EXTENDS Steps, Knowledge

CONSTANTS
    Jobs, OrgOf, Pipeline,  \* the runs, their organisation and pipeline
    Programme,              \* the steps of each agent
    Fields,                 \* the fields an acknowledging agent looks up, in order
    Granted,                \* the tools of each agent
    ActionTool,             \* the tool its replies go through
    NeverSay,               \* its guardrail keywords, in lower case
    Sender, Mentioned,      \* the sender, and an address in the input (or Nothing)
    Answered,               \* what the model may extract for a field
    Drafts,                 \* the texts it may write
    Stored,                 \* the records of a type that a look-up may find
    Gated,                  \* the tools that need approval
    Casts                   \* who is at work together

ReadingTools == {"find_record", "search_records", "search_knowledge"}

\* The steps of a programme that do something, those in the arms of its branches
\* among them.
Leaves(steps) ==
    UNION {IF steps[k].kind = "branch"
           THEN {steps[k].then[i] : i \in DOMAIN steps[k].then}
                \cup {steps[k].otherwise[i] : i \in DOMAIN steps[k].otherwise}
           ELSE {steps[k]} : k \in DOMAIN steps}

\* How many passages a retrieve step asks for.
LimitIn(step) == IF "limit" \in DOMAIN step THEN step.limit ELSE DefaultLimit

\* stepsSchema: "One level only - a branch arm may not contain another branch."
WellFormed(steps) ==
    /\ IsSequence(steps)
    /\ \A k \in DOMAIN steps :
          steps[k].kind = "branch" =>
              IsSequence(steps[k].then) /\ IsSequence(steps[k].otherwise)
    /\ \A step \in Leaves(steps) :
          /\ step.kind # "branch"
          /\ step.kind = "lookup" => step.type \in DOMAIN Stored
          /\ step.kind = "retrieve" => LimitIn(step) \in Nat \ {0}
          /\ step.kind = "extract" => step.fields \subseteq DOMAIN Answered
          /\ step.kind = "compute" =>
                /\ step.operation \in Operations
                /\ IsSequence(step.operands) /\ step.operands # <<>>
                /\ \A k \in DOMAIN step.operands : IsOperand(step.operands[k])

\* A fact is kept beside the address and never in its place.
ASSUME HarnessAssumption ==
    /\ Pipeline \in [Jobs -> {"steps", "quote", "acknowledge_reply", "none"}]
    /\ Gated \cap ReadingTools = {}
    /\ \A j \in Jobs : /\ WellFormed(Programme[j])
                       /\ Pipeline[j] # "steps" => Programme[j] = <<>>
                       /\ IsSequence(Fields[j])
                       /\ \A k \in DOMAIN Fields[j] :
                             /\ Fields[j][k].fact # "email"
                             /\ Fields[j][k].type \in {""} \cup DOMAIN Stored
                             /\ Fields[j][k].name \in DOMAIN Answered
    /\ {"product", "quantity", "customerEmail"} \subseteq DOMAIN Answered
    /\ {"Customer", "Product"} \subseteq DOMAIN Stored
    /\ \A draft \in Drafts : DOMAIN draft = {"text"} /\ IsSequence(draft.text)
    /\ \A type \in DOMAIN Stored : \A record \in Stored[type] : DOMAIN record = {"record"}
    /\ \A c \in Casts : /\ c.jobs \subseteq Jobs /\ c.saves \subseteq Saves
                        /\ c.disconnects \subseteq Orgs
                        /\ c.uploads \cup c.deletes \subseteq Uploads
                        /\ c.pages \subseteq Documents

\* Each side fetches no more than the damping constant and one: a limit of 10 at
\* most, three times over, against 60.
ASSUME FusionAssumption ==
    /\ OverFetch \in Nat /\ K \in Nat
    /\ \A j \in Jobs : \A step \in Leaves(Programme[j]) :
          step.kind = "retrieve" => OverFetch * LimitIn(step) <= K + 1

VARIABLES
    cast,       \* who is at work
    runs,       \* the local state of each run
    acts        \* the actions each proposed or performed, in order

vars == <<providerVars, knowledgeVars, cast, runs, acts>>

Job == [pc : {"new", "step", "embed", "search", "extract", "customer",
              "product", "fields", "draft", "propose", "over"},
        status : {"NONE", "RUNNING", "COMPLETED", "FAILED", "WAITING_FOR_APPROVAL"},
        why : {"", "pipeline", "model", "lookup", "compute", "retrieve", "guardrail",
               "price", "address", "action"}]

TypeOK ==
    /\ ProviderTypeOK /\ KnowledgeTypeOK
    /\ \A j \in Jobs :
         [pc |-> runs[j].pc, status |-> runs[j].status, why |-> runs[j].why] \in Job
    /\ \A j \in Jobs : \A k \in DOMAIN acts[j] :
         acts[j][k].tool \in Granted[j]

\* No list yet: neither query of a search has answered.
NoLists == <<>>

NewRun == [pc |-> "new", todo |-> <<>>, store |-> [n \in {} |-> Nothing],
           lists |-> <<NoLists, NoLists>>, asked |-> {}, status |-> "NONE", why |-> ""]

Init ==
    /\ cast \in Casts
    /\ ProviderInit /\ KnowledgeInit(cast.uploads, cast.pages)
    /\ runs = [j \in Jobs |-> NewRun]
    /\ acts = [j \in Jobs |-> <<>>]

Becomes(j, run) == runs' = [runs EXCEPT ![j] = run]

\* What a run was working with goes with it; what it read stays, for the
\* properties.
Settles(j, status, why) ==
    Becomes(j, [runs[j] EXCEPT !.pc = "over", !.status = status, !.why = why,
                               !.todo = <<>>])

\* failPipeline
Fails(j, why) == Settles(j, "FAILED", why)

NoAct == UNCHANGED acts
At(j, pc) == runs[j].pc = pc
Goes(j, pc) == Becomes(j, [runs[j] EXCEPT !.pc = pc])
With(store, values) ==
    [n \in DOMAIN store \cup DOMAIN values |->
        IF n \in DOMAIN values THEN values[n] ELSE store[n]]
Named(name, v) == [n \in {name} |-> v]

\* The address a reply goes to: the sender, an address in the text, what the
\* model extracted.
FirstOfAddresses_extracted(j, extracted) ==
    IF IsPresent(extracted) THEN extracted ELSE Sender[j]
FirstOfAddresses(j, extracted) ==
    IF ~Is("none", Sender[j]) THEN Sender[j]
    ELSE IF ~Is("none", Mentioned[j]) THEN Mentioned[j] ELSE extracted

\* What a step can refer to from the start.
Known(j) ==
    [n \in {"input", "senderEmail", "organisationName"} |->
        CASE n = "senderEmail" -> IF Is("none", Sender[j]) THEN Empty ELSE Sender[j]
          [] OTHER -> Word(n)]

\* runHarnessPipeline.  Without a provider there is no run.
StartRun(j) ==
    /\ j \in cast.jobs /\ At(j, "new")
    /\ IF ~HasProvider(OrgOf[j]) THEN Settles(j, "NONE", "")
       ELSE CASE Pipeline[j] = "none" -> Fails(j, "pipeline")
              [] Pipeline[j] = "steps" /\ Programme[j] = <<>> -> Fails(j, "pipeline")
              [] OTHER ->
                   Becomes(j, [runs[j] EXCEPT
                       !.status = "RUNNING", !.todo = Programme[j], !.store = Known(j),
                       !.pc = IF Pipeline[j] = "steps" THEN "step" ELSE "extract"])
    /\ NoAct

\* extractFields: a function of the fields asked for, or nothing that parses.
Extractions(fields) ==
    {answer \in [fields -> UNION {Answered[f] : f \in fields}] :
        \A f \in fields : answer[f] \in Answered[f]}

\* callTool for the two tools that look records up.  A call that is not
\* granted, or has a blank key, comes back as an error.
Refused == [refused |-> 0]
LookUp(j, tool, type, key) ==
    IF tool \notin Granted[j] \/ Stringify(key) = <<>> THEN {Refused}
    ELSE (IF Faults THEN {Refused} ELSE {}) \cup
         (IF tool = "find_record" THEN {Nothing} \cup Stored[type]
          ELSE {[list |-> found] : found \in
                  {<<>>} \cup {<<r>> : r \in Stored[type]}
                         \cup {<<r, s>> : r \in Stored[type], s \in Stored[type]}})

\* composeReply and containsForbiddenKeyword
Says_asWritten(text, keywords) == \E k \in DOMAIN text : text[k].word \in keywords
Says(text, keywords) ==
    \E k \in DOMAIN InLowerCase(text) : InLowerCase(text)[k].word \in keywords

MayUse_anything(j, tool) == TRUE
MayUse(j, tool) == tool \in Granted[j]

\* proposeAction: the gate of ApprovalGate and AgentRuntime.
Propose(j, tool, args) ==
    LET act == [tool |-> tool, args |-> args] IN
    IF ~MayUse(j, tool) THEN Fails(j, "action") /\ NoAct
    ELSE IF tool \in Gated
    THEN /\ Settles(j, "WAITING_FOR_APPROVAL", "")
         /\ acts' = [acts EXCEPT ![j] = Append(@, act)]
    ELSE \/ /\ Settles(j, "COMPLETED", "")
            /\ acts' = [acts EXCEPT ![j] = Append(@, act)]
         \/ /\ Faults /\ Fails(j, "action")
            /\ acts' \in {acts, [acts EXCEPT ![j] = Append(@, act)]}

----------------------------------------------------------------------------
(* The step engine.                                                         *)

\* The step that is next, if it is of this kind.
Comes(j, kind) == At(j, "step") /\ runs[j].todo # <<>> /\ Head(runs[j].todo).kind = kind
Step(j) == Head(runs[j].todo)

\* A step is done: its values are stored under their names.
Stores(j, values) ==
    Becomes(j, [runs[j] EXCEPT !.pc = "step", !.todo = Tail(@),
                               !.store = With(@, values),
                               !.lists = <<NoLists, NoLists>>, !.asked = {}])

ExtractStep(j) ==
    /\ Comes(j, "extract")
    /\ \/ Fails(j, "model")
       \/ \E answer \in Extractions(Step(j).fields) : Stores(j, answer)
    /\ NoAct

Missing_null(found) == Is("none", found)
Missing(found) == Is("none", found) \/ (Is("list", found) /\ found.list = <<>>)

LookupStep(j) ==
    /\ Comes(j, "lookup")
    /\ LET step == Step(j)
           key == Resolve(step.key, runs[j].store)
           tool == IF step.search THEN "search_records" ELSE "find_record"
       IN \E found \in LookUp(j, tool, step.type, key) :
            IF found = Refused \/ (step.required /\ Missing(found))
            THEN Fails(j, "lookup") ELSE Stores(j, Named(step.as, found))
    /\ NoAct

ComputeStep(j) ==
    /\ Comes(j, "compute")
    /\ LET value == Compute(Step(j).operation, Step(j).operands, runs[j].store)
       IN IF value = Wrong THEN Fails(j, "compute")
          ELSE Stores(j, Named(Step(j).as, value))
    /\ NoAct

RetrieveStep(j) ==
    /\ Comes(j, "retrieve")
    /\ IF Stringify(Resolve(Step(j).query, runs[j].store)) = <<>>
       THEN Fails(j, "retrieve") ELSE Goes(j, "embed")
    /\ NoAct

\* search: the query is embedded by the provider that is connected by then.
EmbedQuery(j) ==
    /\ At(j, "embed")
    /\ \/ HasProvider(OrgOf[j]) /\ Goes(j, "search")
       \/ (~HasProvider(OrgOf[j]) \/ Faults) /\ Fails(j, "retrieve")
    /\ NoAct

\* The two queries run at once, so that either may see what the other does not.
Fetch(j, side, list) ==
    Becomes(j, [runs[j] EXCEPT !.lists[side] = list, !.asked = @ \cup {side}])
LimitOf(j) == LimitIn(Step(j))

FetchNearest(j) ==
    /\ At(j, "search") /\ 1 \notin runs[j].asked
    /\ \E list \in Nearest(OrgOf[j], OverFetch * LimitOf(j)) : Fetch(j, 1, list)
    /\ NoAct

FetchMatching(j) ==
    /\ At(j, "search") /\ 2 \notin runs[j].asked
    /\ \E list \in Matching(OrgOf[j], OverFetch * LimitOf(j)) : Fetch(j, 2, list)
    /\ NoAct

\* Finding nothing is no failure.
FuseLists(j) ==
    /\ At(j, "search") /\ runs[j].asked = {1, 2}
    /\ LET found == Fuse(runs[j].lists, LimitOf(j))
       IN Stores(j, Named(Step(j).as,
                          [text |-> [k \in DOMAIN found |-> [passage |-> found[k]]]]))
    /\ NoAct

ComposeStep(j) ==
    /\ Comes(j, "compose")
    /\ \/ Fails(j, "model")
       \/ \E draft \in Drafts :
            IF Says(draft.text, NeverSay[j]) THEN Fails(j, "guardrail")
            ELSE Stores(j, Named(Step(j).as, draft))
    /\ NoAct

ArgsOf(j) == [a \in DOMAIN Step(j).args |-> Resolve(Step(j).args[a], runs[j].store)]

\* An act ends the run.
ActStep_goesOn(j) ==
    /\ Comes(j, "act")
    /\ Step(j).tool \in Granted[j]
    /\ acts' = [acts EXCEPT ![j] = Append(@, [tool |-> Step(j).tool, args |-> ArgsOf(j)])]
    /\ Stores(j, [n \in {} |-> Nothing])
ActStep(j) == Comes(j, "act") /\ Propose(j, Step(j).tool, ArgsOf(j))

\* The arm that is taken comes before the steps after the branch.
BranchStep(j) ==
    /\ Comes(j, "branch")
    /\ Becomes(j, [runs[j] EXCEPT !.todo =
           (IF Holds(Step(j).when, runs[j].store) THEN Step(j).then ELSE Step(j).otherwise)
           \o Tail(@)])
    /\ NoAct

\* A programme without an act has finished its work all the same.
FinishSteps(j) ==
    /\ At(j, "step") /\ runs[j].todo = <<>>
    /\ Settles(j, "COMPLETED", "") /\ NoAct

StepEngine(j) ==
    \/ ExtractStep(j) \/ LookupStep(j) \/ ComputeStep(j) \/ RetrieveStep(j)
    \/ EmbedQuery(j) \/ FetchNearest(j) \/ FetchMatching(j) \/ FuseLists(j)
    \/ ComposeStep(j) \/ ActStep(j) \/ BranchStep(j) \/ FinishSteps(j)

----------------------------------------------------------------------------
(* The reply pipelines.                                                     *)

Reads(j, pc, values) ==
    Becomes(j, [runs[j] EXCEPT !.pc = pc, !.store = With(@, values)])
Read(j, name) == runs[j].store[name]
IsQuote(j) == Pipeline[j] = "quote"

\* A quantity of nothing is no quantity.
QuoteExtract(j) ==
    /\ At(j, "extract") /\ IsQuote(j)
    /\ \/ Fails(j, "model")
       \/ \E answer \in Extractions({"product", "quantity", "customerEmail"}) :
            IF ~IsPresent(answer["product"]) \/ ~Is("figure", answer["quantity"])
               \/ answer["quantity"] = Figure(0)
            THEN Fails(j, "model")
            ELSE Reads(j, "customer",
                       With(answer, Named("email", FirstOfAddresses(j, answer["customerEmail"]))))
    /\ NoAct

\* The customer's name is looked up when there is an address, and may miss.
QuoteCustomer(j) ==
    /\ At(j, "customer") /\ IsQuote(j)
    /\ IF ~IsPresent(Read(j, "email")) THEN Goes(j, "product")
       ELSE \E found \in LookUp(j, "find_record", "Customer", Read(j, "email")) :
              Reads(j, "product", Named("customer", IF found = Refused THEN Nothing ELSE found))
    /\ NoAct

\* Number(unitPrice): a blank text counts as 0, a missing price as none.
Price(product) == ResolvePath([item |-> product], <<"item", "data", "unitPrice">>)
HasPrice(product) == IsNumber(Price(product)) \/ Price(product) = Empty
PriceOf(product) == IF Price(product) = Empty THEN 0 ELSE AsNumber(Price(product))

QuoteTotal_floor(price, quantity) == (price * quantity) \div 100
QuoteTotal(price, quantity) == RoundDiv(price * quantity, 100)

\* The first product that is found is priced.
QuoteProduct(j) ==
    /\ At(j, "product")
    /\ \E found \in LookUp(j, "search_records", "Product", Read(j, "product")) :
         IF found = Refused \/ Missing(found) THEN Fails(j, "lookup")
         ELSE LET product == Head(found.list) IN
              IF ~HasPrice(product) THEN Fails(j, "price")
              ELSE IF ~IsPresent(Read(j, "email")) THEN Fails(j, "address")
              ELSE Reads(j, "draft",
                         [n \in {"item", "total"} |->
                            IF n = "item" THEN product
                            ELSE Figure(QuoteTotal(PriceOf(product),
                                                   Read(j, "quantity").figure))])
    /\ NoAct

\* The quote's text is not held against the guardrail.
QuoteDraft(j) ==
    /\ At(j, "draft") /\ IsQuote(j)
    /\ \/ Fails(j, "model")
       \/ \E draft \in Drafts : Reads(j, "propose", Named("body", draft))
    /\ NoAct

\* An extraction that fails leaves the fields empty; only an address is needed.
AcknowledgeExtract(j) ==
    /\ At(j, "extract") /\ ~IsQuote(j)
    /\ \/ Fails(j, "model")
       \/ LET names == {Fields[j][k].name : k \in DOMAIN Fields[j]} \cup {"customerEmail"}
          IN \E answer \in Extractions(names) \cup {[n \in names |-> Nothing]} :
               LET email == FirstOfAddresses(j, answer["customerEmail"])
               IN IF ~IsPresent(email) THEN Fails(j, "address")
                  ELSE Reads(j, "customer", With(answer, Named("email", email)))
    /\ NoAct

AcknowledgeCustomer(j) ==
    /\ At(j, "customer") /\ ~IsQuote(j)
    /\ LET goes(values) == Becomes(j, [runs[j] EXCEPT
               !.pc = "fields", !.store = With(@, values),
               !.todo = IF "search_records" \in Granted[j] THEN Fields[j] ELSE <<>>])
       IN IF "find_record" \notin Granted[j] THEN goes([n \in {} |-> Nothing])
          ELSE \E found \in LookUp(j, "find_record", "Customer", Read(j, "email")) :
                 goes(Named("customer", IF found = Refused THEN Nothing ELSE found))
    /\ NoAct

\* One look-up for each field that asks for one and has a value; none is fatal.
AcknowledgeField(j) ==
    /\ At(j, "fields") /\ runs[j].todo # <<>>
    /\ LET field == Head(runs[j].todo)
           done(run) == Becomes(j, [run EXCEPT !.todo = Tail(@)])
       IN IF field.type = "" \/ ~IsPresent(Read(j, field.name)) THEN done(runs[j])
          ELSE \E found \in LookUp(j, "search_records", field.type, Read(j, field.name)) :
                 IF found = Refused \/ Missing(found) THEN done(runs[j])
                 ELSE done([runs[j] EXCEPT !.store =
                              With(@, Named(field.fact, Head(found.list)))])
    /\ NoAct

AcknowledgeDraft(j) ==
    /\ At(j, "fields") /\ runs[j].todo = <<>>
    /\ \/ Fails(j, "model")
       \/ \E draft \in Drafts :
            IF Says(draft.text, NeverSay[j]) THEN Fails(j, "guardrail")
            ELSE Reads(j, "propose", Named("body", draft))
    /\ NoAct

ProposeReply(j) ==
    /\ At(j, "propose")
    /\ Propose(j, ActionTool[j],
               [a \in {"to", "body"} |-> IF a = "to" THEN Read(j, "email") ELSE Read(j, "body")])

ReplyPipelines(j) ==
    \/ QuoteExtract(j) \/ QuoteCustomer(j) \/ QuoteProduct(j) \/ QuoteDraft(j)
    \/ AcknowledgeExtract(j) \/ AcknowledgeCustomer(j) \/ AcknowledgeField(j)
    \/ AcknowledgeDraft(j) \/ ProposeReply(j)

----------------------------------------------------------------------------

RunSteps(j) == StartRun(j) \/ StepEngine(j) \/ ReplyPipelines(j)

SettingsSteps ==
    \/ \E s \in cast.saves : ProviderSteps(s)
    \/ \E o \in cast.disconnects : DisconnectProvider(o)

PageSteps ==
    \/ \E u \in cast.uploads : UploadSteps(u)
    \/ \E u \in cast.deletes : DeleteDocument(u)

Next ==
    \/ \E j \in cast.jobs : RunSteps(j) /\ UNCHANGED <<providerVars, knowledgeVars, cast>>
    \/ SettingsSteps /\ UNCHANGED <<knowledgeVars, cast, runs, acts>>
    \/ PageSteps /\ UNCHANGED <<providerVars, cast, runs, acts>>

Spec == Init /\ [][Next]_vars

(***************************************************************************)
(* Properties.                                                             *)
(***************************************************************************)

\* "An act step ends the run", also inside the arm of a branch: a run proposes
\* or performs one action at most, and is over with it.
ActIsLast ==
    \A j \in Jobs : acts[j] # <<>> => Len(acts[j]) = 1 /\ At(j, "over")

\* "required": no run goes past a required look-up that found nothing, be it
\* by key or by search.
RequiredFound ==
    \A j \in Jobs : \A step \in Leaves(Programme[j]) :
        step.kind = "lookup" /\ step.required /\ step.as \in DOMAIN runs[j].store
        => IsPresent(runs[j].store[step.as])

\* No action of this run has a forbidden word in its text.
NeverSaidBy(j) ==
    \A k \in DOMAIN acts[j] :
        "body" \in DOMAIN acts[j][k].args /\ acts[j][k].args["body"] \in Drafts =>
            \A w \in NeverSay[j] :
                ~Includes(InLowerCase(acts[j][k].args["body"].text), <<[word |-> w]>>)

\* "If composed text contains any of these, the run fails outright, it is never
\* proposed for approval", however it is spelled: of the step engine and of
\* acknowledge_reply.
NeverSaid == \A j \in Jobs : ~IsQuote(j) => NeverSaidBy(j)

\* "Known structurally from the trigger, never something a pipeline has to
\* guess": a reply goes to the sender whatever address the model extracts or
\* the text mentions.
ReplyToSender ==
    \A j \in Jobs : Pipeline[j] # "steps" /\ ~Is("none", Sender[j]) =>
        \A k \in DOMAIN acts[j] : acts[j][k].args["to"] = Sender[j]

\* `exists` on a look-up that found nothing "must be false or every
\* optional-lookup branch would take the wrong arm": an action inside the arm
\* of such a branch is only proposed with the value there.
ArmsAgree ==
    \A j \in Jobs : \A k \in DOMAIN Programme[j] :
        LET step == Programme[j][k] IN
        (step.kind = "branch" /\ step.when.operator = "exists") =>
            \A i \in DOMAIN step.then : \A n \in DOMAIN acts[j] :
                /\ step.then[i].kind = "act" /\ acts[j][n].tool = step.then[i].tool
                => Resolve(step.when.left, runs[j].store)
                       \notin {Nothing, Empty, [list |-> <<>>]}

\* The names a step stores values under.
NamesOf(step) ==
    CASE step.kind = "extract" -> step.fields
      [] step.kind = "act" -> {}
      [] OTHER -> {step.as}

\* A programme whose actions have as their text what a compose step stored, or
\* something that is no text of the model's.
Guarded(steps) ==
    \A act \in Leaves(steps) : act.kind = "act" /\ "body" \in DOMAIN act.args =>
        LET name == Head(act.args["body"].path) IN
            /\ "path" \in DOMAIN act.args["body"]
            /\ act.args["body"] = [path |-> <<name>>] /\ name # "senderEmail"
            /\ name \in {"input", "organisationName"} => Word(name) \notin Drafts
            /\ \A step \in Leaves(steps) : name \in NamesOf(step) =>
                  \/ step.kind = "compose"
                  \/ step.kind = "compute" /\ step.operation \in {"sum", "count", "avg"}

\* A programme that stores nothing else under the name of a required look-up,
\* and in which the action in the arm of an `exists` is the arm's first step and
\* the only one with its tool.
Plain(steps) ==
    /\ \A step \in Leaves(steps) : step.kind = "lookup" /\ step.required =>
          /\ step.as \notin {"input", "senderEmail", "organisationName"}
          /\ \A other \in Leaves(steps) :
                step.as \in NamesOf(other) => other.kind = "lookup" /\ other.required
    /\ \A k \in DOMAIN steps :
          steps[k].kind = "branch" /\ steps[k].when.operator = "exists" =>
              \A i \in DOMAIN steps[k].then : steps[k].then[i].kind = "act" =>
                  /\ i = 1
                  /\ \A m \in DOMAIN steps :
                        LET uses(step) == step.kind = "act" /\ step.tool = steps[k].then[i].tool
                        IN /\ ~uses(steps[m])
                           /\ steps[m].kind = "branch" =>
                                 /\ \A n \in DOMAIN steps[m].then :
                                       uses(steps[m].then[n]) => m = k /\ n = i
                                 /\ \A n \in DOMAIN steps[m].otherwise :
                                       ~uses(steps[m].otherwise[n])

\* The names an operand refers to, and those a step, or the arms of a branch,
\* store values under.
RootsOf(operand) ==
    IF "path" \in DOMAIN operand THEN {Head(operand.path)}
    ELSE {Head(part.path) : part \in {p \in Range(operand.template) : "path" \in DOMAIN p}}
RootsIn(step) == UNION {RootsOf(step.operands[k]) : k \in DOMAIN step.operands}
LeavesOf(step) ==
    IF step.kind = "branch" THEN Range(step.then) \cup Range(step.otherwise) ELSE {step}
WrittenBy(step) == UNION {NamesOf(leaf) : leaf \in LeavesOf(step)}

\* What these steps compute stays true while they go on: none stores a value
\* under a name that a computation before it has read or written.
InOrder(steps) ==
    \A k \in DOMAIN steps : \A leaf \in LeavesOf(steps[k]) : leaf.kind = "compute" =>
        \A m \in DOMAIN steps :
            k < m => WrittenBy(steps[m]) \cap (RootsIn(leaf) \cup {leaf.as}) = {}

\* A programme in which every computed name has one value, from what it has.
Lasting(steps) ==
    /\ InOrder(steps)
    /\ \A k \in DOMAIN steps : steps[k].kind = "branch" =>
          InOrder(steps[k].then) /\ InOrder(steps[k].otherwise)
    /\ \A leaf \in Leaves(steps) : leaf.kind = "compute" =>
          /\ leaf.as \notin RootsIn(leaf) \cup {"input", "senderEmail", "organisationName"}
          /\ \A other \in Leaves(steps) : leaf.as \in NamesOf(other) => other = leaf

\* A step that divides what one adds up by what another counts, of the list that
\* the step for the average is about.
SumByCount(steps, step, average) ==
    /\ step.kind = "compute" /\ step.operation = "divide"
    /\ \E sum, count \in Leaves(steps) :
          /\ sum.kind = "compute" /\ sum.operation = "sum" /\ sum.operands = average.operands
          /\ count.kind = "compute" /\ count.operation = "count"
          /\ count.operands[1] = average.operands[1]
          /\ step.operands = <<[path |-> <<sum.as>>], [path |-> <<count.as>>]>>

\* "Returning 0 there would be a quietly wrong number": an average is taken of
\* something, and lies between the smallest and the largest of it; and a
\* programme that divides the sum by the count comes to the same.
AveragesTrue ==
    \A j \in Jobs : \A step \in Leaves(Programme[j]) :
        step.kind = "compute" /\ step.operation = "avg" /\ step.as \in DOMAIN runs[j].store
        => LET values == [k \in DOMAIN step.operands |->
                              Resolve(step.operands[k], runs[j].store)]
               items == {AsNumber(FieldOf(AsList(values[1])[k], values)) :
                            k \in DOMAIN AsList(values[1])}
               average == runs[j].store[step.as].figure
           IN /\ \E m, n \in items : m <= average /\ average <= n
              /\ \A other \in Leaves(Programme[j]) :
                    SumByCount(Programme[j], other, step) /\ other.as \in DOMAIN runs[j].store
                    => Read(j, other.as) = Figure(average)

\* The quote pipeline's own arithmetic gives the total a compute step would
\* give for the same product, unless the product's price is blank.
TotalsAgree ==
    \A j \in Jobs : IsQuote(j) /\ "total" \in DOMAIN runs[j].store =>
        \/ Price(Read(j, "item")) = Empty
        \/ Compute("multiply", <<[path |-> <<"item", "data", "unitPrice">>],
                                 [path |-> <<"quantity">>]>>, runs[j].store)
           = Read(j, "total")

\* What the runs are given is among values - which hold the parts of its records
\* and lists - and no passage is among it: those come from searches alone.
GivenFrom(values) ==
    /\ \A f \in DOMAIN Answered : Answered[f] \subseteq values
    /\ \A type \in DOMAIN Stored : Stored[type] \subseteq values
    /\ Drafts \subseteq values
    /\ \A j \in Jobs : Sender[j] \in values /\ Mentioned[j] \in values
    /\ \A v \in values :
          /\ Is("record", v) => \A n \in DOMAIN v.record : v.record[n] \in values
          /\ Is("list", v) => v.list \in Seq(values)
          /\ Is("text", v) => IsSequence(v.text) /\ \A k \in DOMAIN v.text : IsLiteral(v.text[k])
          /\ Is("figure", v) => IsLiteral(v)

\* "A vector index will happily return the nearest neighbour from another
\* business's documents": a run only ever reads its own organisation's.
OwnPassages ==
    \A j \in Jobs : \A n \in DOMAIN runs[j].store : Is("text", runs[j].store[n]) =>
        \A k \in DOMAIN runs[j].store[n].text :
            "passage" \in DOMAIN runs[j].store[n].text[k] =>
                UploadOrg[runs[j].store[n].text[k].passage.doc] = OrgOf[j]

\* "A chunk ranked 5th semantically and 5th by keyword can legitimately beat
\* one ranked 1st by only one of them": what both lists name comes before what
\* one names, and nothing is left out for something ranked below it in both.
BothBeatOne ==
    [][\A j \in Jobs : runs[j].asked = {1, 2} /\ runs'[j].asked = {} =>
         LET lists == runs[j].lists
             text == runs'[j].store[Head(runs[j].todo).as].text
             chosen == [k \in DOMAIN text |-> text[k].passage]
             inBoth(c) == Has(lists[1], c) /\ Has(lists[2], c)
             above(c, e) == c # e /\ \A i \in {1, 2} : Has(lists[i], e) =>
                 Has(lists[i], c) /\ RankIn(lists[i], c) < RankIn(lists[i], e)
         IN /\ Len(chosen) = SmallerOf(LimitOf(j), Cardinality(Found(lists)))
            /\ \A k \in DOMAIN chosen : \A e \in Found(lists) :
                 (inBoth(e) /\ ~inBoth(chosen[k])) \/ above(e, chosen[k]) =>
                     \E i \in 1 .. k - 1 : chosen[i] = e]_runs

\* "Each is a complete, runnable step programme": once the product is found,
\* with its price, and the quantity is known, the built-in quote template's
\* total is a figure.
TemplateComputes ==
    \A j \in Jobs :
        /\ {"item", "quantity"} \subseteq DOMAIN runs[j].store
        /\ Is("figure", Read(j, "quantity"))
        /\ Is("list", Read(j, "item"))
        /\ \A k \in DOMAIN Read(j, "item").list : IsNumber(Price(Read(j, "item").list[k]))
        => runs[j].why # "compute"

\* A run follows its programme: one action and it is over, nothing past a
\* required look-up that failed, the right arm of a branch, and only values of
\* their kinds in its variables.
ProgrammeFollowed == TypeOK /\ ActIsLast /\ RequiredFound /\ ArmsAgree

\* What leaves says nothing forbidden, and goes to the sender.
RepliesSafe == NeverSaid /\ ReplyToSender

\* Two ways to the same figure agree.
FiguresTrue == AveragesTrue /\ TotalsAgree

\* A search returns passages of the run's own organisation, best first.
RetrievalSound == []OwnPassages /\ BothBeatOne
=============================================================================
