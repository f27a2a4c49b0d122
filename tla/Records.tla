------------------------------- MODULE Records -------------------------------
(***************************************************************************)
(* Record types and their records, as the callers that work on them        *)
(* concurrently see them: the record tools (an agent's calls, a pipeline's *)
(* calls) and the pages of the catalog.  One awaited query is one action.  *)
(*                                                                         *)
(* A record's data is a partial function from fields to values, and so is  *)
(* the patch of a write.  A value is a text and whether that text is in    *)
(* the form its field's schema stores (trimmed, rounded, an ISO date):     *)
(* coercing a value makes it neat, comparing values compares both.         *)
(***************************************************************************)
EXTENDS Naturals, FiniteSets

CONSTANTS
    Types,          \* the names of record types
    Fields,         \* the names of fields
    Texts,          \* the texts of values; the ids of records among them
    Ids,            \* the ids records may get
    Options,        \* the texts a select field offers
    Definitions,    \* the definitions a type may be given, by type
    Defined,        \* the types at the start, each with its definition
    Stored,         \* the records at the start, by id (a partial function)
    Agents,         \* the callers: tool calls of agents,
    Pipelines,      \* tool calls of pipelines,
    Pages,          \* and open pages of the catalog
    Asks,           \* the calls agents may make
    Typed,          \* what people may type into a form
    Changes,        \* what may happen beside the calls
    AtOnce,         \* how many callers may be at work at once
    Faults          \* may a query fail?

Callers == Agents \cup Pipelines \cup Pages
Partial(D, R) == UNION {[E -> R] : E \in SUBSET D}
Value == [text : Texts \cup {""}, neat : BOOLEAN]
Blank == [text |-> "", neat |-> FALSE]       \* "" or null
Undefined == [text |-> "", neat |-> TRUE]    \* a key JSON drops
Neat(text) == [text |-> text, neat |-> TRUE]

Field == [kind : {"text", "select", "reference"}, required : BOOLEAN,
          target : Types]
Definition == Partial(Fields, Field)
Data == Partial(Fields, Value \ {Undefined})

ASSUME ConstantsAssumption ==
    /\ Types # {} /\ DOMAIN Defined \subseteq Types
    /\ Ids \subseteq Texts /\ "" \notin Texts
    /\ Agents \cap Pages = {} /\ Pipelines \cap (Agents \cup Pages) = {}
    /\ \A t \in Types : Definitions[t] \subseteq Definition
    /\ \A t \in DOMAIN Defined : Defined[t] \in Definitions[t]
    /\ Asks \subseteq [op : {"find", "search", "create", "update"}, type : Types, id : Ids \cup {""},
                        patch : Data]
    /\ Typed \subseteq Texts
    /\ Changes \subseteq {"create", "define", "drop", "delete"}
    /\ AtOnce \in Nat \ {0}
    /\ Faults \in BOOLEAN

VARIABLES
    types,      \* the types that exist, each with its definition
    records,    \* each id's record: whether it is free, live or gone, of which
                \* type and with which data
    calls,      \* the local state of each caller
    \* What the properties need to know of the past:
    sent,       \* each record's data had every patch been applied whole, in order
    crossed,    \* the records two writes of which have overlapped
    byHand,     \* the records a catalog page has saved
    redefined   \* the types whose definition was changed, or that were dropped

recordVars == <<types, records, calls, sent, crossed, byHand, redefined>>

Call == [pc : {"idle", "resolve", "find", "search", "existing", "fields", "refs", "insert",
               "read", "write", "form", "getType", "done", "failed"},
         op : {"find", "search", "create", "update"}, type : Types, id : Ids \cup {""},
         patch : Data, values : Partial(Fields, Value),
         refs : Partial(Fields, Types), seen : Data]

Empty == [f \in {} |-> Blank]
NoRefs == [f \in {} |-> CHOOSE t \in Types : TRUE]
NoCall == [pc |-> "idle", op |-> "find", type |-> CHOOSE t \in Types : TRUE,
           id |-> "", patch |-> Empty, values |-> Empty, refs |-> NoRefs,
           seen |-> Empty]
NoRecord == [state |-> "free", type |-> CHOOSE t \in Types : TRUE, data |-> Empty]

RecordsTypeOK ==
    /\ DOMAIN types \subseteq Types /\ \A t \in DOMAIN types : types[t] \in Definition
    /\ records \in [Ids -> [state : {"free", "live", "gone"}, type : Types,
                            data : Data]]
    /\ calls \in [Callers -> Call]
    /\ sent \in [Ids -> Data]
    /\ crossed \subseteq Ids /\ byHand \subseteq Ids /\ redefined \subseteq Types

RecordsInit ==
    /\ types = Defined
    /\ records = [i \in Ids |-> IF i \in DOMAIN Stored
                                THEN [state |-> "live", type |-> Stored[i].type,
                                      data |-> Stored[i].data]
                                ELSE NoRecord]
    /\ calls = [c \in Callers |-> NoCall]
    /\ sent = [i \in Ids |-> records[i].data]
    /\ crossed = {} /\ byHand = {} /\ redefined = {}

(***************************************************************************)
(* Coercion and merging.                                                   *)
(***************************************************************************)

\* schemaForField, and the preprocessing of optional fields.
Accepts(field, v) ==
    IF v = Blank THEN ~field.required
    ELSE field.kind = "select" => v.neat /\ v.text \in Options

\* Every field of the type that the data names must parse; without partial,
\* every required field must be named.
Valid(fields, data, partial) ==
    \A f \in DOMAIN fields :
        IF f \in DOMAIN data THEN Accepts(fields[f], data[f])
        ELSE partial \/ ~fields[f].required

Coerced_not(fields, data) == data

\* Keys the type does not define pass through untouched.
Coerced(fields, data) ==
    [f \in DOMAIN data |->
        IF f \notin DOMAIN fields THEN data[f]
        ELSE IF data[f] = Blank THEN Undefined ELSE Neat(data[f].text)]

\* {...data, ...patch}, as JSON stores it.
Merged_undefined(data, patch) ==
    [f \in DOMAIN data \cup DOMAIN patch |->
        IF f \in DOMAIN patch THEN patch[f] ELSE data[f]]

Merged(data, patch) ==
    LET at(f) == IF f \in DOMAIN patch THEN patch[f] ELSE data[f]
    IN  [f \in {g \in DOMAIN data \cup DOMAIN patch : at(g) # Undefined} |-> at(f)]

\* validateReferences looks at these values only.
ReferencesIn(fields, values) ==
    [f \in {g \in DOMAIN fields \cap DOMAIN values :
              fields[g].kind = "reference" /\ values[g] \notin {Blank, Undefined}}
       |-> fields[f].target]

\* The records of the start were stored by this code.
ASSUME StoredAssumption ==
    /\ DOMAIN Stored \subseteq Ids
    /\ \A i \in DOMAIN Stored :
          /\ Stored[i] \in [type : DOMAIN Defined, data : Data]
          /\ LET fields == Defined[Stored[i].type]
                 data == Stored[i].data
                 refs == ReferencesIn(fields, data)
             IN  /\ \A f \in DOMAIN fields \cap DOMAIN data :
                        data[f].neat /\ Accepts(fields[f], data[f])
                 /\ \A f \in DOMAIN refs :
                        /\ data[f].text \in DOMAIN Stored
                        /\ Stored[data[f].text].type = refs[f]

Live(i) == i \in Ids /\ records[i].state = "live"

\* data->>field = value, over the records of one type.
Holding(type, field, v) ==
    {i \in Ids : /\ Live(i) /\ records[i].type = type
                 /\ field \in DOMAIN records[i].data
                 /\ records[i].data[field] = v}

(***************************************************************************)
(* The steps of a call.                                                    *)
(***************************************************************************)
Unmoved == UNCHANGED <<types, redefined>>
Reading == UNCHANGED <<types, records, sent, crossed, byHand, redefined>>

Busy == {c \in Callers : calls[c].pc \notin {"idle", "done", "failed"}}
Goes(c, call) == calls' = [calls EXCEPT ![c] = call]

\* Only a pipeline looks at the answer.
Ends(c, how, id, data) ==
    Goes(c, IF c \in Pipelines THEN [NoCall EXCEPT !.pc = how, !.id = id, !.values = data]
            ELSE [NoCall EXCEPT !.pc = "done"])
Fails(c) == Ends(c, "failed", "", Empty)

Writes(i, type, data, patch) ==
    /\ records' = [records EXCEPT ![i] = [state |-> "live", type |-> type, data |-> data]]
    /\ sent' = [sent EXCEPT ![i] = Merged(@, patch)]

\* A tool is called: find_record, create_record or update_record.
Invoke(c, op, type, id, patch) ==
    Goes(c, [NoCall EXCEPT !.pc = "resolve", !.op = op, !.type = type,
                           !.id = id, !.patch = patch])

CallTool(c) ==
    /\ calls[c].pc = "idle" /\ Cardinality(Busy) < AtOnce
    /\ \E ask \in Asks : Invoke(c, ask.op, ask.type, ask.id, ask.patch)
    /\ Reading

\* resolveType, in every record tool.
Resolve(c) ==
    /\ calls[c].pc = "resolve"
    /\ IF calls[c].type \notin DOMAIN types THEN Fails(c)
       ELSE Goes(c, [calls[c] EXCEPT !.pc =
                CASE calls[c].op \in {"find", "search"} -> calls[c].op
                  [] calls[c].op = "create" -> "fields"
                  [] calls[c].op = "update" -> "existing"])
    /\ Reading

\* The answer of find_record: any one of the records that match, or none.
AnswersOne(c, hits) ==
    \/ hits = {} /\ Ends(c, "done", "", Empty)
    \/ \E i \in hits : Ends(c, "done", i, records[i].data)

\* findRecordByFieldValue.
FindByValue(c) ==
    /\ calls[c].pc = "find"
    /\ \E f \in DOMAIN calls[c].patch :
           AnswersOne(c, Holding(calls[c].type, f, calls[c].patch[f]))
    /\ Reading

\* searchRecords: what a text is found in goes into a prompt, and only an
\* agent calls it.
SearchByText(c) ==
    /\ calls[c].pc = "search"
    /\ Ends(c, "done", "", Empty)
    /\ Reading

\* updateRecordChecked reads the record for its type.
FindExisting(c) ==
    /\ calls[c].pc = "existing"
    /\ IF Live(calls[c].id)
       THEN Goes(c, [calls[c] EXCEPT !.pc = "fields", !.type = records[calls[c].id].type])
       ELSE Fails(c)
    /\ Reading

AfterChecks(call) == [call EXCEPT !.pc = IF call.op = "create" THEN "insert" ELSE "read"]

\* fieldsForType and coerceRecordData.  A type that is gone checks nothing.
LoadFields(c) ==
    /\ calls[c].pc = "fields"
    /\ IF calls[c].type \notin DOMAIN types
       THEN Goes(c, AfterChecks([calls[c] EXCEPT !.values = calls[c].patch]))
       ELSE LET fields == types[calls[c].type]
                values == Coerced(fields, calls[c].patch)
            IN  IF ~Valid(fields, calls[c].patch, TRUE) THEN Fails(c)
                ELSE Goes(c, [calls[c] EXCEPT !.pc = "refs", !.values = values,
                                              !.refs = ReferencesIn(fields, values)])
    /\ Reading

CheckReference_skipped(c) ==
    calls[c].pc = "refs" /\ Goes(c, AfterChecks(calls[c])) /\ Reading

\* validateReferences, one reference at a time: the type it must point at and
\* the record it points at are read together, a type and its records going
\* together.
CheckReference(c) ==
    /\ calls[c].pc = "refs"
    /\ IF calls[c].refs = NoRefs THEN Goes(c, AfterChecks(calls[c]))
       ELSE \E f \in DOMAIN calls[c].refs :
              LET target == calls[c].values[f].text IN
              IF /\ calls[c].refs[f] \in DOMAIN types
                 /\ Live(target)
                 /\ records[target].type = calls[c].refs[f]
              THEN Goes(c, [calls[c] EXCEPT !.refs =
                       [g \in DOMAIN calls[c].refs \ {f} |-> calls[c].refs[g]]])
              ELSE Fails(c)
    /\ Reading

\* createRecord.  The foreign key refuses a type that is gone.
Insert(c) ==
    /\ calls[c].pc = "insert"
    /\ IF calls[c].type \notin DOMAIN types
       THEN Fails(c) /\ UNCHANGED <<records, sent, byHand>>
       ELSE /\ \E i \in Ids : records[i].state = "free"
            /\ LET i == CHOOSE j \in Ids : records[j].state = "free"
               IN  /\ Writes(i, calls[c].type, Merged(Empty, calls[c].values),
                          calls[c].values)
                   /\ Ends(c, "done", i, Merged(Empty, calls[c].values))
                   /\ byHand' = byHand \cup (IF c \in Pages THEN {i} ELSE {})
    /\ UNCHANGED crossed /\ Unmoved

\* updateRecordData reads the record again and merges into what it read.
ReadForMerge(c) ==
    /\ calls[c].pc = "read"
    /\ IF Live(calls[c].id)
       THEN /\ Goes(c, [calls[c] EXCEPT !.pc = "write",
                                        !.seen = records[calls[c].id].data])
            /\ crossed' = crossed \cup
                 {i \in {calls[c].id} : \E d \in Callers \ {c} :
                     calls[d].pc = "write" /\ calls[d].id = i}
       ELSE Fails(c) /\ UNCHANGED crossed
    /\ UNCHANGED <<records, sent, byHand>> /\ Unmoved

Patched_only(call) == Merged(Empty, call.values)
Patched(call) == Merged(call.seen, call.values)

\* The update finds its row by id, or throws.
WriteMerged(c) ==
    /\ calls[c].pc = "write"
    /\ LET i == calls[c].id IN
       IF Live(i)
       THEN /\ Writes(i, records[i].type, Patched(calls[c]), calls[c].values)
            /\ Ends(c, "done", i, Patched(calls[c]))
            /\ byHand' = byHand \cup (IF c \in Pages THEN {i} ELSE {})
       ELSE Fails(c) /\ UNCHANGED <<records, sent, byHand>>
    /\ UNCHANGED crossed /\ Unmoved

\* Any query may fail; the tool then answers with an error.
QueryFails(c) ==
    /\ Faults /\ calls[c].pc \notin {"idle", "form", "done", "failed"}
    /\ Fails(c) /\ Reading

(***************************************************************************)
(* The pages of the catalog.                                               *)
(***************************************************************************)

\* The edit page shows every field of the type as the record has it now, the
\* page of a new record shows them empty.
OpenForm(c) ==
    /\ calls[c].pc = "idle" /\ Cardinality(Busy) < AtOnce
    /\ \E type \in DOMAIN types :
         \/ Goes(c, [NoCall EXCEPT !.pc = "form", !.op = "create", !.type = type,
                        !.patch = [f \in DOMAIN types[type] |-> Blank]])
         \/ \E i \in Ids :
              /\ Live(i) /\ records[i].type = type
              /\ Goes(c, [NoCall EXCEPT !.pc = "form", !.op = "update", !.type = type,
                             !.id = i,
                             !.patch = [f \in DOMAIN types[type] |->
                                 IF f \in DOMAIN records[i].data
                                 THEN records[i].data[f] ELSE Blank]])
    /\ Reading

\* Somebody changes one field and saves: every field shown is submitted.
Submit(c) ==
    /\ calls[c].pc = "form"
    /\ \E f \in DOMAIN calls[c].patch, text \in Typed :
           Goes(c, [calls[c] EXCEPT !.pc = "getType", !.patch[f] = Neat(text)])
    /\ Reading

\* createRecordAction and updateRecordAction parse the form against the type as
\* it is now: a field the form did not show is blank, one it no longer has is
\* ignored.  References are not looked at.
Submitted(fields, form) ==
    [f \in DOMAIN fields |-> IF f \in DOMAIN form THEN form[f] ELSE Blank]

ParseForm(c) ==
    /\ calls[c].pc = "getType"
    /\ IF calls[c].type \notin DOMAIN types THEN Fails(c)
       ELSE LET fields == types[calls[c].type]
                raw == Submitted(fields, calls[c].patch)
            IN  IF Valid(fields, raw, FALSE)
                THEN Goes(c, AfterChecks([calls[c] EXCEPT !.values = Coerced(fields, raw)]))
                ELSE Fails(c)
    /\ Reading

DeleteRecord(i) ==
    /\ "delete" \in Changes /\ Live(i)
    /\ records' = [records EXCEPT ![i].state = "gone"]
    /\ UNCHANGED <<calls, sent, crossed, byHand>> /\ Unmoved

\* createEntityType.  A type made under the name of one that was dropped is
\* another type: it has another id, and no call of before has to do with it.
CreateType(t) ==
    /\ "create" \in Changes /\ t \notin DOMAIN types \cup redefined
    /\ \E fields \in Definitions[t] :
           types' = [u \in DOMAIN types \cup {t} |-> IF u = t THEN fields ELSE types[u]]
    /\ UNCHANGED <<records, calls, sent, crossed, byHand, redefined>>

\* deleteEntityType cascades to the type's records.
DropType(t) ==
    /\ "drop" \in Changes /\ t \in DOMAIN types
    /\ types' = [u \in DOMAIN types \ {t} |-> types[u]]
    /\ records' = [i \in Ids |-> IF Live(i) /\ records[i].type = t
                                 THEN [records[i] EXCEPT !.state = "gone"]
                                 ELSE records[i]]
    /\ redefined' = redefined \cup {t}
    /\ UNCHANGED <<calls, sent, crossed, byHand>>

\* updateEntityType leaves the records of the type as they are.
Redefine(t) ==
    /\ "define" \in Changes /\ t \in DOMAIN types
    /\ \E fields \in Definitions[t] \ {types[t]} :
           types' = [types EXCEPT ![t] = fields]
    /\ redefined' = redefined \cup {t}
    /\ UNCHANGED <<records, calls, sent, crossed, byHand>>

CallSteps(c) ==
    \/ Resolve(c) \/ FindByValue(c) \/ SearchByText(c) \/ FindExisting(c) \/ LoadFields(c)
    \/ CheckReference(c) \/ Insert(c) \/ ReadForMerge(c) \/ WriteMerged(c)
    \/ QueryFails(c)

CatalogSteps ==
    \/ \E c \in Agents : CallTool(c) \/ CallSteps(c)
    \/ \E c \in Pages : OpenForm(c) \/ Submit(c) \/ ParseForm(c) \/ CallSteps(c)
    \/ \E i \in Ids : DeleteRecord(i)
    \/ \E t \in Types : CreateType(t) \/ DropType(t) \/ Redefine(t)

(***************************************************************************)
(* Properties.                                                             *)
(***************************************************************************)

\* updateRecordData merges: a write changes the fields it names and no other,
\* so a record is what its patches make it, one after the other.  Only two
\* writes that read the record before either stored it can lose a field.
WritesMerge ==
    \A i \in Ids \ crossed : Live(i) => records[i].data = sent[i]

\* validateReferences: a reference the tools stored names a record that is, or
\* was until it was deleted, of the type its field points at.  Records a page
\* saved are not checked; a type redefined since promised something else.
ReferencesHold ==
    \A i \in Ids \ byHand :
        Live(i) /\ records[i].type \in DOMAIN types \ redefined =>
            LET fields == types[records[i].type]
                refs == ReferencesIn(fields, records[i].data)
            IN  \A f \in DOMAIN refs :
                    LET target == records[i].data[f].text
                    IN  /\ target \in Ids
                        /\ records[target].state # "free"
                        /\ records[target].type = refs[f]

\* coerceRecordData and the forms: whoever wrote it, what is stored under a
\* field of a type is a value that field stores, in the form it stores it.
StoredTyped ==
    \A i \in Ids :
        Live(i) /\ records[i].type \in DOMAIN types \ redefined =>
            LET fields == types[records[i].type]
                data == records[i].data
            IN  \A f \in DOMAIN fields \cap DOMAIN data :
                    data[f].neat /\ Accepts(fields[f], data[f])
=============================================================================
