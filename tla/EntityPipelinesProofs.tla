---------------------- MODULE EntityPipelinesProofs ----------------------
(***************************************************************************)
(* What holds of every business's records and files, whoever works on them *)
(* at once: what is stored is of its type and its references hold, a write *)
(* loses no field of another that it did not overlap, a signal has its     *)
(* effects in order and all of them before its run ends well, calls that   *)
(* no other raced share one folder per path and one file per name, and     *)
(* signals that no other raced keep one record per key.                    *)
(*                                                                         *)
(* Records, the store and the runs each have an invariant of their own;    *)
(* the runs' one rests on the other two, and those of the folders, of the  *)
(* files and of the keys on all three.                                     *)
(***************************************************************************)
EXTENDS EntityPipelines, FiniteSetTheorems, TLAPS

-----------------------------------------------------------------------------
(* The invariant of the records.                                            *)

\* The types nobody has redefined, and those a call may be about.
Fixed == DOMAIN types \ redefined
Known(t) == t \in DOMAIN types \cup redefined

\* A record of the type is, or was, there.
Kept(i, t) == i \in Ids /\ records[i].state # "free" /\ records[i].type = t

\* The values are in the form the type stores them, those that are stored.
ValuesFit(t, data) ==
    t \in Fixed => \A f \in DOMAIN types[t] \cap DOMAIN data :
        data[f] # Undefined => data[f].neat /\ Accepts(types[t][f], data[f])

\* The references among them hold, of the fields that are not still to check.
RefsHold(t, data, left) ==
    t \in Fixed => \A f \in (DOMAIN types[t] \cap DOMAIN data) \ left :
        types[t][f].kind = "reference" /\ data[f] \notin {Blank, Undefined}
            => Kept(data[f].text, types[t][f].target)

Targets(t, refs) ==
    t \in Fixed => \A f \in DOMAIN refs : f \in DOMAIN types[t] /\ refs[f] = types[t][f].target

\* What a call has found out and still holds.  It read what it is about to
\* write over; another write of the record in between has crossed it.
CallFits(c, k) ==
    /\ k.pc = "existing" => k.op = "update"
    /\ k.pc \in {"form", "getType", "fields", "refs", "insert", "read", "write"}
          => /\ Known(k.type) /\ k.op \in {"create", "update"}
             /\ k.op = "update" => Kept(k.id, k.type)
    /\ k.pc = "insert" => k.op = "create"
    /\ k.pc \in {"read", "write"} => k.op = "update"
    /\ k.pc \in {"refs", "insert", "read", "write"} => ValuesFit(k.type, k.values)
    /\ k.pc = "refs" => Targets(k.type, k.refs) /\ RefsHold(k.type, k.values, DOMAIN k.refs)
    /\ k.pc \in {"insert", "read", "write"} /\ c \notin Pages => RefsHold(k.type, k.values, {})
    /\ k.pc = "write"
          => /\ ValuesFit(k.type, k.seen)
             /\ k.id \notin byHand => RefsHold(k.type, k.seen, {})
             /\ Live(k.id) /\ k.id \notin crossed => k.seen = records[k.id].data
    /\ k.pc = "done" => k.values \in Data /\ (k.id # "" => records[k.id].state # "free")

WritingTo(c, i) == calls[c].pc = "write" /\ calls[c].id = i

RecordsInv ==
    /\ RecordsTypeOK
    /\ \A i \in Ids : Live(i) => records[i].type \in DOMAIN types
    /\ \A i \in Ids : records[i].state = "free" => sent[i] = Empty
    /\ \A i \in Ids \ crossed : Live(i) => records[i].data = sent[i]
    /\ \A i \in Ids \ crossed : \A c, d \in Callers : WritingTo(c, i) /\ WritingTo(d, i) => c = d
    /\ \A i \in Ids : Live(i) => ValuesFit(records[i].type, records[i].data)
    /\ \A i \in Ids \ byHand : Live(i) => RefsHold(records[i].type, records[i].data, {})
    /\ \A c \in Callers : CallFits(c, calls[c])

-----------------------------------------------------------------------------
(* The invariants of the store's calls and of the runs.                     *)

\* What a call of the store's has and needs from where it is.
RequestSound(q) ==
    /\ q.pc = "mkdir" => q.left # <<>>
    /\ q.pc \notin {"idle", "refused"} /\ q.op # "folder" => q.name # ""
    /\ q.pc \in {"walk", "mkdir", "findFile", "patch", "upload"} /\ q.op # "folder"
          => q.content \in Contents
    /\ q.pc \in {"access", "walk", "mkdir"} /\ q.op = "file" => q.content \in Contents
    /\ q.pc \in {"findFile", "patch", "upload"} => q.op # "folder"

\* Its folder is there when it has walked to it.
RequestFits(q) ==
    /\ RequestSound(q)
    /\ q.pc \in {"findFile", "patch", "upload", "saved"} => Made(q.path)

RequestsInv == DriveTypeOK /\ \A r \in Requests : RequestFits(requests[r])

\* A path of the run's that is not made is still to be asked for, or has been
\* asked for and is on its way, or has been refused.
Pending(r, path) ==
    \/ Made(path)
    \/ \E k \in DOMAIN runs[r].paths : runs[r].paths[k] = path
    \/ requests[r].pc = "refused"
    \/ requests[r].pc \notin {"idle", "saved"} /\ requests[r].path = path

PathsMade(r) ==
    \A t \in TransitionOf(r) : \A k \in DOMAIN PathsFor(t, runs[r].data) :
        Made(PathsFor(t, runs[r].data)[k])

Noticed(r) == \A t \in TransitionOf(r) : t.notify => r \in posted

\* A call that creates or updates a record, and when it is done has the record.
Saving(k) ==
    /\ k.pc \in {"resolve", "existing", "fields", "refs", "insert", "read", "write", "done",
                 "failed"}
    /\ k.pc = "resolve" => k.op \in {"create", "update"}
    /\ k.pc = "done" => k.id \in Ids

RunFits(r) ==
    /\ runs[r].pc \in {"folder", "notify", "mail"} \/ r \in posted \cup proposed
          => runs[r].id \in Ids /\ records[runs[r].id].state # "free"
    /\ runs[r].pc = "save" => Saving(calls[r])
    /\ runs[r].pc = "folder" =>
          \A t \in TransitionOf(r) : \A k \in DOMAIN PathsFor(t, runs[r].data) :
              Pending(r, PathsFor(t, runs[r].data)[k])
    /\ runs[r].pc \in {"notify", "mail"} \/ r \in posted \cup proposed => PathsMade(r)
    /\ runs[r].pc = "mail" \/ r \in proposed => Noticed(r)
    /\ r \in posted => runs[r].pc \in {"mail", "over"}
    /\ r \in proposed <=> runs[r].status = "WAITING_FOR_APPROVAL"
    /\ runs[r].status = "RUNNING" <=> runs[r].pc # "over"
    /\ runs[r].status = "COMPLETED" /\ r \in Signals =>
          /\ PathsMade(r) /\ Noticed(r)
          /\ \A t \in TransitionOf(r) : ~t.mail
    /\ runs[r].pc \in {"save", "folder", "notify", "mail"} => r \in Signals
    /\ runs[r].pc \in {"body", "attach"} => r \in Mails

RunsInv ==
    /\ cast \in Casts /\ runs \in [Runs -> Run]
    /\ posted \subseteq Runs /\ proposed \subseteq Runs /\ contested \subseteq Texts
    /\ \A r \in Runs : RunFits(r)

PipelinesInv == RecordsInv /\ RequestsInv /\ RunsInv

-----------------------------------------------------------------------------
(* Data and patches.                                                        *)

LEMMA PartialIntro ==
    ASSUME NEW D, NEW R, NEW E \in SUBSET D, NEW f \in [E -> R]
    PROVE  f \in Partial(D, R)
BY DEF Partial

LEMMA PartialElim ==
    ASSUME NEW D, NEW R, NEW f \in Partial(D, R)
    PROVE  /\ f = [x \in DOMAIN f |-> f[x]] /\ DOMAIN f \subseteq D
           /\ \A x \in DOMAIN f : f[x] \in R
<1>1. PICK E \in SUBSET D : f \in [E -> R]
  BY DEF Partial
<1> QED  BY <1>1

LEMMA Values ==
    /\ Blank \in Value \ {Undefined} /\ Undefined \in Value
    /\ \A t \in Texts : Neat(t) \in Value \ {Undefined, Blank}
    /\ \A v \in Value : v.text = "" => v \in {Blank, Undefined}
<1>1. \A t \in Texts : t # ""
  BY ConstantsAssumption
<1>2. Blank \in Value /\ Undefined \in Value
  BY DEF Value, Blank, Undefined
<1>3. Blank.neat = FALSE /\ Undefined.neat = TRUE /\ Blank.text = "" /\ Undefined.text = ""
  BY DEF Blank, Undefined
<1>4. \A t \in Texts : Neat(t) \in Value /\ Neat(t).text = t
  BY DEF Neat, Value
<1>5. ASSUME NEW v \in Value, v.text = ""
      PROVE  v \in {Blank, Undefined}
  <2>1. CASE v.neat = TRUE
    BY <1>5, <2>1 DEF Value, Undefined
  <2>2. CASE v.neat = FALSE
    BY <1>5, <2>2 DEF Value, Blank
  <2>3. v.neat \in BOOLEAN
    BY DEF Value
  <2> QED  BY <2>1, <2>2, <2>3
<1> QED  BY <1>1, <1>2, <1>3, <1>4, <1>5

LEMMA EmptyTyped ==
    /\ Empty \in Data /\ DOMAIN Empty = {} /\ Empty \in Partial(Fields, Value)
    /\ NoRefs \in Partial(Fields, Types) /\ DOMAIN NoRefs = {}
<1>1. {} \in SUBSET Fields /\ DOMAIN Empty = {} /\ DOMAIN NoRefs = {}
  BY DEF Empty, NoRefs
<1>2. Empty \in [{} -> Value \ {Undefined}] /\ Empty \in [{} -> Value]
  BY DEF Empty
<1>3. NoRefs \in [{} -> Types]
  BY DEF NoRefs
<1>4. Empty \in Partial(Fields, Value \ {Undefined}) /\ Empty \in Partial(Fields, Value)
  BY <1>1, <1>2, PartialIntro
<1> QED  BY <1>1, <1>3, <1>4, PartialIntro DEF Data

LEMMA DataWide ==
    ASSUME NEW data \in Data
    PROVE  data \in Partial(Fields, Value)
<1>1. PICK E \in SUBSET Fields : data \in [E -> Value \ {Undefined}]
  BY DEF Data, Partial
<1>2. data \in [E -> Value]
  BY <1>1
<1> QED  BY <1>1, <1>2, PartialIntro

\* What is merged is data, and holds each field of the patch that is not
\* dropped, and the others as they were.
LEMMA MergedData ==
    ASSUME NEW data \in Data, NEW patch \in Partial(Fields, Value)
    PROVE  /\ Merged(data, patch) \in Data
           /\ \A f \in DOMAIN Merged(data, patch) :
                 \/ f \in DOMAIN patch /\ Merged(data, patch)[f] = patch[f] /\ patch[f] # Undefined
                 \/ f \in DOMAIN data /\ Merged(data, patch)[f] = data[f] /\ f \notin DOMAIN patch
<1> DEFINE at(f) == IF f \in DOMAIN patch THEN patch[f] ELSE data[f]
           E == {g \in DOMAIN data \cup DOMAIN patch : at(g) # Undefined}
<1>1. /\ DOMAIN data \subseteq Fields /\ \A f \in DOMAIN data : data[f] \in Value \ {Undefined}
  BY PartialElim DEF Data
<1>2. /\ DOMAIN patch \subseteq Fields /\ \A f \in DOMAIN patch : patch[f] \in Value
  BY PartialElim
<1>3. Merged(data, patch) = [f \in E |-> at(f)]
  BY DEF Merged
<1>4. E \in SUBSET Fields /\ \A f \in E : at(f) \in Value \ {Undefined}
  BY <1>1, <1>2
<1>5. [f \in E |-> at(f)] \in [E -> Value \ {Undefined}]
  BY <1>4
<1>6. [f \in E |-> at(f)] \in Data
  BY <1>4, <1>5, PartialIntro DEF Data
<1> QED  BY <1>3, <1>4, <1>6

LEMMA CoercedTyped ==
    ASSUME NEW fields \in Definition, NEW data \in Data
    PROVE  /\ Coerced(fields, data) \in Partial(Fields, Value)
           /\ DOMAIN Coerced(fields, data) = DOMAIN data
<1>1. /\ DOMAIN data \subseteq Fields /\ \A f \in DOMAIN data : data[f] \in Value \ {Undefined}
  BY PartialElim DEF Data
<1>2. \A f \in DOMAIN data : data[f] # Blank => data[f].text \in Texts
  BY <1>1, Values DEF Value
<1>3. Coerced(fields, data) \in [DOMAIN data -> Value]
  BY <1>1, <1>2, Values DEF Coerced
<1> QED  BY <1>1, <1>3, PartialIntro DEF Coerced

\* What is parsed and coerced is what the fields store.
LEMMA CoercedFits ==
    ASSUME NEW fields \in Definition, NEW data \in Data, NEW partial \in BOOLEAN,
           Valid(fields, data, partial), NEW f \in DOMAIN fields \cap DOMAIN data,
           Coerced(fields, data)[f] # Undefined
    PROVE  /\ Coerced(fields, data)[f].neat
           /\ Accepts(fields[f], Coerced(fields, data)[f])
<1>1. /\ DOMAIN data \subseteq Fields /\ \A g \in DOMAIN data : data[g] \in Value \ {Undefined}
  BY PartialElim DEF Data
<1>2. Coerced(fields, data)[f] = Neat(data[f].text) /\ data[f] # Blank
  BY DEF Coerced
<1>3. Accepts(fields[f], data[f])
  BY DEF Valid
<1>4. Neat(data[f].text) # Blank /\ Neat(data[f].text).neat
  BY DEF Neat, Blank
<1>5. Neat(data[f].text).text = data[f].text
  BY DEF Neat
<1> QED  BY <1>2, <1>3, <1>4, <1>5 DEF Accepts

LEMMA ReferencesTyped ==
    ASSUME NEW fields \in Definition, NEW values \in Partial(Fields, Value)
    PROVE  /\ ReferencesIn(fields, values) \in Partial(Fields, Types)
           /\ \A f : f \in DOMAIN ReferencesIn(fields, values)
                 <=> /\ f \in DOMAIN fields \cap DOMAIN values
                     /\ fields[f].kind = "reference"
                     /\ values[f] \notin {Blank, Undefined}
           /\ \A f \in DOMAIN ReferencesIn(fields, values) :
                 ReferencesIn(fields, values)[f] = fields[f].target
<1> DEFINE E == {g \in DOMAIN fields \cap DOMAIN values :
                   fields[g].kind = "reference" /\ values[g] \notin {Blank, Undefined}}
<1>1. DOMAIN fields \subseteq Fields /\ \A f \in DOMAIN fields : fields[f] \in Field
  BY PartialElim DEF Definition
<1>2. ReferencesIn(fields, values) = [f \in E |-> fields[f].target]
  BY DEF ReferencesIn
<1>3. [f \in E |-> fields[f].target] \in [E -> Types] /\ E \in SUBSET Fields
  BY <1>1 DEF Field
<1> QED  BY <1>2, <1>3, PartialIntro

-----------------------------------------------------------------------------
(* What a step leaves as it found it.                                       *)

\* A record stays of its type, a type stays known, and one that is not
\* redefined keeps its definition.
Grows ==
    /\ \A i, t : Kept(i, t) => Kept(i, t)'
    /\ byHand \subseteq byHand' /\ crossed \subseteq crossed'
    /\ \A t : Known(t) => Known(t)'
    /\ \A t \in Fixed' : Known(t) => t \in Fixed /\ types'[t] = types[t]

LEMMA ValuesStill ==
    ASSUME Grows, NEW t, Known(t), NEW data, ValuesFit(t, data)
    PROVE  ValuesFit(t, data)'
BY DEF Grows, ValuesFit

LEMMA RefsStill ==
    ASSUME Grows, NEW t, Known(t), NEW data, NEW left, RefsHold(t, data, left)
    PROVE  RefsHold(t, data, left)'
BY DEF Grows, RefsHold

LEMMA TargetsStill ==
    ASSUME Grows, NEW t, Known(t), NEW refs, Targets(t, refs)
    PROVE  Targets(t, refs)'
BY DEF Grows, Targets

LEMMA FitsStill ==
    ASSUME Grows, NEW c, NEW k \in Call, CallFits(c, k), RecordsTypeOK,
           k.pc = "write" /\ Live(k.id)' /\ k.id \notin crossed'
               => Live(k.id) /\ records'[k.id].data = records[k.id].data
    PROVE  CallFits(c, k)'
<1>1. k.pc \in {"form", "getType", "fields", "refs", "insert", "read", "write"}
        => /\ Known(k.type)' /\ k.op \in {"create", "update"}
           /\ k.op = "update" => Kept(k.id, k.type)'
  BY DEF Grows, CallFits
<1>2. k.pc \in {"refs", "insert", "read", "write"} => ValuesFit(k.type, k.values)'
  BY ValuesStill DEF CallFits
<1>3. k.pc = "refs" => Targets(k.type, k.refs)' /\ RefsHold(k.type, k.values, DOMAIN k.refs)'
  BY TargetsStill, RefsStill DEF CallFits
<1>4. k.pc \in {"insert", "read", "write"} /\ c \notin Pages => RefsHold(k.type, k.values, {})'
  BY RefsStill DEF CallFits
<1>5. k.pc = "write" => ValuesFit(k.type, k.seen)'
  BY ValuesStill DEF CallFits
<1>6. k.pc = "write" /\ k.id \notin byHand' => RefsHold(k.type, k.seen, {})'
  BY RefsStill DEF CallFits, Grows
<1>7. k.pc = "write" /\ Live(k.id)' /\ k.id \notin crossed' => k.seen = records'[k.id].data
  BY DEF CallFits, Grows
<1>8. k.pc = "done" /\ k.id # "" => records'[k.id].state # "free"
  <2>1. k.id # "" => k.id \in Ids
    BY DEF Call
  <2> QED  BY <2>1 DEF CallFits, Grows, Kept
<1> QED
  BY <1>1, <1>2, <1>3, <1>4, <1>5, <1>6, <1>7, <1>8 DEF CallFits

LEMMA ReadingGrows ==
    ASSUME UNCHANGED <<types, records, redefined>>, byHand \subseteq byHand',
           crossed \subseteq crossed'
    PROVE  Grows
BY DEF Grows, Kept, Known, Fixed

\* A call goes on and changes nothing but its own state.
LEMMA CallMoves ==
    ASSUME RecordsInv, NEW c \in Callers, NEW k \in Call, Goes(c, k), Reading,
           CallFits(c, k), k.pc # "write"
    PROVE  RecordsInv'
<1> USE DEF Reading
<1>1. calls' \in [Callers -> Call] /\ calls'[c] = k
      /\ \A d \in Callers \ {c} : calls'[d] = calls[d]
  BY DEF Goes, RecordsInv, RecordsTypeOK
<1>2. RecordsTypeOK'
  BY <1>1 DEF RecordsInv, RecordsTypeOK
<1>3. \A d \in Callers : CallFits(d, calls'[d])
  BY <1>1 DEF RecordsInv
<1>7. Grows /\ RecordsTypeOK
  BY ReadingGrows DEF RecordsInv
<1>8. ASSUME NEW d \in Callers, NEW m \in Call, CallFits(d, m)  PROVE CallFits(d, m)'
  BY <1>7, <1>8, FitsStill DEF Live
<1>4. ASSUME NEW d \in Callers  PROVE CallFits(d, calls[d])'
  BY <1>1, <1>3, <1>8 DEF RecordsTypeOK
<1>5. ASSUME NEW i \in Ids \ crossed', NEW d \in Callers, NEW e \in Callers,
             WritingTo(d, i)', WritingTo(e, i)'
      PROVE  d = e
  BY <1>1, <1>5 DEF RecordsInv, WritingTo
<1>6. /\ \A i \in Ids : Live(i)' => records'[i].type \in DOMAIN types'
      /\ \A i \in Ids : records'[i].state = "free" => sent'[i] = Empty
      /\ \A i \in Ids \ crossed' : Live(i)' => records'[i].data = sent'[i]
      /\ \A i \in Ids : Live(i)' => ValuesFit(records[i].type, records[i].data)'
      /\ \A i \in Ids \ byHand' : Live(i)' => RefsHold(records[i].type, records[i].data, {})'
  BY DEF RecordsInv, ValuesFit, RefsHold, Fixed, Kept, Live
<1> QED
  BY <1>2, <1>4, <1>5, <1>6 DEF RecordsInv

-----------------------------------------------------------------------------
(* The steps of a call that read.                                           *)

LEMMA NoCallTyped ==
    /\ NoCall \in Call /\ NoCall.pc = "idle" /\ NoCall.id = "" /\ NoCall.values = Empty
    /\ NoRecord.type \in Types /\ NoRecord.state = "free" /\ NoRecord.data = Empty
<1>1. (CHOOSE t \in Types : TRUE) \in Types
  BY ConstantsAssumption
<1> QED  BY <1>1, EmptyTyped DEF NoCall, Call, NoRecord

\* A call that has ended, as its caller sees it.
Ended(c, how, id, data) ==
    IF c \in Pipelines THEN [NoCall EXCEPT !.pc = how, !.id = id, !.values = data]
    ELSE [NoCall EXCEPT !.pc = "done"]

LEMMA EndedTyped ==
    ASSUME NEW c \in Callers, NEW how \in {"done", "failed"}, NEW id \in Ids \cup {""},
           NEW data \in Data
    PROVE  /\ Ended(c, how, id, data) \in Call
           /\ Ended(c, how, id, data).pc \in {"done", "failed"}
           /\ Ended(c, how, id, data).values \in Data
           /\ Ended(c, how, id, data).id \in {id, ""}
           /\ c \in Pipelines => /\ Ended(c, how, id, data).pc = how
                                 /\ Ended(c, how, id, data).id = id
                                 /\ Ended(c, how, id, data).values = data
<1> DEFINE k == Ended(c, how, id, data)
<1>1. data \in Partial(Fields, Value)
  BY DataWide
<1>2. CASE c \in Pipelines
  <2>1. k = [NoCall EXCEPT !.pc = how, !.id = id, !.values = data]
    BY <1>2 DEF Ended
  <2> HIDE DEF k
  <2>2. k \in Call /\ k.pc = how /\ k.id = id /\ k.values = data
    BY <1>1, <2>1, NoCallTyped DEF Call
  <2> QED  BY <2>2 DEF k
<1>3. CASE c \notin Pipelines
  <2>1. k = [NoCall EXCEPT !.pc = "done"]
    BY <1>3 DEF Ended
  <2> HIDE DEF k
  <2>2. k \in Call /\ k.pc = "done" /\ k.id = "" /\ k.values = Empty
    BY <2>1, NoCallTyped DEF Call
  <2> QED  BY <1>3, <2>2, EmptyTyped DEF k
<1> QED  BY <1>2, <1>3

LEMMA EndedFits ==
    ASSUME NEW c, NEW k \in Call,
           \/ k.pc \in {"idle", "failed", "find", "search", "resolve"}
           \/ /\ k.pc = "done" /\ k.values \in Data
              /\ k.id # "" => records[k.id].state # "free"
    PROVE  CallFits(c, k)
BY DEF CallFits

LEMMA EndsKeeps ==
    ASSUME RecordsInv, NEW c \in Callers, NEW how \in {"done", "failed"},
           NEW id \in Ids \cup {""}, id # "" => records[id].state # "free", NEW data \in Data,
           Ends(c, how, id, data), Reading
    PROVE  RecordsInv'
<1> DEFINE k == Ended(c, how, id, data)
<1>1. Goes(c, k)
  BY DEF Ends, Ended
<1>2. k \in Call /\ k.pc \in {"done", "failed"} /\ k.values \in Data /\ k.id \in {id, ""}
  BY EndedTyped
<1> HIDE DEF k
<1>3. CallFits(c, k)
  BY <1>2, EndedFits
<1> QED  BY <1>1, <1>2, <1>3, CallMoves

LEMMA FailsKeeps ==
    ASSUME RecordsInv, NEW c \in Callers, Fails(c), Reading
    PROVE  RecordsInv'
BY EndsKeeps, EmptyTyped DEF Fails

LEMMA InvokeKeeps ==
    ASSUME RecordsInv, NEW c \in Callers, NEW op \in {"find", "search", "create", "update"},
           NEW type \in Types, NEW id \in Ids \cup {""}, NEW patch \in Data,
           Invoke(c, op, type, id, patch), Reading
    PROVE  /\ RecordsInv'
           /\ calls'[c].pc = "resolve" /\ calls'[c].op = op
           /\ \A d \in Callers \ {c} : calls'[d] = calls[d]
<1> DEFINE k == [NoCall EXCEPT !.pc = "resolve", !.op = op, !.type = type,
                               !.id = id, !.patch = patch]
<1>1. k \in Call /\ k.pc = "resolve" /\ k.op = op
  BY NoCallTyped DEF Call
<1>2. Goes(c, k)
  BY DEF Invoke
<1> HIDE DEF k
<1>3. CallFits(c, k)
  BY <1>1, EndedFits
<1>4. RecordsInv'
  BY <1>1, <1>2, <1>3, CallMoves
<1>5. calls'[c] = k /\ \A d \in Callers \ {c} : calls'[d] = calls[d]
  BY <1>2 DEF Goes, RecordsInv, RecordsTypeOK
<1> QED  BY <1>1, <1>4, <1>5

LEMMA CallToolKeeps ==
    ASSUME RecordsInv, NEW c \in Callers, CallTool(c)
    PROVE  RecordsInv'
<1>1. PICK ask \in Asks : Invoke(c, ask.op, ask.type, ask.id, ask.patch)
  BY DEF CallTool
<1>2. /\ ask.op \in {"find", "search", "create", "update"} /\ ask.type \in Types
      /\ ask.id \in Ids \cup {""} /\ ask.patch \in Data
  BY ConstantsAssumption
<1>3. Reading
  BY DEF CallTool
<1> QED  BY <1>1, <1>2, <1>3, InvokeKeeps

LEMMA CallOf ==
    ASSUME RecordsInv, NEW c \in Callers
    PROVE  calls[c] \in Call /\ CallFits(c, calls[c])
BY DEF RecordsInv, RecordsTypeOK

LEMMA ResolveKeeps ==
    ASSUME RecordsInv, NEW c \in Callers, Resolve(c)
    PROVE  RecordsInv'
<1>1. CASE calls[c].type \notin DOMAIN types
  BY <1>1, FailsKeeps DEF Resolve
<1>2. CASE calls[c].type \in DOMAIN types
  <2> DEFINE next == CASE calls[c].op \in {"find", "search"} -> calls[c].op
                       [] calls[c].op = "create" -> "fields"
                       [] calls[c].op = "update" -> "existing"
             k == [calls[c] EXCEPT !.pc = next]
  <2>1. Goes(c, k) /\ Reading
    BY <1>2 DEF Resolve
  <2>2. \/ calls[c].op \in {"find", "search"} /\ next \in {"find", "search"}
        \/ calls[c].op = "create" /\ next = "fields"
        \/ calls[c].op = "update" /\ next = "existing"
    BY CallOf DEF Call
  <2> HIDE DEF next
  <2>3. k \in Call /\ k.pc = next /\ k.op = calls[c].op /\ k.type = calls[c].type
    BY <2>2, CallOf DEF Call
  <2> HIDE DEF k
  <2>4. CallFits(c, k) /\ k.pc # "write"
    BY <1>2, <2>2, <2>3 DEF CallFits, Known
  <2> QED  BY <2>1, <2>3, <2>4, CallMoves
<1> QED  BY <1>1, <1>2

LEMMA FindByValueKeeps ==
    ASSUME RecordsInv, NEW c \in Callers, FindByValue(c)
    PROVE  RecordsInv'
<1>1. PICK f : AnswersOne(c, Holding(calls[c].type, f, calls[c].patch[f]))
  BY DEF FindByValue
<1>2. Reading
  BY DEF FindByValue
<1>3. CASE Ends(c, "done", "", Empty)
  BY <1>2, <1>3, EndsKeeps, EmptyTyped
<1>4. CASE \E i \in Holding(calls[c].type, f, calls[c].patch[f]) :
              Ends(c, "done", i, records[i].data)
  <2>1. PICK i \in Ids : Live(i) /\ Ends(c, "done", i, records[i].data)
    BY <1>4 DEF Holding
  <2>2. records[i].data \in Data /\ records[i].state # "free"
    BY <2>1 DEF RecordsInv, RecordsTypeOK, Live
  <2> QED  BY <1>2, <2>1, <2>2, EndsKeeps
<1> QED  BY <1>1, <1>3, <1>4 DEF AnswersOne

LEMMA FindExistingKeeps ==
    ASSUME RecordsInv, NEW c \in Callers, FindExisting(c)
    PROVE  RecordsInv'
<1>1. CASE ~Live(calls[c].id)
  BY <1>1, FailsKeeps DEF FindExisting
<1>2. CASE Live(calls[c].id)
  <2> DEFINE i == calls[c].id
             k == [calls[c] EXCEPT !.pc = "fields", !.type = records[i].type]
  <2>1. Goes(c, k) /\ Reading
    BY <1>2 DEF FindExisting
  <2>2. /\ i \in Ids /\ records[i].state = "live" /\ records[i].type \in Types
        /\ records[i].type \in DOMAIN types
    BY <1>2 DEF RecordsInv, RecordsTypeOK, Live
  <2>3. k \in Call /\ k.pc = "fields" /\ k.op = "update" /\ k.type = records[i].type
        /\ k.id = i
    BY <2>2, CallOf DEF Call, FindExisting, CallFits
  <2> HIDE DEF k
  <2>4. CallFits(c, k) /\ k.pc # "write"
    BY <2>2, <2>3 DEF CallFits, Known, Kept
  <2> QED  BY <2>1, <2>3, <2>4, CallMoves
<1> QED  BY <1>1, <1>2

\* A call whose checks are done.
LEMMA Checked ==
    ASSUME RecordsInv, NEW c \in Callers, NEW k \in Call, k.op \in {"create", "update"},
           Known(k.type), k.op = "update" => Kept(k.id, k.type),
           ValuesFit(k.type, k.values), c \notin Pages => RefsHold(k.type, k.values, {}),
           Goes(c, AfterChecks(k)), Reading
    PROVE  RecordsInv'
<1> DEFINE m == AfterChecks(k)
<1>1. /\ m \in Call /\ m.op = k.op /\ m.type = k.type /\ m.id = k.id /\ m.values = k.values
      /\ \/ m.op = "create" /\ m.pc = "insert"
         \/ m.op = "update" /\ m.pc = "read"
  BY DEF Call, AfterChecks
<1> HIDE DEF m
<1>2. CallFits(c, m) /\ m.pc # "write"
  BY <1>1 DEF CallFits
<1> QED  BY <1>1, <1>2, CallMoves DEF m

LEMMA LoadFieldsKeeps ==
    ASSUME RecordsInv, NEW c \in Callers, LoadFields(c)
    PROVE  RecordsInv'
<1> DEFINE t == calls[c].type
<1>1. /\ calls[c] \in Call /\ Known(t) /\ calls[c].op \in {"create", "update"}
      /\ calls[c].op = "update" => Kept(calls[c].id, t)
      /\ calls[c].patch \in Data /\ Reading
  BY CallOf DEF Call, CallFits, LoadFields
<1>2. CASE t \notin DOMAIN types
  <2> DEFINE k == [calls[c] EXCEPT !.values = calls[c].patch]
  <2>1. Goes(c, AfterChecks(k))
    BY <1>2 DEF LoadFields
  <2>2. /\ k \in Call /\ k.op = calls[c].op /\ k.type = t /\ k.id = calls[c].id
    BY <1>1, DataWide DEF Call
  <2> HIDE DEF k
  <2>3. ValuesFit(t, k.values) /\ RefsHold(t, k.values, {})
    BY <1>2 DEF ValuesFit, RefsHold, Fixed
  <2> QED  BY <1>1, <2>1, <2>2, <2>3, Checked
<1>3. CASE t \in DOMAIN types /\ ~Valid(types[t], calls[c].patch, TRUE)
  BY <1>1, <1>3, FailsKeeps DEF LoadFields
<1>4. CASE t \in DOMAIN types /\ Valid(types[t], calls[c].patch, TRUE)
  <2> DEFINE values == Coerced(types[t], calls[c].patch)
             refs == ReferencesIn(types[t], values)
             k == [calls[c] EXCEPT !.pc = "refs", !.values = values, !.refs = refs]
  <2>1. Goes(c, k)
    BY <1>4 DEF LoadFields
  <2>2. types[t] \in Definition
    BY <1>4 DEF RecordsInv, RecordsTypeOK
  <2>3. values \in Partial(Fields, Value) /\ DOMAIN values = DOMAIN calls[c].patch
    BY <1>1, <2>2, CoercedTyped
  <2>4. \A f \in DOMAIN types[t] \cap DOMAIN values :
            values[f] # Undefined => values[f].neat /\ Accepts(types[t][f], values[f])
    BY <1>1, <1>4, <2>2, <2>3, CoercedFits
  <2> HIDE DEF values
  <2>5. /\ refs \in Partial(Fields, Types)
        /\ \A f : f \in DOMAIN refs
             <=> /\ f \in DOMAIN types[t] \cap DOMAIN values
                 /\ types[t][f].kind = "reference" /\ values[f] \notin {Blank, Undefined}
        /\ \A f \in DOMAIN refs : refs[f] = types[t][f].target
    BY <2>2, <2>3, ReferencesTyped
  <2> HIDE DEF refs
  <2>6. /\ k \in Call /\ k.pc = "refs" /\ k.op = calls[c].op /\ k.type = t
        /\ k.id = calls[c].id /\ k.values = values /\ k.refs = refs
    BY <1>1, <2>3, <2>5 DEF Call
  <2> HIDE DEF k
  <2>7. ValuesFit(t, values) /\ Targets(t, refs) /\ RefsHold(t, values, DOMAIN refs)
    BY <2>4, <2>5 DEF ValuesFit, Targets, RefsHold
  <2>8. CallFits(c, k) /\ k.pc # "write"
    BY <1>1, <2>6, <2>7 DEF CallFits
  <2> QED  BY <1>1, <2>1, <2>6, <2>8, CallMoves
<1> QED  BY <1>2, <1>3, <1>4

LEMMA CheckReferenceKeeps ==
    ASSUME RecordsInv, NEW c \in Callers, CheckReference(c)
    PROVE  RecordsInv'
<1> DEFINE t == calls[c].type
           values == calls[c].values
           refs == calls[c].refs
<1>1. /\ calls[c] \in Call /\ Known(t) /\ calls[c].op \in {"create", "update"}
      /\ calls[c].op = "update" => Kept(calls[c].id, t)
      /\ ValuesFit(t, values) /\ Targets(t, refs) /\ RefsHold(t, values, DOMAIN refs)
      /\ refs \in Partial(Fields, Types) /\ Reading
  BY CallOf DEF Call, CallFits, CheckReference
<1>2. CASE refs = NoRefs
  <2>1. Goes(c, AfterChecks(calls[c])) /\ RefsHold(t, values, {})
    BY <1>1, <1>2, EmptyTyped DEF CheckReference
  <2> QED  BY <1>1, <2>1, Checked
<1>3. CASE refs # NoRefs
  <2>1. PICK f \in DOMAIN refs :
          IF /\ refs[f] \in DOMAIN types /\ Live(values[f].text)
             /\ records[values[f].text].type = refs[f]
          THEN Goes(c, [calls[c] EXCEPT !.refs = [g \in DOMAIN refs \ {f} |-> refs[g]]])
          ELSE Fails(c)
    BY <1>3 DEF CheckReference
  <2>2. CASE Fails(c)
    BY <1>1, <2>2, FailsKeeps
  <2>3. CASE /\ Live(values[f].text) /\ records[values[f].text].type = refs[f]
             /\ Goes(c, [calls[c] EXCEPT !.refs = [g \in DOMAIN refs \ {f} |-> refs[g]]])
    <3> DEFINE rest == [g \in DOMAIN refs \ {f} |-> refs[g]]
               k == [calls[c] EXCEPT !.refs = rest]
    <3>1. DOMAIN refs \subseteq Fields /\ \A g \in DOMAIN refs : refs[g] \in Types
      BY <1>1, PartialElim
    <3>2. rest \in [DOMAIN refs \ {f} -> Types] /\ DOMAIN refs \ {f} \in SUBSET Fields
      BY <3>1
    <3>3. /\ rest \in Partial(Fields, Types) /\ DOMAIN rest = DOMAIN refs \ {f}
          /\ \A g \in DOMAIN rest : rest[g] = refs[g]
      BY <3>2, PartialIntro
    <3> HIDE DEF rest
    <3>4. /\ k \in Call /\ k.pc = "refs" /\ k.op = calls[c].op /\ k.type = t
          /\ k.id = calls[c].id /\ k.values = values /\ k.refs = rest
      BY <1>1, <3>3 DEF Call, CheckReference
    <3> HIDE DEF k
    <3>5. Targets(t, rest)
      BY <1>1, <3>3 DEF Targets
    <3>6. Kept(values[f].text, refs[f])
      BY <2>3 DEF Live, Kept
    <3>7. RefsHold(t, values, DOMAIN rest)
      BY <1>1, <3>3, <3>6 DEF RefsHold, Targets
    <3>8. CallFits(c, k) /\ k.pc # "write"
      BY <1>1, <3>4, <3>5, <3>7 DEF CallFits
    <3>9. Goes(c, k)
      BY <2>3 DEF k, rest
    <3> QED  BY <1>1, <3>4, <3>8, <3>9, CallMoves
  <2> QED  BY <2>1, <2>2, <2>3
<1> QED  BY <1>2, <1>3

-----------------------------------------------------------------------------
(* The pages.                                                               *)

LEMMA OpenFormKeeps ==
    ASSUME RecordsInv, NEW c \in Callers, OpenForm(c)
    PROVE  RecordsInv'
<1>1. PICK t \in DOMAIN types :
        \/ Goes(c, [NoCall EXCEPT !.pc = "form", !.op = "create", !.type = t,
                       !.patch = [f \in DOMAIN types[t] |-> Blank]])
        \/ \E i \in Ids :
             /\ Live(i) /\ records[i].type = t
             /\ Goes(c, [NoCall EXCEPT !.pc = "form", !.op = "update", !.type = t,
                            !.id = i,
                            !.patch = [f \in DOMAIN types[t] |->
                                IF f \in DOMAIN records[i].data
                                THEN records[i].data[f] ELSE Blank]])
  BY DEF OpenForm
<1>2. t \in Types /\ types[t] \in Definition /\ Reading /\ Known(t)
  BY DEF RecordsInv, RecordsTypeOK, OpenForm, Known
<1>3. DOMAIN types[t] \in SUBSET Fields
  BY <1>2, PartialElim DEF Definition
<1>4. CASE Goes(c, [NoCall EXCEPT !.pc = "form", !.op = "create", !.type = t,
                       !.patch = [f \in DOMAIN types[t] |-> Blank]])
  <2> DEFINE form == [f \in DOMAIN types[t] |-> Blank]
             k == [NoCall EXCEPT !.pc = "form", !.op = "create", !.type = t, !.patch = form]
  <2>1. form \in [DOMAIN types[t] -> Value \ {Undefined}]
    BY Values
  <2>2. form \in Data
    BY <1>3, <2>1, PartialIntro DEF Data
  <2> HIDE DEF form
  <2>3. k \in Call /\ k.pc = "form" /\ k.op = "create" /\ k.type = t
    BY <1>2, <2>2, NoCallTyped DEF Call
  <2>4. Goes(c, k)
    BY <1>4 DEF form
  <2> HIDE DEF k
  <2>5. CallFits(c, k)
    BY <1>2, <2>3 DEF CallFits
  <2> QED  BY <1>2, <2>3, <2>4, <2>5, CallMoves
<1>5. CASE \E i \in Ids :
             /\ Live(i) /\ records[i].type = t
             /\ Goes(c, [NoCall EXCEPT !.pc = "form", !.op = "update", !.type = t,
                            !.id = i,
                            !.patch = [f \in DOMAIN types[t] |->
                                IF f \in DOMAIN records[i].data
                                THEN records[i].data[f] ELSE Blank]])
  <2>1. PICK i \in Ids :
             /\ Live(i) /\ records[i].type = t
             /\ Goes(c, [NoCall EXCEPT !.pc = "form", !.op = "update", !.type = t,
                            !.id = i,
                            !.patch = [f \in DOMAIN types[t] |->
                                IF f \in DOMAIN records[i].data
                                THEN records[i].data[f] ELSE Blank]])
    BY <1>5
  <2> DEFINE data == records[i].data
             form == [f \in DOMAIN types[t] |-> IF f \in DOMAIN data THEN data[f] ELSE Blank]
             k == [NoCall EXCEPT !.pc = "form", !.op = "update", !.type = t, !.id = i,
                                 !.patch = form]
  <2>2. data \in Data
    BY DEF RecordsInv, RecordsTypeOK
  <2>3. \A f \in DOMAIN data : data[f] \in Value \ {Undefined}
    BY <2>2, PartialElim DEF Data
  <2>4. form \in [DOMAIN types[t] -> Value \ {Undefined}]
    BY <2>3, Values
  <2>5. form \in Data
    BY <1>3, <2>4, PartialIntro DEF Data
  <2>6. Goes(c, k)
    BY <2>1
  <2> HIDE DEF form
  <2>7. k \in Call /\ k.pc = "form" /\ k.op = "update" /\ k.type = t /\ k.id = i
    BY <1>2, <2>5, NoCallTyped DEF Call
  <2> HIDE DEF k
  <2>8. CallFits(c, k)
    BY <1>2, <2>1, <2>7 DEF CallFits, Kept, Live
  <2> QED  BY <1>2, <2>6, <2>7, <2>8, CallMoves
<1> QED  BY <1>1, <1>4, <1>5

LEMMA SubmitKeeps ==
    ASSUME RecordsInv, NEW c \in Callers, Submit(c)
    PROVE  RecordsInv'
<1>1. PICK f \in DOMAIN calls[c].patch, text \in Typed :
        Goes(c, [calls[c] EXCEPT !.pc = "getType", !.patch[f] = Neat(text)])
  BY DEF Submit
<1> DEFINE form == [calls[c].patch EXCEPT ![f] = Neat(text)]
           k == [calls[c] EXCEPT !.pc = "getType", !.patch = form]
<1>2. calls[c] \in Call /\ calls[c].patch \in Data /\ calls[c].pc = "form" /\ Reading
  BY CallOf DEF Call, Submit
<1>3. PICK E \in SUBSET Fields : calls[c].patch \in [E -> Value \ {Undefined}]
  BY <1>2 DEF Data, Partial
<1>4. Neat(text) \in Value \ {Undefined}
  BY Values, ConstantsAssumption
<1>5. form \in [E -> Value \ {Undefined}]
  BY <1>3, <1>4
<1>6. form \in Data
  BY <1>5, PartialIntro DEF Data
<1>7. Goes(c, k)
  BY <1>1
<1> HIDE DEF form
<1>8. /\ k \in Call /\ k.pc = "getType" /\ k.op = calls[c].op /\ k.type = calls[c].type
      /\ k.id = calls[c].id
  BY <1>2, <1>6 DEF Call
<1> HIDE DEF k
<1>9. CallFits(c, k)
  BY <1>2, <1>8, CallOf DEF CallFits
<1> QED  BY <1>2, <1>7, <1>8, <1>9, CallMoves

LEMMA ParseFormKeeps ==
    ASSUME RecordsInv, NEW c \in Pages, ParseForm(c)
    PROVE  RecordsInv'
<1> DEFINE t == calls[c].type
<1>1. c \in Callers
  BY DEF Callers
<1>2. /\ calls[c] \in Call /\ Known(t) /\ calls[c].op \in {"create", "update"}
      /\ calls[c].op = "update" => Kept(calls[c].id, t)
      /\ calls[c].patch \in Data /\ Reading
  BY <1>1, CallOf DEF Call, CallFits, ParseForm
<1>3. CASE Fails(c)
  BY <1>1, <1>2, <1>3, FailsKeeps
<1>4. CASE t \in DOMAIN types /\ Valid(types[t], Submitted(types[t], calls[c].patch), FALSE)
  <2> DEFINE raw == Submitted(types[t], calls[c].patch)
             values == Coerced(types[t], raw)
             k == [calls[c] EXCEPT !.values = values]
  <2>1. Goes(c, AfterChecks(k))
    BY <1>4 DEF ParseForm
  <2>2. types[t] \in Definition /\ DOMAIN types[t] \in SUBSET Fields
    BY <1>4, PartialElim DEF RecordsInv, RecordsTypeOK, Definition
  <2>3. \A f \in DOMAIN calls[c].patch : calls[c].patch[f] \in Value \ {Undefined}
    BY <1>2, PartialElim DEF Data
  <2>4. raw \in [DOMAIN types[t] -> Value \ {Undefined}]
    BY <2>3, Values DEF Submitted
  <2>5. raw \in Data
    BY <2>2, <2>4, PartialIntro DEF Data
  <2>6. Valid(types[t], raw, FALSE)
    BY <1>4
  <2> HIDE DEF raw
  <2>7. values \in Partial(Fields, Value) /\ DOMAIN values = DOMAIN raw
    BY <2>2, <2>5, CoercedTyped
  <2>8. \A f \in DOMAIN types[t] \cap DOMAIN values :
            values[f] # Undefined => values[f].neat /\ Accepts(types[t][f], values[f])
    BY <2>2, <2>5, <2>6, <2>7, CoercedFits
  <2> HIDE DEF values
  <2>9. /\ k \in Call /\ k.op = calls[c].op /\ k.type = t /\ k.id = calls[c].id
        /\ k.values = values
    BY <1>2, <2>7 DEF Call
  <2> HIDE DEF k
  <2>10. ValuesFit(t, values)
    BY <2>8 DEF ValuesFit
  <2> QED  BY <1>1, <1>2, <2>1, <2>9, <2>10, Checked
<1> QED  BY <1>3, <1>4 DEF ParseForm

-----------------------------------------------------------------------------
(* The writes.                                                              *)

LEMMA EndedFitsAfter ==
    ASSUME NEW c, NEW k \in Call, k.pc \in {"done", "failed"}, k.values \in Data,
           k.id # "" => records'[k.id].state # "free"
    PROVE  CallFits(c, k)'
BY DEF CallFits

\* A call stores what it merged into what it knew of the record: no record
\* yet, or what it read of it, which still holds unless it was crossed.
LEMMA WriteKeeps ==
    ASSUME RecordsInv, NEW c \in Callers, NEW i \in Ids, NEW t \in DOMAIN types,
           NEW base \in Data, NEW values \in Partial(Fields, Value),
           Writes(i, t, Merged(base, values), values),
           Ends(c, "done", i, Merged(base, values)),
           byHand' = byHand \cup (IF c \in Pages THEN {i} ELSE {}),
           UNCHANGED crossed, Unmoved,
           records[i].state = "free" \/ records[i].type = t,
           i \notin crossed => base = sent[i] /\ \A d \in Callers \ {c} : ~WritingTo(d, i),
           ValuesFit(t, base), ValuesFit(t, values),
           c \notin Pages => /\ RefsHold(t, values, {})
                             /\ i \notin byHand => RefsHold(t, base, {})
    PROVE  RecordsInv'
<1> DEFINE data == Merged(base, values)
           k == Ended(c, "done", i, data)
<1> USE DEF Unmoved
<1>1. /\ t \in Types /\ records \in [Ids -> [state : {"free", "live", "gone"}, type : Types,
                                              data : Data]]
      /\ sent \in [Ids -> Data] /\ calls \in [Callers -> Call]
  BY DEF RecordsInv, RecordsTypeOK
<1>2. /\ data \in Data
      /\ \A f \in DOMAIN data :
            \/ f \in DOMAIN values /\ data[f] = values[f] /\ values[f] # Undefined
            \/ f \in DOMAIN base /\ data[f] = base[f] /\ f \notin DOMAIN values
  BY MergedData
<1>3. \A f \in DOMAIN data : data[f] # Undefined
  BY <1>2, PartialElim DEF Data
<1>4. Merged(sent[i], values) \in Data
  BY <1>1, MergedData
<1>5. /\ records' = [records EXCEPT ![i] = [state |-> "live", type |-> t, data |-> data]]
      /\ sent' = [sent EXCEPT ![i] = Merged(sent[i], values)]
  BY DEF Writes
<1>6. i \notin crossed => sent'[i] = data
  BY <1>1, <1>5
<1> HIDE DEF data
<1>7. /\ records' \in [Ids -> [state : {"free", "live", "gone"}, type : Types, data : Data]]
      /\ records'[i].state = "live" /\ records'[i].type = t /\ records'[i].data = data
      /\ \A j \in Ids \ {i} : records'[j] = records[j] /\ sent'[j] = sent[j]
      /\ sent' \in [Ids -> Data]
  BY <1>1, <1>2, <1>4, <1>5
<1>8. k \in Call /\ k.pc \in {"done", "failed"} /\ k.values \in Data /\ k.id \in {i, ""}
  BY <1>2, EndedTyped
<1>9. Goes(c, k)
  BY DEF Ends, Ended, data
<1> HIDE DEF k
<1>10. /\ calls' \in [Callers -> Call] /\ calls'[c] = k
       /\ \A d \in Callers \ {c} : calls'[d] = calls[d]
  BY <1>1, <1>8, <1>9 DEF Goes
<1>11. RecordsTypeOK'
  BY <1>7, <1>10 DEF RecordsInv, RecordsTypeOK
<1>12. Grows
  BY <1>7 DEF Grows, Kept, Known, Fixed
<1>13. Known(t) /\ ValuesFit(t, values)' /\ ValuesFit(t, base)'
  BY <1>12, ValuesStill DEF Known
<1>14. ValuesFit(t, data)'
  BY <1>2, <1>13 DEF ValuesFit
<1>15. ASSUME i \notin byHand'  PROVE RefsHold(t, data, {})'
  <2>1. c \notin Pages /\ i \notin byHand
    BY <1>15
  <2>2. RefsHold(t, values, {})' /\ RefsHold(t, base, {})'
    BY <2>1, <1>12, <1>13, RefsStill
  <2> QED  BY <1>2, <2>2 DEF RefsHold
<1>16. ASSUME NEW j \in Ids, Live(j)'
       PROVE  /\ records'[j].type \in DOMAIN types' /\ ValuesFit(records[j].type, records[j].data)'
              /\ j \notin byHand' => RefsHold(records[j].type, records[j].data, {})'
              /\ j \notin crossed' => records'[j].data = sent'[j]
  <2>1. CASE j = i
    BY <1>6, <1>7, <1>14, <1>15, <2>1
  <2>2. CASE j # i
    <3>1. /\ Live(j) /\ records'[j] = records[j] /\ sent'[j] = sent[j]
          /\ records[j].type \in DOMAIN types /\ Known(records[j].type)
      BY <1>7, <1>16, <2>2 DEF Live, RecordsInv, Known
    <3>2. ValuesFit(records[j].type, records[j].data)'
      <4>1. ASSUME NEW u, NEW d, Known(u), ValuesFit(u, d)  PROVE ValuesFit(u, d)'
        BY <4>1, <1>12, ValuesStill
      <4> QED  BY <3>1, <4>1 DEF RecordsInv
    <3>3. j \notin byHand' => RefsHold(records[j].type, records[j].data, {})'
      <4>1. ASSUME NEW u, NEW d, Known(u), RefsHold(u, d, {})  PROVE RefsHold(u, d, {})'
        BY <4>1, <1>12, RefsStill
      <4>2. j \notin byHand' => j \notin byHand
        BY <1>12 DEF Grows
      <4> QED  BY <3>1, <4>1, <4>2 DEF RecordsInv
    <3> QED  BY <3>1, <3>2, <3>3 DEF RecordsInv
  <2> QED  BY <2>1, <2>2
<1>17. ASSUME NEW j \in Ids, records'[j].state = "free"  PROVE sent'[j] = Empty
  BY <1>7, <1>17 DEF RecordsInv
<1>18. ASSUME NEW d \in Callers  PROVE CallFits(d, calls[d])'
  <2>1. CASE d = c
    <3>1. CallFits(c, k)'
      <4>1. k.id # "" => records'[k.id].state # "free"
        BY <1>7, <1>8
      <4> QED  BY <1>8, <4>1, EndedFitsAfter
    <3> QED  BY <1>10, <2>1, <3>1
  <2>2. CASE d # c
    <3> DEFINE m == calls[d]
    <3>1. m \in Call /\ CallFits(d, m) /\ calls'[d] = m
      BY <1>10, <2>2, CallOf
    <3>2. m.pc = "write" /\ Live(m.id)' /\ m.id \notin crossed'
             => Live(m.id) /\ records'[m.id].data = records[m.id].data
      BY <1>7, <2>2, <3>1 DEF CallFits, Kept, WritingTo, Live
    <3>3. ASSUME NEW n \in Call, CallFits(d, n),
                 n.pc = "write" /\ Live(n.id)' /\ n.id \notin crossed'
                    => Live(n.id) /\ records'[n.id].data = records[n.id].data
          PROVE  CallFits(d, n)'
      BY <3>3, <1>12, FitsStill DEF RecordsInv
    <3> QED  BY <3>1, <3>2, <3>3 DEF Live
  <2> QED  BY <2>1, <2>2
<1>19. ASSUME NEW j \in Ids \ crossed', NEW d \in Callers, NEW e \in Callers,
              WritingTo(d, j)', WritingTo(e, j)'
       PROVE  d = e
  <2>1. d # c /\ e # c
    BY <1>8, <1>10, <1>19 DEF WritingTo
  <2>2. WritingTo(d, j) /\ WritingTo(e, j) /\ j \in Ids \ crossed
    BY <1>10, <1>19, <2>1 DEF WritingTo
  <2> QED  BY <2>2 DEF RecordsInv
<1> QED
  BY <1>11, <1>16, <1>17, <1>18, <1>19 DEF RecordsInv

LEMMA InsertKeeps ==
    ASSUME RecordsInv, NEW c \in Callers, Insert(c)
    PROVE  RecordsInv'
<1> DEFINE t == calls[c].type
           values == calls[c].values
           i == CHOOSE j \in Ids : records[j].state = "free"
<1>1. CASE t \notin DOMAIN types
  <2>1. Fails(c) /\ Reading
    BY <1>1 DEF Insert, Unmoved, Reading
  <2> QED  BY <2>1, FailsKeeps
<1>2. CASE t \in DOMAIN types
  <2>1. /\ Writes(i, t, Merged(Empty, values), values)
        /\ Ends(c, "done", i, Merged(Empty, values))
        /\ byHand' = byHand \cup (IF c \in Pages THEN {i} ELSE {})
        /\ UNCHANGED crossed /\ Unmoved
    BY <1>2 DEF Insert
  <2>2. i \in Ids /\ records[i].state = "free"
    BY <1>2 DEF Insert
  <2> HIDE DEF i
  <2>3. /\ values \in Partial(Fields, Value) /\ ValuesFit(t, values)
        /\ c \notin Pages => RefsHold(t, values, {})
    BY CallOf DEF Call, CallFits, Insert
  <2>4. ValuesFit(t, Empty) /\ RefsHold(t, Empty, {}) /\ Empty \in Data
    BY EmptyTyped DEF ValuesFit, RefsHold
  <2>5. sent[i] = Empty /\ \A d \in Callers \ {c} : ~WritingTo(d, i)
    BY <2>2, CallOf DEF RecordsInv, WritingTo, CallFits, Kept
  <2> QED  BY <1>2, <2>1, <2>2, <2>3, <2>4, <2>5, WriteKeeps
<1> QED  BY <1>1, <1>2

LEMMA WriteMergedKeeps ==
    ASSUME RecordsInv, NEW c \in Callers, WriteMerged(c)
    PROVE  RecordsInv'
<1> DEFINE t == calls[c].type
           values == calls[c].values
           base == calls[c].seen
           i == calls[c].id
<1>1. CASE ~Live(i)
  <2>1. Fails(c) /\ Reading
    BY <1>1 DEF WriteMerged, Unmoved, Reading
  <2> QED  BY <2>1, FailsKeeps
<1>2. CASE Live(i)
  <2>1. /\ Writes(i, records[i].type, Merged(base, values), values)
        /\ Ends(c, "done", i, Merged(base, values))
        /\ byHand' = byHand \cup (IF c \in Pages THEN {i} ELSE {})
        /\ UNCHANGED crossed /\ Unmoved
    BY <1>2 DEF WriteMerged, Patched
  <2>2. /\ values \in Partial(Fields, Value) /\ ValuesFit(t, values)
        /\ c \notin Pages => RefsHold(t, values, {})
        /\ base \in Data /\ ValuesFit(t, base) /\ (i \notin byHand => RefsHold(t, base, {}))
        /\ i \notin crossed => base = records[i].data
        /\ Kept(i, t)
    BY <1>2, CallOf DEF Call, CallFits, WriteMerged
  <2>3. i \in Ids /\ records[i].type = t /\ t \in DOMAIN types
    BY <1>2, <2>2 DEF Kept, RecordsInv
  <2>4. i \notin crossed => base = sent[i] /\ \A d \in Callers \ {c} : ~WritingTo(d, i)
    BY <1>2, <2>2, <2>3 DEF RecordsInv, WritingTo, WriteMerged
  <2> QED  BY <2>1, <2>2, <2>3, <2>4, WriteKeeps
<1> QED  BY <1>1, <1>2

LEMMA ReadForMergeKeeps ==
    ASSUME RecordsInv, NEW c \in Callers, ReadForMerge(c)
    PROVE  RecordsInv'
<1> DEFINE i == calls[c].id
           t == calls[c].type
           k == [calls[c] EXCEPT !.pc = "write", !.seen = records[i].data]
           over == {j \in {i} : \E d \in Callers \ {c} : calls[d].pc = "write" /\ calls[d].id = j}
<1>1. CASE ~Live(i)
  <2>1. Fails(c) /\ Reading
    BY <1>1 DEF ReadForMerge, Unmoved, Reading
  <2> QED  BY <2>1, FailsKeeps
<1>2. CASE Live(i)
  <2>1. /\ Goes(c, k) /\ crossed' = crossed \cup over
        /\ UNCHANGED <<types, records, sent, byHand, redefined>>
    BY <1>2 DEF ReadForMerge, Unmoved
  <2>2. /\ i \in Ids /\ records[i].data \in Data /\ records[i].state = "live"
        /\ records \in [Ids -> [state : {"free", "live", "gone"}, type : Types, data : Data]]
        /\ calls \in [Callers -> Call] /\ crossed \subseteq Ids
    BY <1>2 DEF RecordsInv, RecordsTypeOK, Live
  <2>3. /\ calls[c] \in Call /\ Known(t) /\ calls[c].op = "update" /\ Kept(i, t)
        /\ ValuesFit(t, calls[c].values)
        /\ c \notin Pages => RefsHold(t, calls[c].values, {})
    BY CallOf DEF CallFits, ReadForMerge
  <2>4. /\ k \in Call /\ k.pc = "write" /\ k.op = "update" /\ k.type = t /\ k.id = i
        /\ k.values = calls[c].values /\ k.seen = records[i].data
    BY <2>2, <2>3 DEF Call
  <2> HIDE DEF k
  <2>5. /\ calls' \in [Callers -> Call] /\ calls'[c] = k
        /\ \A d \in Callers \ {c} : calls'[d] = calls[d]
    BY <2>1, <2>2, <2>4 DEF Goes
  <2>6. crossed' \subseteq Ids /\ crossed \subseteq crossed'
    BY <2>1, <2>2
  <2>7. RecordsTypeOK'
    BY <2>1, <2>5, <2>6 DEF RecordsInv, RecordsTypeOK
  <2>8. Grows
    BY <2>1, <2>6, ReadingGrows
  <2>9. CallFits(c, k)
    <3>1. /\ ValuesFit(t, records[i].data)
          /\ i \notin byHand => RefsHold(t, records[i].data, {})
      BY <1>2, <2>2, <2>3 DEF RecordsInv, Kept
    <3> QED  BY <2>3, <2>4, <3>1 DEF CallFits
  <2>10. ASSUME NEW d \in Callers, NEW m \in Call, CallFits(d, m)  PROVE CallFits(d, m)'
    BY <2>1, <2>8, <2>10, FitsStill DEF Live, RecordsInv
  <2>11. ASSUME NEW d \in Callers  PROVE CallFits(d, calls[d])'
    <3>1. calls'[d] \in Call /\ CallFits(d, calls'[d])
      BY <2>4, <2>5, <2>9 DEF RecordsInv
    <3> QED  BY <2>10, <3>1
  <2>12. ASSUME NEW j \in Ids \ crossed', NEW d \in Callers, NEW e \in Callers,
               WritingTo(d, j)', WritingTo(e, j)'
        PROVE  d = e
    <3>1. CASE d # c /\ e # c
      BY <2>5, <2>6, <2>12, <3>1 DEF RecordsInv, WritingTo
    <3>2. CASE d = c /\ e # c
      BY <2>1, <2>4, <2>5, <2>12, <3>2 DEF WritingTo
    <3>3. CASE d # c /\ e = c
      BY <2>1, <2>4, <2>5, <2>12, <3>3 DEF WritingTo
    <3> QED  BY <3>1, <3>2, <3>3
  <2>13. /\ \A j \in Ids : Live(j)' => records'[j].type \in DOMAIN types'
         /\ \A j \in Ids : records'[j].state = "free" => sent'[j] = Empty
         /\ \A j \in Ids \ crossed' : Live(j)' => records'[j].data = sent'[j]
         /\ \A j \in Ids : Live(j)' => ValuesFit(records[j].type, records[j].data)'
         /\ \A j \in Ids \ byHand' : Live(j)' => RefsHold(records[j].type, records[j].data, {})'
    BY <2>1, <2>6 DEF RecordsInv, ValuesFit, RefsHold, Fixed, Kept, Live
  <2> QED
    BY <2>7, <2>11, <2>12, <2>13 DEF RecordsInv
<1> QED  BY <1>1, <1>2

LEMMA CallStepsKeep ==
    ASSUME RecordsInv, NEW c \in Callers, CallSteps(c)
    PROVE  RecordsInv'
<1>1. CASE Resolve(c)
  BY <1>1, ResolveKeeps
<1>2. CASE FindByValue(c)
  BY <1>2, FindByValueKeeps
<1>3. CASE SearchByText(c)
  BY <1>3, EndsKeeps, EmptyTyped DEF SearchByText
<1>4. CASE FindExisting(c)
  BY <1>4, FindExistingKeeps
<1>5. CASE LoadFields(c)
  BY <1>5, LoadFieldsKeeps
<1>6. CASE CheckReference(c)
  BY <1>6, CheckReferenceKeeps
<1>7. CASE Insert(c)
  BY <1>7, InsertKeeps
<1>8. CASE ReadForMerge(c)
  BY <1>8, ReadForMergeKeeps
<1>9. CASE WriteMerged(c)
  BY <1>9, WriteMergedKeeps
<1>10. CASE QueryFails(c)
  BY <1>10, FailsKeeps DEF QueryFails
<1> QED
  BY <1>1, <1>2, <1>3, <1>4, <1>5, <1>6, <1>7, <1>8, <1>9, <1>10 DEF CallSteps

-----------------------------------------------------------------------------
(* What is done to records and types beside the calls.                      *)

\* The calls, the marks and what the records hold stay as they are, a record
\* may go, and the types of those that stay are there still.
LEMMA ChangeKeeps ==
    ASSUME RecordsInv, Grows, UNCHANGED <<calls, sent, crossed, byHand>>,
           records' \in [Ids -> [state : {"free", "live", "gone"}, type : Types, data : Data]],
           \A i \in Ids : /\ records'[i].state = "free" => records[i].state = "free"
                          /\ Live(i)' => Live(i) /\ records'[i] = records[i]
                                         /\ records[i].type \in DOMAIN types',
           DOMAIN types' \subseteq Types, \A t \in DOMAIN types' : types'[t] \in Definition,
           redefined' \subseteq Types
    PROVE  RecordsInv'
<1>1. RecordsTypeOK'
  BY DEF RecordsInv, RecordsTypeOK
<1>2. ASSUME NEW i \in Ids, Live(i)'
      PROVE  /\ records'[i].type \in DOMAIN types'
             /\ ValuesFit(records[i].type, records[i].data)'
             /\ i \notin byHand' => RefsHold(records[i].type, records[i].data, {})'
             /\ i \notin crossed' => records'[i].data = sent'[i]
  <2>1. /\ Live(i) /\ records'[i] = records[i] /\ records[i].type \in DOMAIN types'
        /\ records[i].type \in DOMAIN types /\ Known(records[i].type)
    BY <1>2 DEF RecordsInv, Known
  <2>2. ASSUME NEW u, NEW d, Known(u)
        PROVE  /\ ValuesFit(u, d) => ValuesFit(u, d)'
               /\ RefsHold(u, d, {}) => RefsHold(u, d, {})'
    BY <2>2, ValuesStill, RefsStill
  <2>3. /\ ValuesFit(records[i].type, records[i].data)
        /\ i \notin byHand => RefsHold(records[i].type, records[i].data, {})
        /\ i \notin crossed => records[i].data = sent[i]
    BY <2>1 DEF RecordsInv
  <2> QED  BY <2>1, <2>2, <2>3
<1>3. ASSUME NEW c \in Callers  PROVE CallFits(c, calls[c])'
  <2>1. calls[c] \in Call /\ CallFits(c, calls[c])
    BY CallOf
  <2>2. calls[c].pc = "write" => calls[c].id \in Ids
    BY <2>1 DEF CallFits, Kept
  <2>3. ASSUME NEW m \in Call, CallFits(c, m), m.pc = "write" => m.id \in Ids
        PROVE  CallFits(c, m)'
    BY <2>3, FitsStill DEF RecordsInv
  <2> QED  BY <2>1, <2>2, <2>3
<1>4. \A i \in Ids \ crossed' : \A c, d \in Callers :
        WritingTo(c, i)' /\ WritingTo(d, i)' => c = d
  BY DEF RecordsInv, WritingTo
<1>5. \A i \in Ids : records'[i].state = "free" => sent'[i] = Empty
  BY DEF RecordsInv
<1> QED
  BY <1>1, <1>2, <1>3, <1>4, <1>5 DEF RecordsInv

LEMMA DeleteRecordKeeps ==
    ASSUME RecordsInv, NEW i \in Ids, DeleteRecord(i)
    PROVE  RecordsInv'
<1>1. /\ records \in [Ids -> [state : {"free", "live", "gone"}, type : Types, data : Data]]
      /\ records' = [records EXCEPT ![i].state = "gone"] /\ records[i].state = "live"
      /\ UNCHANGED <<types, redefined, calls, sent, crossed, byHand>>
  BY DEF RecordsInv, RecordsTypeOK, DeleteRecord, Live, Unmoved
<1>2. /\ records' \in [Ids -> [state : {"free", "live", "gone"}, type : Types, data : Data]]
      /\ records'[i].state = "gone" /\ records'[i].type = records[i].type
      /\ \A j \in Ids \ {i} : records'[j] = records[j]
  BY <1>1
<1>3. Grows
  BY <1>1, <1>2 DEF Grows, Kept, Known, Fixed
<1>4. \A j \in Ids : /\ records'[j].state = "free" => records[j].state = "free"
                     /\ Live(j)' => Live(j) /\ records'[j] = records[j]
                                    /\ records[j].type \in DOMAIN types'
  BY <1>1, <1>2 DEF Live, RecordsInv
<1> QED
  BY <1>1, <1>2, <1>3, <1>4, ChangeKeeps DEF RecordsInv, RecordsTypeOK

LEMMA CreateTypeKeeps ==
    ASSUME RecordsInv, NEW t \in Types, CreateType(t)
    PROVE  RecordsInv'
<1>1. PICK fields \in Definitions[t] :
        types' = [u \in DOMAIN types \cup {t} |-> IF u = t THEN fields ELSE types[u]]
  BY DEF CreateType
<1>2. fields \in Definition /\ t \notin DOMAIN types \cup redefined
      /\ UNCHANGED <<records, calls, sent, crossed, byHand, redefined>>
  BY ConstantsAssumption DEF CreateType
<1>3. /\ DOMAIN types' = DOMAIN types \cup {t} /\ types'[t] = fields
      /\ \A u \in DOMAIN types : types'[u] = types[u]
  BY <1>1, <1>2
<1>4. Grows
  BY <1>2, <1>3 DEF Grows, Kept, Known, Fixed
<1>5. \A j \in Ids : Live(j)' => Live(j) /\ records[j].type \in DOMAIN types'
  BY <1>2, <1>3 DEF Live, RecordsInv
<1>6. DOMAIN types' \subseteq Types /\ \A u \in DOMAIN types' : types'[u] \in Definition
  BY <1>2, <1>3 DEF RecordsInv, RecordsTypeOK
<1> QED
  BY <1>2, <1>4, <1>5, <1>6, ChangeKeeps DEF RecordsInv, RecordsTypeOK

LEMMA DropTypeKeeps ==
    ASSUME RecordsInv, NEW t \in Types, DropType(t)
    PROVE  RecordsInv'
<1>1. /\ types' = [u \in DOMAIN types \ {t} |-> types[u]]
      /\ records' = [i \in Ids |-> IF Live(i) /\ records[i].type = t
                                   THEN [records[i] EXCEPT !.state = "gone"]
                                   ELSE records[i]]
      /\ redefined' = redefined \cup {t}
      /\ UNCHANGED <<calls, sent, crossed, byHand>>
      /\ records \in [Ids -> [state : {"free", "live", "gone"}, type : Types, data : Data]]
  BY DEF DropType, RecordsInv, RecordsTypeOK
<1>2. ASSUME NEW i \in Ids
      PROVE  /\ records'[i] \in [state : {"free", "live", "gone"}, type : Types, data : Data]
             /\ records'[i].type = records[i].type
             /\ records'[i].state = "free" <=> records[i].state = "free"
             /\ Live(i)' => Live(i) /\ records'[i] = records[i] /\ records[i].type # t
  <2>1. CASE Live(i) /\ records[i].type = t
    <3> DEFINE row == [records[i] EXCEPT !.state = "gone"]
    <3>1. /\ row \in [state : {"free", "live", "gone"}, type : Types, data : Data]
          /\ row.state = "gone" /\ row.type = records[i].type
      BY <1>1
    <3>2. records'[i] = row
      BY <1>1, <2>1
    <3> QED  BY <2>1, <3>1, <3>2 DEF Live
  <2>2. CASE ~(Live(i) /\ records[i].type = t)
    <3>1. records'[i] = records[i]
      BY <1>1, <2>2
    <3> QED  BY <1>1, <2>2, <3>1 DEF Live
  <2> QED  BY <2>1, <2>2
<1>3. records' \in [Ids -> [state : {"free", "live", "gone"}, type : Types, data : Data]]
  BY <1>1, <1>2
<1>4. /\ DOMAIN types' = DOMAIN types \ {t} /\ \A u \in DOMAIN types' : types'[u] = types[u]
  BY <1>1
<1>5. Grows
  BY <1>1, <1>2, <1>4 DEF Grows, Kept, Known, Fixed
<1>6. \A j \in Ids : Live(j)' => records[j].type \in DOMAIN types'
  BY <1>2, <1>4 DEF RecordsInv
<1>7. DOMAIN types' \subseteq Types /\ \A u \in DOMAIN types' : types'[u] \in Definition
  BY <1>4 DEF RecordsInv, RecordsTypeOK
<1>8. redefined' \subseteq Types
  BY <1>1 DEF RecordsInv, RecordsTypeOK
<1> QED
  BY <1>1, <1>2, <1>3, <1>5, <1>6, <1>7, <1>8, ChangeKeeps

LEMMA RedefineKeeps ==
    ASSUME RecordsInv, NEW t \in Types, Redefine(t)
    PROVE  RecordsInv'
<1>1. PICK fields \in Definitions[t] \ {types[t]} : types' = [types EXCEPT ![t] = fields]
  BY DEF Redefine
<1>2. /\ fields \in Definition /\ t \in DOMAIN types /\ redefined' = redefined \cup {t}
      /\ UNCHANGED <<records, calls, sent, crossed, byHand>>
  BY ConstantsAssumption DEF Redefine
<1>3. /\ DOMAIN types' = DOMAIN types
      /\ \A u \in DOMAIN types : types'[u] = IF u = t THEN fields ELSE types[u]
  BY <1>1
<1>4. Grows
  BY <1>2, <1>3 DEF Grows, Kept, Known, Fixed
<1>5. \A j \in Ids : Live(j)' => Live(j) /\ records[j].type \in DOMAIN types'
  BY <1>2, <1>3 DEF Live, RecordsInv
<1>6. DOMAIN types' \subseteq Types /\ \A u \in DOMAIN types' : types'[u] \in Definition
  BY <1>2, <1>3 DEF RecordsInv, RecordsTypeOK
<1>7. redefined' \subseteq Types
  BY <1>2 DEF RecordsInv, RecordsTypeOK
<1> QED
  BY <1>2, <1>4, <1>5, <1>6, <1>7, ChangeKeeps DEF RecordsInv, RecordsTypeOK

LEMMA CatalogKeeps ==
    ASSUME RecordsInv, CatalogSteps
    PROVE  RecordsInv'
<1>1. CASE \E c \in Agents : CallTool(c) \/ CallSteps(c)
  BY <1>1, CallToolKeeps, CallStepsKeep DEF Callers
<1>2. CASE \E c \in Pages : OpenForm(c) \/ Submit(c) \/ ParseForm(c) \/ CallSteps(c)
  BY <1>2, OpenFormKeeps, SubmitKeeps, ParseFormKeeps, CallStepsKeep DEF Callers
<1>3. CASE \E i \in Ids : DeleteRecord(i)
  BY <1>3, DeleteRecordKeeps
<1>4. CASE \E t \in Types : CreateType(t) \/ DropType(t) \/ Redefine(t)
  BY <1>4, CreateTypeKeeps, DropTypeKeeps, RedefineKeeps
<1> QED
  BY <1>1, <1>2, <1>3, <1>4 DEF CatalogSteps

-----------------------------------------------------------------------------
(* Of the records, what the properties say and what the runs rely on.       *)

LEMMA RecordsStart ==
    ASSUME RecordsInit
    PROVE  RecordsInv
<1> USE DEF RecordsInit
<1>1. \A i \in DOMAIN Stored : /\ i \in Ids /\ Stored[i].type \in DOMAIN Defined
                               /\ Stored[i].type \in Types /\ Stored[i].data \in Data
  BY StoredAssumption, ConstantsAssumption
<1>2. ASSUME NEW i \in Ids
      PROVE  /\ records[i] \in [state : {"free", "live", "gone"}, type : Types, data : Data]
             /\ i \in DOMAIN Stored => /\ records[i].state = "live"
                                       /\ records[i].type = Stored[i].type
                                       /\ records[i].data = Stored[i].data
             /\ i \notin DOMAIN Stored => records[i] = NoRecord
  <2>1. CASE i \in DOMAIN Stored
    BY <1>1, <2>1
  <2>2. CASE i \notin DOMAIN Stored
    <3>1. (CHOOSE t \in Types : TRUE) \in Types
      BY ConstantsAssumption
    <3> QED  BY <2>2, <3>1, EmptyTyped DEF NoRecord
  <2> QED  BY <2>1, <2>2
<1>3. \A i \in Ids : sent[i] = records[i].data
  OBVIOUS
<1>4. /\ records \in [Ids -> [state : {"free", "live", "gone"}, type : Types, data : Data]]
      /\ sent \in [Ids -> Data]
  BY <1>2
<1>5. \A c \in Callers : calls[c] = NoCall
  OBVIOUS
<1>6. \A t \in DOMAIN types : t \in Types /\ types[t] \in Definition
  BY ConstantsAssumption
<1>7. RecordsTypeOK
  BY <1>4, <1>6, NoCallTyped DEF RecordsTypeOK
<1>8. \A c \in Callers : CallFits(c, calls[c])
  BY <1>5, NoCallTyped, EndedFits
<1>9. ASSUME NEW i \in Ids, Live(i)
      PROVE  /\ records[i].type \in DOMAIN types /\ ValuesFit(records[i].type, records[i].data)
             /\ RefsHold(records[i].type, records[i].data, {})
  <2> DEFINE t == Stored[i].type
             data == Stored[i].data
  <2>1. i \in DOMAIN Stored /\ records[i].type = t /\ records[i].data = data
    BY <1>2, <1>9, NoCallTyped DEF Live
  <2>2. t \in DOMAIN types /\ types[t] = Defined[t] /\ types[t] \in Definition /\ data \in Data
    BY <1>1, <1>6, <2>1
  <2>3. /\ \A f \in DOMAIN Defined[t] \cap DOMAIN data :
              data[f].neat /\ Accepts(Defined[t][f], data[f])
        /\ \A f \in DOMAIN ReferencesIn(Defined[t], data) :
              /\ data[f].text \in DOMAIN Stored
              /\ Stored[data[f].text].type = ReferencesIn(Defined[t], data)[f]
    BY <2>1, StoredAssumption
  <2>4. ValuesFit(t, data)
    BY <2>2, <2>3 DEF ValuesFit
  <2>5. /\ \A f : f \in DOMAIN ReferencesIn(types[t], data)
              <=> /\ f \in DOMAIN types[t] \cap DOMAIN data
                  /\ types[t][f].kind = "reference" /\ data[f] \notin {Blank, Undefined}
        /\ \A f \in DOMAIN ReferencesIn(types[t], data) :
              ReferencesIn(types[t], data)[f] = types[t][f].target
    BY <2>2, DataWide, ReferencesTyped
  <2>6. \A j \in DOMAIN Stored : Kept(j, Stored[j].type)
    BY <1>1, <1>2 DEF Kept
  <2>7. RefsHold(t, data, {})
    BY <2>2, <2>3, <2>5, <2>6 DEF RefsHold
  <2> QED  BY <2>1, <2>2, <2>4, <2>7
<1>10. \A i \in Ids : records[i].state = "free" => sent[i] = Empty
  <2>1. ASSUME NEW i \in Ids, records[i].state = "free"  PROVE sent[i] = Empty
    <3>1. records[i] = NoRecord
      BY <1>2, <2>1
    <3> QED  BY <1>3, <3>1, NoCallTyped
  <2> QED  BY <2>1
<1>11. \A i \in Ids \ crossed : \A c, d \in Callers : WritingTo(c, i) /\ WritingTo(d, i) => c = d
  BY <1>5, NoCallTyped DEF WritingTo
<1> QED
  BY <1>3, <1>7, <1>8, <1>9, <1>10, <1>11 DEF RecordsInv

LEMMA RecordsHold ==
    ASSUME RecordsInv
    PROVE  WritesMerge /\ ReferencesHold /\ StoredTyped
<1>1. WritesMerge
  BY DEF RecordsInv, WritesMerge
<1>2. ASSUME NEW i \in Ids, Live(i), records[i].type \in Fixed
      PROVE  /\ types[records[i].type] \in Definition
             /\ records[i].data \in Data /\ records[i].data \in Partial(Fields, Value)
             /\ \A f \in DOMAIN records[i].data : records[i].data[f] # Undefined
  <2>1. types[records[i].type] \in Definition /\ records[i].data \in Data
    BY <1>2 DEF RecordsInv, RecordsTypeOK, Fixed
  <2> QED  BY <2>1, DataWide, PartialElim DEF Data
<1>3. StoredTyped
  <2> SUFFICES ASSUME NEW i \in Ids, Live(i), records[i].type \in Fixed,
                      NEW f \in DOMAIN types[records[i].type] \cap DOMAIN records[i].data
               PROVE  /\ records[i].data[f].neat
                      /\ Accepts(types[records[i].type][f], records[i].data[f])
    BY DEF StoredTyped, Fixed
  <2>1. ValuesFit(records[i].type, records[i].data)
    BY DEF RecordsInv
  <2> QED  BY <1>2, <2>1 DEF ValuesFit
<1>4. ReferencesHold
  <2> SUFFICES ASSUME NEW i \in Ids \ byHand, Live(i), records[i].type \in Fixed,
                      NEW f \in DOMAIN ReferencesIn(types[records[i].type], records[i].data)
               PROVE  Kept(records[i].data[f].text,
                           ReferencesIn(types[records[i].type], records[i].data)[f])
    BY DEF ReferencesHold, Fixed, Kept
  <2> DEFINE fields == types[records[i].type]
             data == records[i].data
  <2>1. /\ f \in DOMAIN fields \cap DOMAIN data /\ fields[f].kind = "reference"
        /\ data[f] \notin {Blank, Undefined}
        /\ ReferencesIn(fields, data)[f] = fields[f].target
    BY <1>2, ReferencesTyped
  <2>2. RefsHold(records[i].type, data, {})
    BY DEF RecordsInv
  <2> QED  BY <2>1, <2>2 DEF RefsHold
<1> QED  BY <1>1, <1>3, <1>4

\* A record that is there, or was, stays so.
NoneFreed == \A i \in Ids : records[i].state # "free" => records'[i].state # "free"

LEMMA CallsFreeNone ==
    ASSUME RecordsInv, NEW c \in Callers, CallSteps(c)
    PROVE  NoneFreed /\ \A d \in Callers \ {c} : calls'[d] = calls[d]
<1>1. records \in [Ids -> [state : {"free", "live", "gone"}, type : Types, data : Data]]
      /\ calls \in [Callers -> Call]
  BY DEF RecordsInv, RecordsTypeOK
<1>2. ASSUME NEW k, Goes(c, k)  PROVE \A d \in Callers \ {c} : calls'[d] = calls[d]
  BY <1>1, <1>2 DEF Goes
<1>3. ASSUME NEW how, NEW id, NEW data, Ends(c, how, id, data)
      PROVE  \A d \in Callers \ {c} : calls'[d] = calls[d]
  BY <1>2, <1>3 DEF Ends
<1>4. ASSUME NEW i, NEW t, NEW data, NEW patch, Writes(i, t, data, patch)  PROVE NoneFreed
  BY <1>1, <1>4 DEF Writes, NoneFreed
<1>5. UNCHANGED records => NoneFreed
  BY DEF NoneFreed
<1>6. CASE Resolve(c) \/ FindExisting(c) \/ LoadFields(c) \/ CheckReference(c)
  BY <1>2, <1>3, <1>5, <1>6
     DEF Resolve, FindExisting, LoadFields, CheckReference, Fails, Reading
<1>7. CASE FindByValue(c) \/ SearchByText(c) \/ QueryFails(c)
  BY <1>3, <1>5, <1>7 DEF FindByValue, AnswersOne, SearchByText, QueryFails, Fails, Reading
<1>8. CASE Insert(c) \/ WriteMerged(c)
  BY <1>3, <1>4, <1>5, <1>8 DEF Insert, WriteMerged, Fails
<1>9. CASE ReadForMerge(c)
  BY <1>2, <1>3, <1>5, <1>9 DEF ReadForMerge, Fails
<1> QED
  BY <1>6, <1>7, <1>8, <1>9 DEF CallSteps

LEMMA CatalogFreesNone ==
    ASSUME RecordsInv, CatalogSteps
    PROVE  NoneFreed /\ \A r \in Pipelines : calls'[r] = calls[r]
<1>1. records \in [Ids -> [state : {"free", "live", "gone"}, type : Types, data : Data]]
      /\ calls \in [Callers -> Call]
  BY DEF RecordsInv, RecordsTypeOK
<1>2. Agents \cap Pipelines = {} /\ Pages \cap Pipelines = {}
  BY ConstantsAssumption
<1>3. UNCHANGED records => NoneFreed
  BY DEF NoneFreed
<1>4. ASSUME NEW c \in Agents \cup Pages, NEW k, Goes(c, k)
      PROVE  \A r \in Pipelines : calls'[r] = calls[r]
  BY <1>1, <1>2, <1>4 DEF Goes, Callers
<1>5. CASE \E c \in Agents \cup Pages : CallSteps(c)
  BY <1>2, <1>5, CallsFreeNone DEF Callers
<1>6. CASE \E c \in Agents : CallTool(c)
  BY <1>3, <1>4, <1>6 DEF CallTool, Invoke, Reading
<1>7. CASE \E c \in Pages : OpenForm(c)
  BY <1>3, <1>4, <1>7 DEF OpenForm, Reading
<1>8. CASE \E c \in Pages : Submit(c)
  BY <1>3, <1>4, <1>8 DEF Submit, Reading
<1>9. CASE \E c \in Pages : ParseForm(c)
  BY <1>3, <1>4, <1>9 DEF ParseForm, Fails, Ends, Reading
<1>10. CASE \E i \in Ids : DeleteRecord(i)
  BY <1>1, <1>10 DEF DeleteRecord, NoneFreed
<1>11. CASE \E t \in Types : CreateType(t) \/ Redefine(t)
  BY <1>3, <1>11 DEF CreateType, Redefine
<1>12. CASE \E t \in Types : DropType(t)
  <2>1. PICK t \in Types : DropType(t)
    BY <1>12
  <2>2. ASSUME NEW i \in Ids, records[i].state # "free"  PROVE records'[i].state # "free"
    <3>1. records'[i] = IF Live(i) /\ records[i].type = t
                        THEN [records[i] EXCEPT !.state = "gone"] ELSE records[i]
      BY <2>1 DEF DropType
    <3>2. [records[i] EXCEPT !.state = "gone"].state = "gone"
      BY <1>1
    <3> QED  BY <2>2, <3>1, <3>2
  <2> QED  BY <2>1, <2>2 DEF NoneFreed, DropType
<1> QED
  BY <1>5, <1>6, <1>7, <1>8, <1>9, <1>10, <1>11, <1>12 DEF CatalogSteps

\* A pipeline's write goes on as a write.
LEMMA SavingGoesOn ==
    ASSUME RecordsInv, NEW c \in Pipelines, CallSteps(c), Saving(calls[c])
    PROVE  Saving(calls'[c])
<1>1. c \in Callers /\ calls[c] \in Call /\ calls \in [Callers -> Call]
  BY DEF Callers, RecordsInv, RecordsTypeOK
<1>2. ASSUME NEW k, Goes(c, k)  PROVE calls'[c] = k
  BY <1>1, <1>2 DEF Goes
<1>3. ASSUME Fails(c)  PROVE Saving(calls'[c])
  <2> DEFINE k == [NoCall EXCEPT !.pc = "failed", !.id = "", !.values = Empty]
  <2>1. Goes(c, k)
    BY <1>3 DEF Fails, Ends
  <2>2. k.pc = "failed"
    BY NoCallTyped DEF Call
  <2>3. calls'[c] = k
    BY <1>2, <2>1
  <2> HIDE DEF k
  <2> QED  BY <2>2, <2>3 DEF Saving
<1>4. ASSUME NEW i \in Ids, NEW data, Ends(c, "done", i, data)  PROVE Saving(calls'[c])
  <2> DEFINE k == [NoCall EXCEPT !.pc = "done", !.id = i, !.values = data]
  <2>1. Goes(c, k)
    BY <1>4 DEF Ends
  <2>2. k.pc = "done" /\ k.id = i
    BY NoCallTyped DEF Call
  <2>3. calls'[c] = k
    BY <1>2, <2>1
  <2> HIDE DEF k
  <2> QED  BY <2>2, <2>3 DEF Saving
<1>5. ASSUME NEW k, Goes(c, k), k.pc \in {"existing", "fields", "refs", "insert", "read", "write"}
      PROVE  Saving(calls'[c])
  BY <1>2, <1>5 DEF Saving
<1>6. ASSUME NEW k \in Call, Goes(c, AfterChecks(k))  PROVE Saving(calls'[c])
  <2>1. AfterChecks(k).pc \in {"insert", "read"}
    BY DEF AfterChecks, Call
  <2> QED  BY <1>5, <1>6, <2>1
<1>7. CASE Resolve(c)
  <2> DEFINE next == CASE calls[c].op \in {"find", "search"} -> calls[c].op
                       [] calls[c].op = "create" -> "fields"
                       [] calls[c].op = "update" -> "existing"
             k == [calls[c] EXCEPT !.pc = next]
  <2>1. Fails(c) \/ Goes(c, k)
    BY <1>7 DEF Resolve
  <2>2. next \in {"existing", "fields"}
    BY <1>7 DEF Resolve, Saving
  <2> HIDE DEF next
  <2>3. k.pc = next
    BY <1>1 DEF Call
  <2> HIDE DEF k
  <2> QED  BY <1>3, <1>5, <2>1, <2>2, <2>3
<1>8. CASE FindExisting(c)
  <2> DEFINE k == [calls[c] EXCEPT !.pc = "fields", !.type = records[calls[c].id].type]
  <2>1. Fails(c) \/ Goes(c, k)
    BY <1>8 DEF FindExisting
  <2>2. k.pc = "fields"
    BY <1>1 DEF Call
  <2> HIDE DEF k
  <2> QED  BY <1>3, <1>5, <2>1, <2>2
<1>9. CASE LoadFields(c)
  <2> DEFINE fields == types[calls[c].type]
             values == Coerced(fields, calls[c].patch)
             k == [calls[c] EXCEPT !.pc = "refs", !.values = values,
                                   !.refs = ReferencesIn(fields, values)]
             m == [calls[c] EXCEPT !.values = calls[c].patch]
  <2>1. Fails(c) \/ Goes(c, k) \/ Goes(c, AfterChecks(m))
    BY <1>9 DEF LoadFields
  <2>2. k.pc = "refs" /\ m \in Call
    BY <1>1, DataWide DEF Call
  <2> HIDE DEF k, m
  <2> QED  BY <1>3, <1>5, <1>6, <2>1, <2>2
<1>10. CASE CheckReference(c)
  <2>1. \/ Fails(c) \/ Goes(c, AfterChecks(calls[c]))
        \/ \E f \in DOMAIN calls[c].refs :
              Goes(c, [calls[c] EXCEPT !.refs =
                          [g \in DOMAIN calls[c].refs \ {f} |-> calls[c].refs[g]]])
    BY <1>10 DEF CheckReference
  <2>2. ASSUME NEW f \in DOMAIN calls[c].refs,
               Goes(c, [calls[c] EXCEPT !.refs =
                          [g \in DOMAIN calls[c].refs \ {f} |-> calls[c].refs[g]]])
        PROVE  Saving(calls'[c])
    <3> DEFINE k == [calls[c] EXCEPT !.refs =
                       [g \in DOMAIN calls[c].refs \ {f} |-> calls[c].refs[g]]]
    <3>1. k.pc = "refs"
      BY <1>1, <1>10 DEF Call, CheckReference
    <3>2. Goes(c, k)
      BY <2>2
    <3> HIDE DEF k
    <3> QED  BY <1>5, <3>1, <3>2
  <2> QED  BY <1>1, <1>3, <1>6, <2>1, <2>2
<1>11. CASE Insert(c)
  BY <1>3, <1>4, <1>11 DEF Insert
<1>12. CASE ReadForMerge(c)
  <2> DEFINE k == [calls[c] EXCEPT !.pc = "write", !.seen = records[calls[c].id].data]
  <2>1. Fails(c) \/ Goes(c, k)
    BY <1>12 DEF ReadForMerge
  <2>2. k.pc = "write"
    BY <1>1 DEF Call
  <2> HIDE DEF k
  <2> QED  BY <1>3, <1>5, <2>1, <2>2
<1>13. CASE WriteMerged(c)
  BY <1>3, <1>4, <1>13 DEF WriteMerged, Live
<1>14. CASE QueryFails(c)
  BY <1>3, <1>14 DEF QueryFails
<1>15. CASE FindByValue(c) \/ SearchByText(c)
  BY <1>15 DEF FindByValue, SearchByText, Saving
<1> QED
  BY <1>7, <1>8, <1>9, <1>10, <1>11, <1>12, <1>13, <1>14, <1>15 DEF CallSteps

-----------------------------------------------------------------------------
(* The calls to the store.                                                  *)

LEMMA SeqIntro ==
    ASSUME NEW S, NEW n \in Nat, NEW s \in [1 .. n -> S]
    PROVE  s \in Seq(S)
OBVIOUS

LEMMA SeqEmpty == \A S : <<>> \in Seq(S)
OBVIOUS

LEMMA SeqNarrow ==
    ASSUME NEW S, NEW T, NEW s \in Seq(S), \A k \in DOMAIN s : s[k] \in T
    PROVE  s \in Seq(T)
<1>1. Len(s) \in Nat /\ DOMAIN s = 1 .. Len(s)
  OBVIOUS
<1>2. s \in [1 .. Len(s) -> S]
  OBVIOUS
<1>3. s \in [1 .. Len(s) -> T]
  BY <1>1, <1>2
<1> QED  BY <1>1, <1>3, SeqIntro

LEMMA SeqTuples ==
    ASSUME NEW S, NEW a \in S, NEW b \in S
    PROVE  <<a>> \in Seq(S) /\ <<a, b>> \in Seq(S)
OBVIOUS

LEMMA SeqElim ==
    ASSUME NEW S, NEW s \in Seq(S)
    PROVE  /\ Len(s) \in Nat /\ DOMAIN s = 1 .. Len(s) /\ \A k \in DOMAIN s : s[k] \in S
           /\ s # <<>> => Head(s) \in S /\ Tail(s) \in Seq(S)
OBVIOUS

LEMMA HeadOrTail ==
    ASSUME NEW S, NEW s \in Seq(S), s # <<>>
    PROVE  /\ Head(s) \in S /\ Tail(s) \in Seq(S)
           /\ \A j \in DOMAIN s :
                 s[j] = Head(s) \/ \E i \in DOMAIN Tail(s) : Tail(s)[i] = s[j]
<1>1. Len(s) \in Nat \ {0} /\ DOMAIN s = 1 .. Len(s)
  OBVIOUS
<1>2. Head(s) = s[1] /\ DOMAIN Tail(s) = 1 .. Len(s) - 1
  BY <1>1
<1>3. \A i \in 1 .. Len(s) - 1 : Tail(s)[i] = s[i + 1]
  BY <1>1
<1>4. ASSUME NEW j \in 1 .. Len(s), j # 1
      PROVE  \E i \in DOMAIN Tail(s) : Tail(s)[i] = s[j]
  <2>1. j - 1 \in 1 .. Len(s) - 1 /\ (j - 1) + 1 = j
    BY <1>1, <1>4
  <2>2. Tail(s)[j - 1] = s[j]
    BY <1>3, <2>1
  <2> QED  BY <1>2, <2>1, <2>2
<1> QED  BY <1>1, <1>2, <1>4, SeqElim

LEMMA NoRequestTyped ==
    /\ NoRequest \in Request /\ NoRequest.pc = "idle" /\ NoRequest.op = "folder"
    /\ NoRequest.content = "" /\ NoRequest.replace = FALSE
BY DEF NoRequest, Request

\* A call of the store goes on; what it leads to stays.
LEMMA TurnKeeps ==
    ASSUME RequestsInv, NEW r \in Requests, NEW q \in Request, Turns(r, q),
           folders' \in Seq(Folder), files' \in Seq(File),
           homes \subseteq homes', homes' \subseteq Seq(Names) \X Nat, raced' \subseteq Names,
           RequestSound(q),
           q.pc \in {"findFile", "patch", "upload", "saved"} => \E h \in homes' : h[1] = q.path
    PROVE  /\ RequestsInv' /\ requests'[r] = q
           /\ \A p \in Requests \ {r} : requests'[p] = requests[p]
<1>1. /\ requests' \in [Requests -> Request] /\ requests'[r] = q
      /\ \A p \in Requests \ {r} : requests'[p] = requests[p]
  BY DEF Turns, RequestsInv, DriveTypeOK
<1>2. ASSUME NEW m, RequestFits(m)  PROVE RequestFits(m)'
  BY <1>2 DEF RequestFits, Made
<1>4. RequestFits(q)'
  BY DEF RequestFits, Made
<1>3. ASSUME NEW p \in Requests  PROVE RequestFits(requests[p])'
  BY <1>1, <1>2, <1>4 DEF RequestsInv
<1> QED
  BY <1>1, <1>3 DEF RequestsInv, DriveTypeOK

\* The same where the folders, files and homes stay.
LEMMA TurnOnly ==
    ASSUME RequestsInv, NEW r \in Requests, NEW q \in Request, Turns(r, q),
           UNCHANGED <<folders, files, homes>>, raced' \subseteq Names,
           RequestFits(q)
    PROVE  /\ RequestsInv' /\ requests'[r] = q
           /\ \A p \in Requests \ {r} : requests'[p] = requests[p]
<1>1. /\ RequestSound(q)
      /\ q.pc \in {"findFile", "patch", "upload", "saved"} => \E h \in homes' : h[1] = q.path
  BY DEF RequestFits, Made
<1> QED
  BY <1>1, TurnKeeps DEF RequestsInv, DriveTypeOK

\* What a tool is asked, whose path may have an empty segment.
Asked == [pc : {"idle", "access", "seek", "download", "walk", "mkdir", "findFile", "patch",
                "upload", "saved", "refused"},
          op : {"folder", "file", "template"}, path : Seq(Names \cup {""}),
          left : Seq(Names), source : Seq(Names), at : Nat, name : Names \cup {""},
          content : Contents \cup {""}, replace : BOOLEAN]

LEMMA AskKeeps ==
    ASSUME RequestsInv, NEW r \in Requests, NEW m \in Asked, Ask(r, m),
           UNCHANGED <<folders, files, homes, raced>>,
           m.op # "folder" => m.name # "", m.op = "file" => m.content \in Contents
    PROVE  /\ RequestsInv'
           /\ \A p \in Requests \ {r} : requests'[p] = requests[p]
           /\ \/ requests'[r].pc = "refused"
              \/ requests'[r].pc = "access" /\ requests'[r].path = m.path
<1>1. CASE \A k \in DOMAIN m.path : m.path[k] \in Names
  <2> DEFINE q == [m EXCEPT !.pc = "access", !.left = m.path]
  <2>1. m.path \in Seq(Names)
    <3>1. m.path \in Seq(Names \cup {""})
      BY DEF Asked
    <3> QED  BY <1>1, <3>1, SeqNarrow
  <2>2. /\ q \in Request /\ q.pc = "access" /\ q.op = m.op /\ q.name = m.name
        /\ q.content = m.content /\ q.path = m.path
    BY <2>1 DEF Asked, Request
  <2>3. Turns(r, q)
    BY <1>1 DEF Ask
  <2> HIDE DEF q
  <2>4. RequestFits(q)
    BY <2>2 DEF RequestFits, RequestSound
  <2> QED  BY <2>2, <2>3, <2>4, TurnOnly DEF RequestsInv, DriveTypeOK
<1>2. CASE ~\A k \in DOMAIN m.path : m.path[k] \in Names
  <2> DEFINE q == [m EXCEPT !.pc = "refused", !.path = <<>>]
  <2>1. q \in Request /\ q.pc = "refused"
    <3> DEFINE none == <<>>
    <3>1. none \in Seq(Names)
      BY SeqEmpty
    <3>2. q = [m EXCEPT !.pc = "refused", !.path = none]
      OBVIOUS
    <3> HIDE DEF q, none
    <3> QED  BY <3>1, <3>2 DEF Asked, Request
  <2>2. Turns(r, q)
    BY <1>2 DEF Ask
  <2> HIDE DEF q
  <2>3. RequestFits(q)
    BY <2>1 DEF RequestFits, RequestSound
  <2> QED  BY <2>1, <2>2, <2>3, TurnOnly DEF RequestsInv, DriveTypeOK
<1> QED  BY <1>1, <1>2

\* What a step of the store's shows to the run that waits for it.
Onward(r) ==
    /\ homes \subseteq homes'
    /\ \A p \in Requests \ {r} : requests'[p] = requests[p]
    /\ requests[r].pc \notin {"idle", "saved", "refused"} /\ requests'[r].pc # "idle"
    /\ requests'[r].path = requests[r].path

LEMMA RequestOf ==
    ASSUME RequestsInv, NEW r \in Requests
    PROVE  requests[r] \in Request /\ RequestFits(requests[r])
BY DEF RequestsInv, DriveTypeOK

\* A call that answers and changes nothing else.
LEMMA AnswerKeeps ==
    ASSUME RequestsInv, NEW r \in Requests, NEW how, Answers(r, how),
           UNCHANGED <<folders, files, homes>>, raced' \subseteq Names,
           requests[r].pc \notin {"idle", "saved", "refused"},
           \/ how = "refused"
           \/ how = "seek" /\ requests[r].pc = "access" /\ requests[r].op = "template"
           \/ how = "walk" /\ requests[r].pc = "access" /\ requests[r].op # "template"
           \/ how = "mkdir" /\ requests[r].pc = "walk" /\ requests[r].left # <<>>
           \/ how = "upload" /\ requests[r].pc = "findFile"
    PROVE  RequestsInv' /\ Onward(r)
<1> DEFINE q == [requests[r] EXCEPT !.pc = how]
<1>1. /\ q \in Request /\ q.pc = how /\ q.op = requests[r].op /\ q.name = requests[r].name
      /\ q.content = requests[r].content /\ q.path = requests[r].path /\ q.left = requests[r].left
  BY RequestOf DEF Request
<1>2. Turns(r, q)
  BY DEF Answers
<1> HIDE DEF q
<1>3. requests[r].op \in {"folder", "file", "template"}
  BY RequestOf DEF Request
<1>4. RequestFits(q)
  BY <1>1, <1>3, RequestOf DEF RequestFits, RequestSound
<1>5. /\ RequestsInv' /\ requests'[r] = q
      /\ \A p \in Requests \ {r} : requests'[p] = requests[p]
  BY <1>1, <1>2, <1>4, TurnOnly
<1> QED  BY <1>1, <1>5 DEF Onward

LEMMA DriveKeeps ==
    ASSUME RequestsInv, NEW r \in Requests, DriveSteps(r)
    PROVE  RequestsInv' /\ Onward(r)
<1> DEFINE q == requests[r]
<1>1. /\ q \in Request /\ RequestFits(q) /\ folders \in Seq(Folder) /\ files \in Seq(File)
      /\ homes \subseteq Seq(Names) \X Nat /\ raced \subseteq Names
  BY RequestOf DEF RequestsInv, DriveTypeOK
<1>14. DOMAIN folders \subseteq Nat /\ DOMAIN files \subseteq Nat
  <2>1. ASSUME NEW S, NEW s \in Seq(S)  PROVE DOMAIN s \subseteq Nat
    BY SeqElim
  <2> QED  BY <1>1, <2>1
<1>2. q.left # <<>> => Head(q.left) \in Names /\ Tail(q.left) \in Seq(Names)
  BY <1>1, SeqElim DEF Request
<1>3. CASE Reach(r)
  <2>1. /\ Answers(r, FirstOf(q.op)) /\ q.pc = "access"
        /\ UNCHANGED <<folders, files, homes, raced>>
    BY <1>3 DEF Reach
  <2>2. FirstOf(q.op) = IF q.op = "template" THEN "seek" ELSE "walk"
    BY DEF FirstOf
  <2> QED  BY <1>1, <2>1, <2>2, AnswerKeeps
<1>4. CASE SeekFolder(r) \/ SeekFile(r) \/ Download(r)
  <2>1. UNCHANGED <<folders, files, homes, raced>> /\ q.pc \in {"seek", "download"}
    BY <1>4 DEF SeekFolder, SeekFile, Download
  <2>2. CASE Answers(r, "refused")
    BY <1>1, <2>1, <2>2, AnswerKeeps
  <2>3. ASSUME NEW m \in Request, Turns(r, m), m.pc \in {"seek", "download", "walk"},
               m.op = q.op, m.name = q.name, m.path = q.path,
               m.pc = "walk" => m.content \in Contents
        PROVE  RequestsInv' /\ Onward(r)
    <3>1. RequestFits(m)
      BY <1>1, <2>1, <2>3 DEF RequestFits, RequestSound
    <3>2. /\ RequestsInv' /\ requests'[r] = m
          /\ \A p \in Requests \ {r} : requests'[p] = requests[p]
      BY <1>1, <2>1, <2>3, <3>1, TurnOnly
    <3> QED  BY <2>1, <2>3, <3>2 DEF Onward
  <2>4. CASE SeekFolder(r) /\ ~Answers(r, "refused")
    <3>1. PICK k \in DOMAIN folders : Turns(r, [q EXCEPT !.at = k, !.source = Tail(q.source)])
      BY <2>4 DEF SeekFolder, FoldersNamed
    <3> DEFINE m == [q EXCEPT !.at = k, !.source = Tail(q.source)]
    <3>5. k \in Nat /\ q.pc = "seek" /\ Len(q.source) > 1 /\ q.source \in Seq(Names)
      BY <1>1, <1>14, <2>4 DEF SeekFolder, Request
    <3>2. k \in Nat /\ Tail(q.source) \in Seq(Names) /\ q.pc = "seek"
      BY <3>5
    <3>3. m \in Request /\ m.pc = "seek" /\ m.op = q.op /\ m.name = q.name /\ m.path = q.path
      BY <1>1, <3>2 DEF Request
    <3>4. Turns(r, m)
      BY <3>1
    <3> HIDE DEF m
    <3> QED  BY <2>3, <3>3, <3>4
  <2>5. CASE SeekFile(r) /\ ~Answers(r, "refused")
    <3>1. PICK k \in DOMAIN files :
            Turns(r, [q EXCEPT !.at = k, !.source = <<>>, !.pc = "download"])
      BY <2>5 DEF SeekFile, FilesNamed
    <3> DEFINE m == [q EXCEPT !.at = k, !.source = <<>>, !.pc = "download"]
    <3>2. k \in Nat /\ <<>> \in Seq(Names)
      BY <1>14
    <3>3. m \in Request /\ m.pc = "download" /\ m.op = q.op /\ m.name = q.name /\ m.path = q.path
      BY <1>1, <3>2 DEF Request
    <3>4. Turns(r, m)
      BY <3>1
    <3> HIDE DEF m
    <3> QED  BY <2>3, <3>3, <3>4
  <2>6. CASE Download(r) /\ ~Answers(r, "refused")
    <3>1. PICK c \in Contents : Turns(r, [q EXCEPT !.pc = "walk", !.at = 0, !.content = c])
      BY <2>6, DriveAssumption DEF Download, Rendered
    <3> DEFINE m == [q EXCEPT !.pc = "walk", !.at = 0, !.content = c]
    <3>2. /\ m \in Request /\ m.pc = "walk" /\ m.op = q.op /\ m.name = q.name /\ m.path = q.path
          /\ m.content \in Contents
      BY <1>1 DEF Request
    <3>3. Turns(r, m)
      BY <3>1
    <3> HIDE DEF m
    <3> QED  BY <2>3, <3>2, <3>3
  <2> QED  BY <1>4, <2>2, <2>4, <2>5, <2>6
<1>5. ASSUME NEW k \in Nat, Enters(r, k), q.pc \in {"walk", "mkdir"}, q.left # <<>>,
             folders' \in Seq(Folder), UNCHANGED <<files, homes, raced>>
      PROVE  RequestsInv' /\ Onward(r)
  <2> DEFINE m == [q EXCEPT !.pc = "walk", !.at = k, !.left = Tail(q.left)]
  <2>1. /\ m \in Request /\ m.pc = "walk" /\ m.op = q.op /\ m.name = q.name /\ m.path = q.path
        /\ m.content = q.content
    BY <1>1, <1>2, <1>5 DEF Request
  <2>2. Turns(r, m)
    BY <1>5 DEF Enters
  <2> HIDE DEF m
  <2>3. RequestSound(m)
    BY <1>1, <1>5, <2>1 DEF RequestFits, RequestSound
  <2>4. /\ RequestsInv' /\ requests'[r] = m
        /\ \A p \in Requests \ {r} : requests'[p] = requests[p]
    BY <1>1, <1>5, <2>1, <2>2, <2>3, TurnKeeps
  <2> QED  BY <1>5, <2>1, <2>4 DEF Onward
<1>6. CASE FindFolder(r)
  <2>1. q.pc = "walk" /\ q.left # <<>> /\ UNCHANGED <<folders, files, homes>>
    BY <1>6 DEF FindFolder
  <2>2. \/ UNCHANGED raced /\ \E k \in DOMAIN folders : Enters(r, k)
        \/ Answers(r, "mkdir") /\ raced' \subseteq Names
    BY <1>1, <1>2, <1>6 DEF FindFolder, FoldersNamed
  <2> QED  BY <1>1, <1>5, <1>14, <2>1, <2>2, AnswerKeeps
<1>7. CASE MakeFolder(r)
  <2> DEFINE name == Head(q.left)
             folder == [name |-> name,
                        renamed |-> FoldersNamed(name, q.at) # {} /\ Provider = "sharepoint",
                        parent |-> q.at]
  <2>1. q.pc = "mkdir" /\ q.left # <<>> /\ name \in Names /\ q.at \in Nat
    BY <1>1, <1>2, <1>7 DEF MakeFolder, RequestFits, RequestSound, Request
  <2>2. folder \in Folder
    BY <2>1 DEF Folder
  <2>3. folders' = Append(folders, folder) /\ Enters(r, Len(folders) + 1)
        /\ UNCHANGED <<files, homes, raced>>
    BY <1>7 DEF MakeFolder
  <2> HIDE DEF folder
  <2>4. folders' \in Seq(Folder) /\ Len(folders) + 1 \in Nat
    BY <1>1, <2>2, <2>3
  <2> QED  BY <1>5, <2>1, <2>3, <2>4
<1>8. CASE ReachFolder(r)
  <2> DEFINE how == AfterWalk(q)
             m == [q EXCEPT !.pc = how]
  <2>1. /\ q.pc = "walk" /\ Answers(r, how) /\ UNCHANGED <<folders, files, raced>>
        /\ homes' = homes \cup {<<q.path, q.at>>}
    BY <1>8 DEF ReachFolder
  <2>2. \/ how = "saved" /\ q.op = "folder"
        \/ how \in {"findFile", "upload"} /\ q.op # "folder"
    BY DEF AfterWalk
  <2> HIDE DEF how
  <2>3. /\ m \in Request /\ m.pc = how /\ m.op = q.op /\ m.name = q.name /\ m.path = q.path
        /\ m.content = q.content
    BY <1>1, <2>2 DEF Request
  <2>4. Turns(r, m)
    BY <2>1 DEF Answers
  <2> HIDE DEF m
  <2>5. homes' \subseteq Seq(Names) \X Nat /\ \E h \in homes' : h[1] = m.path
    <3>1. <<q.path, q.at>> \in Seq(Names) \X Nat
      BY <1>1 DEF Request
    <3>2. <<q.path, q.at>>[1] = m.path
      BY <2>3
    <3> QED  BY <1>1, <2>1, <3>1, <3>2
  <2>6. RequestSound(m)
    BY <1>1, <2>1, <2>2, <2>3 DEF RequestFits, RequestSound
  <2>7. /\ RequestsInv' /\ requests'[r] = m
        /\ \A p \in Requests \ {r} : requests'[p] = requests[p]
    BY <1>1, <2>1, <2>3, <2>4, <2>5, <2>6, TurnKeeps
  <2> QED  BY <2>1, <2>2, <2>3, <2>7 DEF Onward
<1>9. CASE FindFile(r)
  <2>1. q.pc = "findFile" /\ UNCHANGED <<folders, files, homes>>
    BY <1>9 DEF FindFile
  <2>2. q.name \in Names
    BY <1>1, <2>1 DEF RequestFits, RequestSound, Request
  <2>3. \/ UNCHANGED raced /\ \E k \in DOMAIN files : Turns(r, [q EXCEPT !.pc = "patch", !.at = k])
        \/ Answers(r, "upload") /\ raced' \subseteq Names
    BY <1>1, <1>9, <2>2 DEF FindFile, FilesNamed
  <2>4. ASSUME NEW k \in DOMAIN files, Turns(r, [q EXCEPT !.pc = "patch", !.at = k]),
               UNCHANGED raced
        PROVE  RequestsInv' /\ Onward(r)
    <3> DEFINE m == [q EXCEPT !.pc = "patch", !.at = k]
    <3>1. k \in Nat
      BY <1>14
    <3>2. /\ m \in Request /\ m.pc = "patch" /\ m.op = q.op /\ m.name = q.name
          /\ m.path = q.path /\ m.content = q.content
      BY <1>1, <3>1 DEF Request
    <3>3. Turns(r, m)
      BY <2>4
    <3> HIDE DEF m
    <3>4. RequestFits(m)
      BY <1>1, <2>1, <3>2 DEF RequestFits, RequestSound
    <3>5. /\ RequestsInv' /\ requests'[r] = m
          /\ \A p \in Requests \ {r} : requests'[p] = requests[p]
      BY <1>1, <2>1, <2>4, <3>2, <3>3, <3>4, TurnOnly
    <3> QED  BY <2>1, <3>2, <3>5 DEF Onward
  <2> QED  BY <1>1, <2>1, <2>3, <2>4, AnswerKeeps
<1>10. ASSUME q.pc \in {"patch", "upload"}, Answers(r, "saved"), files' \in Seq(File),
              UNCHANGED <<folders, homes, raced>>
       PROVE  RequestsInv' /\ Onward(r)
  <2> DEFINE m == [q EXCEPT !.pc = "saved"]
  <2>1. /\ m \in Request /\ m.pc = "saved" /\ m.op = q.op /\ m.name = q.name
        /\ m.path = q.path /\ m.content = q.content
    BY <1>1 DEF Request
  <2>2. Turns(r, m)
    BY <1>10 DEF Answers
  <2> HIDE DEF m
  <2>3. RequestSound(m) /\ \E h \in homes' : h[1] = m.path
    BY <1>1, <1>10, <2>1 DEF RequestFits, RequestSound, Made
  <2>4. /\ RequestsInv' /\ requests'[r] = m
        /\ \A p \in Requests \ {r} : requests'[p] = requests[p]
    BY <1>1, <1>10, <2>1, <2>2, <2>3, TurnKeeps
  <2> QED  BY <1>10, <2>1, <2>4 DEF Onward
<1>11. CASE UpdateFile(r)
  <2>1. /\ q.pc = "patch" /\ files' = [files EXCEPT ![q.at].content = q.content]
        /\ Answers(r, "saved") /\ UNCHANGED <<folders, homes, raced>>
    BY <1>11 DEF UpdateFile
  <2>2. q.content \in Contents
    BY <1>1, <2>1 DEF RequestFits, RequestSound
  <2>3. /\ Len(files) \in Nat /\ files \in [1 .. Len(files) -> File]
    BY <1>1
  <2>4. files' \in [1 .. Len(files) -> File]
    BY <2>1, <2>2, <2>3 DEF File
  <2> QED  BY <1>10, <2>1, <2>3, <2>4, SeqIntro
<1>12. CASE Upload(r)
  <2> DEFINE file == [name |-> q.name, folder |-> q.at, content |-> q.content]
  <2>1. /\ q.pc = "upload" /\ Answers(r, "saved") /\ UNCHANGED <<folders, homes, raced>>
        /\ files' = IF Provider = "sharepoint" THEN PutAtPath(file) ELSE Posted(file)
    BY <1>12 DEF Upload
  <2>2. file \in File
    BY <1>1, <2>1 DEF RequestFits, RequestSound, Request, File
  <2> HIDE DEF file
  <2>3. Posted(file) \in Seq(File)
    BY <1>1, <2>2 DEF Posted
  <2>4. PutAtPath(file) \in Seq(File)
    <3>1. /\ Len(files) \in Nat /\ DOMAIN files = 1 .. Len(files)
          /\ \A k \in 1 .. Len(files) : files[k] \in File
      BY <1>1, SeqElim
    <3> DEFINE same == FilesNamed(file.name, file.folder)
               put == [k \in DOMAIN files |-> IF k \in same THEN file ELSE files[k]]
    <3> HIDE DEF same
    <3>2. put \in [1 .. Len(files) -> File]
      BY <2>2, <3>1
    <3>3. put \in Seq(File)
      BY <3>1, <3>2, SeqIntro
    <3>4. PutAtPath(file) = IF same = {} THEN Append(files, file) ELSE put
      BY DEF PutAtPath, same
    <3>5. Append(files, file) \in Seq(File)
      BY <1>1, <2>2
    <3> QED  BY <3>3, <3>4, <3>5
  <2> QED  BY <1>10, <2>1, <2>3, <2>4
<1>13. CASE StoreFails(r)
  BY <1>1, <1>13, AnswerKeeps DEF StoreFails
<1> QED
  BY <1>3, <1>4, <1>6, <1>7, <1>8, <1>9, <1>11, <1>12, <1>13 DEF DriveSteps

-----------------------------------------------------------------------------
(* The runs.                                                                *)

LEMMA RecordsSame ==
    ASSUME RecordsInv, UNCHANGED recordVars
    PROVE  RecordsInv' /\ NoneFreed
<1>1. UNCHANGED <<types, records, calls, sent, crossed, byHand, redefined>>
  BY DEF recordVars
<1>2. Grows
  BY <1>1, ReadingGrows
<1>3. \A i \in Ids : /\ records'[i].state = "free" => records[i].state = "free"
                     /\ Live(i)' => Live(i) /\ records'[i] = records[i]
                                    /\ records[i].type \in DOMAIN types'
  BY <1>1 DEF Live, RecordsInv
<1> QED
  BY <1>1, <1>2, <1>3, ChangeKeeps DEF RecordsInv, RecordsTypeOK, NoneFreed

LEMMA RequestsSame ==
    ASSUME RequestsInv, UNCHANGED driveVars
    PROVE  RequestsInv' /\ homes \subseteq homes'
BY DEF RequestsInv, DriveTypeOK, driveVars, RequestFits, Made

LEMMA Actors ==
    /\ Runs \subseteq Callers /\ Runs = Pipelines /\ Runs \subseteq Requests
    /\ Runs \subseteq Contents /\ Fillers \subseteq Requests /\ Fillers \cap Runs = {}
    /\ Signals \subseteq Runs /\ Mails \subseteq Runs /\ Signals \cap Mails = {}
BY PipelineAssumption DEF Callers, Runs

LEMMA TransitionTyped ==
    ASSUME NEW r
    PROVE  /\ \A t \in TransitionOf(r) : t \in Transition
           /\ \A t, u \in TransitionOf(r) : t = u
<1>1. \A t \in DOMAIN Transitions : Transitions[t] \in Transition
  BY PipelineAssumption
<1> QED  BY <1>1 DEF TransitionOf

LEMMA TextTyped ==
    ASSUME NEW data \in Data, NEW otherwise \in Texts \cup {""}
    PROVE  Root(data, otherwise) \in Names \cup {""}
<1>1. \A f \in DOMAIN data : data[f] \in Value \ {Undefined}
  BY PartialElim DEF Data
<1>2. TextOf(data, RootField) \in Texts \cup {""}
  BY <1>1 DEF TextOf, Value
<1>3. Texts \subseteq Names
  BY PipelineAssumption
<1> QED  BY <1>2, <1>3 DEF Root

LEMMA PathsTyped ==
    ASSUME NEW t \in Transition, NEW data \in Data
    PROVE  PathsFor(t, data) \in Seq(Seq(Names \cup {""}))
<1> DEFINE root == Root(data, "")
           P == Seq(Names \cup {""})
<1>1. root \in Names \cup {""}
  BY TextTyped
<1> HIDE DEF root
<1>2. <<root>> \in P
  BY <1>1, SeqTuples
<1>3. /\ Len(t.subfolders) \in Nat /\ DOMAIN t.subfolders = 1 .. Len(t.subfolders)
      /\ \A k \in DOMAIN t.subfolders : t.subfolders[k] \in Names
  <2>1. t.subfolders \in Seq(Names)
    BY DEF Transition
  <2> QED  BY <2>1, SeqElim
<1>4. ASSUME NEW k \in DOMAIN t.subfolders  PROVE <<root, t.subfolders[k]>> \in P
  BY <1>1, <1>3, SeqTuples
<1> DEFINE each == [k \in DOMAIN t.subfolders |-> <<root, t.subfolders[k]>>]
<1>5. each \in [1 .. Len(t.subfolders) -> P]
  BY <1>3, <1>4
<1>6. each \in Seq(P)
  BY <1>3, <1>5, SeqIntro
<1>7. <<>> \in Seq(P) /\ <<<<root>>>> \in Seq(P)
  BY <1>2, SeqEmpty, SeqTuples
<1>8. PathsFor(t, data) \in {<<>>, <<<<root>>>>, each}
  BY DEF PathsFor, root
<1> QED  BY <1>6, <1>7, <1>8

LEMMA RunOf ==
    ASSUME RunsInv, NEW r \in Runs
    PROVE  runs[r] \in Run /\ RunFits(r)
BY DEF RunsInv

\* A run nobody moves keeps what it has, whatever its tools' calls do.
LEMMA RunStill ==
    ASSUME NEW r \in Runs, RunFits(r), runs'[r] = runs[r], NoneFreed, homes \subseteq homes',
           r \in posted' <=> r \in posted, r \in proposed' <=> r \in proposed,
           runs[r].pc = "save" => Saving(calls'[r]),
           \/ requests'[r] = requests[r]
           \/ Onward(r) /\ RequestFits(requests[r])'
    PROVE  RunFits(r)'
<1>1. PathsMade(r) => PathsMade(r)'
  BY DEF PathsMade, Made
<1>2. ASSUME NEW path, Pending(r, path)  PROVE Pending(r, path)'
  BY <1>2 DEF Pending, Made, Onward, RequestFits
<1>3. Noticed(r) => Noticed(r)'
  BY DEF Noticed
<1>4. runs[r].pc = "folder" =>
         \A t \in TransitionOf(r) : \A k \in DOMAIN PathsFor(t, runs'[r].data) :
                                Pending(r, PathsFor(t, runs[r].data)[k])'
  BY <1>2 DEF RunFits
<1>5. runs[r].pc \in {"folder", "notify", "mail"} \/ r \in posted' \cup proposed'
          => runs'[r].id \in Ids /\ records'[runs'[r].id].state # "free"
  BY DEF RunFits, NoneFreed
<1> QED
  BY <1>1, <1>3, <1>4, <1>5 DEF RunFits

\* One run moves.
LEMMA RunMoves ==
    ASSUME PipelinesInv, NEW r \in Runs, NEW run \in Run, Becomes(r, run),
           RecordsInv', RequestsInv', NoneFreed, homes \subseteq homes',
           \A q \in Runs \ {r} : /\ calls'[q] = calls[q] /\ requests'[q] = requests[q]
                                 /\ q \in posted' <=> q \in posted
                                 /\ q \in proposed' <=> q \in proposed,
           posted' \subseteq Runs, proposed' \subseteq Runs, contested' \subseteq Texts,
           UNCHANGED cast, runs'[r] = run => RunFits(r)'
    PROVE  PipelinesInv'
<1>1. /\ runs' \in [Runs -> Run] /\ runs'[r] = run
      /\ \A q \in Runs \ {r} : runs'[q] = runs[q]
  BY DEF PipelinesInv, RunsInv, Becomes
<1>2. ASSUME NEW q \in Runs  PROVE RunFits(q)'
  <2>1. CASE q = r
    BY <1>1, <2>1
  <2>2. CASE q # r
    <3>1. RunFits(q)
      BY DEF PipelinesInv, RunsInv
    <3>2. runs[q].pc = "save" => Saving(calls'[q])
      BY <2>2, <3>1 DEF RunFits
    <3> QED  BY <1>1, <2>2, <3>1, <3>2, RunStill
  <2> QED  BY <2>1, <2>2
<1> QED
  BY <1>1, <1>2 DEF PipelinesInv, RunsInv

\* No run moves; its tools' calls may.
LEMMA RunsStill ==
    ASSUME PipelinesInv, RecordsInv', RequestsInv', NoneFreed, homes \subseteq homes',
           UNCHANGED <<cast, runs, posted, proposed>>, contested' \subseteq Texts,
           \A r \in Runs : /\ runs[r].pc = "save" => Saving(calls'[r])
                           /\ requests'[r] = requests[r] \/ Onward(r)
    PROVE  PipelinesInv'
<1>1. ASSUME NEW r \in Runs  PROVE RunFits(r)'
  <2>1. RunFits(r)
    BY DEF PipelinesInv, RunsInv
  <2>2. RequestFits(requests[r])'
    BY Actors DEF RequestsInv
  <2> QED  BY <2>1, <2>2, RunStill
<1> QED
  BY <1>1 DEF PipelinesInv, RunsInv

\* A run that ends, with nothing done by the same step.
LEMMA SettlesKeeps ==
    ASSUME PipelinesInv, NEW r \in Runs, NEW status \in {"FAILED", "COMPLETED"},
           Settles(r, status), RecordsInv', RequestsInv', NoneFreed, homes \subseteq homes',
           \A q \in Runs \ {r} : calls'[q] = calls[q] /\ requests'[q] = requests[q],
           UNCHANGED <<cast, posted, proposed>>, contested' \subseteq Texts,
           runs[r].pc # "over",
           status = "COMPLETED" /\ r \in Signals =>
              PathsMade(r) /\ Noticed(r) /\ \A t \in TransitionOf(r) : ~t.mail
    PROVE  PipelinesInv'
<1> DEFINE run == [runs[r] EXCEPT !.pc = "over", !.status = status]
<1>1. runs[r] \in Run /\ RunFits(r)
  BY RunOf DEF PipelinesInv
<1>2. /\ run \in Run /\ run.pc = "over" /\ run.status = status
      /\ run.id = runs[r].id /\ run.data = runs[r].data
  BY <1>1 DEF Run
<1>3. Becomes(r, run)
  BY DEF Settles
<1> HIDE DEF run
<1>4. ASSUME runs'[r] = run  PROVE RunFits(r)'
  <2>1. PathsMade(r) => PathsMade(r)'
    BY <1>2, <1>4 DEF PathsMade, Made
  <2>2. Noticed(r) => Noticed(r)'
    BY DEF Noticed
  <2>3. r \notin proposed
    BY <1>1 DEF RunFits
  <2>4. r \in posted => runs[r].id \in Ids /\ records'[runs[r].id].state # "free"
    BY <1>1 DEF RunFits, NoneFreed
  <2> QED  BY <1>1, <1>2, <1>4, <2>1, <2>2, <2>3, <2>4 DEF RunFits
<1> QED
  BY <1>2, <1>3, <1>4, RunMoves DEF PipelinesInv, RunsInv

LEMMA FindKeeps ==
    ASSUME PipelinesInv, NEW r \in Runs, runs[r].pc = "new", NEW v \in Value \ {Undefined},
           Find(r, v), NoDriveStep, UNCHANGED <<cast, posted, proposed>>,
           contested' \subseteq Texts
    PROVE  PipelinesInv'
<1> DEFINE patch == [f \in {KeyField} |-> v]
           run == [runs[r] EXCEPT !.pc = "lookup"]
<1>1. RecordType \in Types /\ KeyField \in Fields
  BY PipelineAssumption
<1>2. patch \in [{KeyField} -> Value \ {Undefined}] /\ {KeyField} \in SUBSET Fields
  BY <1>1
<1>3. patch \in Data
  BY <1>2, PartialIntro DEF Data
<1>4. Invoke(r, "find", RecordType, "", patch) /\ Reading /\ Becomes(r, run)
  BY DEF Find
<1> HIDE DEF patch
<1>5. r \in Callers /\ RecordsInv /\ RequestsInv
  BY Actors DEF PipelinesInv
<1>6. RecordsInv' /\ \A d \in Callers \ {r} : calls'[d] = calls[d]
  BY <1>1, <1>3, <1>4, <1>5, InvokeKeeps
<1>7. NoneFreed /\ RequestsInv' /\ homes \subseteq homes' /\ UNCHANGED requests
  BY <1>4, <1>5, RequestsSame DEF Reading, NoneFreed, NoDriveStep, driveVars
<1>8. runs[r] \in Run /\ RunFits(r)
  BY RunOf DEF PipelinesInv
<1>9. run \in Run /\ run.pc = "lookup" /\ run.status = "RUNNING"
  BY <1>8 DEF Run, RunFits
<1> HIDE DEF run
<1>10. ASSUME runs'[r] = run  PROVE RunFits(r)'
  BY <1>8, <1>9, <1>10 DEF RunFits
<1> QED
  BY <1>4, <1>6, <1>7, <1>9, <1>10, RunMoves, Actors DEF PipelinesInv, RunsInv

LEMMA FailKeeps ==
    ASSUME PipelinesInv, NEW r \in Runs, runs[r].pc = "new", Fail(r), NoDriveStep,
           UNCHANGED <<cast, posted, proposed>>, contested' \subseteq Texts
    PROVE  PipelinesInv'
<1>1. RecordsInv' /\ NoneFreed /\ UNCHANGED calls
  BY RecordsSame DEF Fail, NoRecordStep, PipelinesInv, recordVars
<1>2. RequestsInv' /\ homes \subseteq homes' /\ UNCHANGED requests
  BY RequestsSame DEF PipelinesInv, NoDriveStep, driveVars
<1> QED
  BY <1>1, <1>2, SettlesKeeps DEF Fail

LEMMA StartSignalKeeps ==
    ASSUME PipelinesInv, NEW r \in Runs, StartSignal(r), UNCHANGED cast
    PROVE  PipelinesInv'
<1>1. /\ r \in Signals /\ runs[r].pc = "new" /\ NoDriveStep /\ UNCHANGED <<cast, posted, proposed>>
      /\ contested \subseteq Texts
  BY DEF StartSignal, PipelinesInv, RunsInv
<1>2. CASE {KeyField, StatusField} \subseteq DOMAIN Signal[r] /\ KeyOf(r) # Blank
  <2>1. Signal[r] \in Data
    BY <1>1, PipelineAssumption
  <2>2. KeyOf(r) \in Value \ {Undefined}
    <3>1. \A f \in DOMAIN Signal[r] : Signal[r][f] \in Value \ {Undefined}
      BY <2>1, PartialElim DEF Data
    <3> QED  BY <1>2, <3>1 DEF KeyOf
  <2>3. KeyOf(r).text \in Texts
    BY <1>2, <2>2, Values DEF Value
  <2>4. Find(r, KeyOf(r)) /\ contested' \subseteq contested \cup {KeyOf(r).text}
    BY <1>2 DEF StartSignal
  <2> QED  BY <1>1, <2>2, <2>3, <2>4, FindKeeps
<1>3. CASE ~({KeyField, StatusField} \subseteq DOMAIN Signal[r] /\ KeyOf(r) # Blank)
  <2>1. Fail(r) /\ UNCHANGED contested
    BY <1>3 DEF StartSignal
  <2> QED  BY <1>1, <2>1, FailKeeps
<1> QED  BY <1>2, <1>3

LEMMA StartMailKeeps ==
    ASSUME PipelinesInv, NEW r \in Runs, StartMail(r), UNCHANGED cast
    PROVE  PipelinesInv'
<1>1. /\ r \in Mails /\ runs[r].pc = "new" /\ NoDriveStep
      /\ UNCHANGED <<cast, posted, proposed, contested>> /\ contested \subseteq Texts
  BY DEF StartMail, Effects, PipelinesInv, RunsInv
<1>2. CASE Mail[r].token # ""
  <2>1. Mail[r].token \in Texts
    BY <1>1, <1>2, PipelineAssumption
  <2>2. Neat(Mail[r].token) \in Value \ {Undefined}
    BY <2>1, Values
  <2>3. Find(r, Neat(Mail[r].token))
    BY <1>2 DEF StartMail
  <2> QED  BY <1>1, <2>2, <2>3, FindKeeps
<1>3. CASE Mail[r].token = ""
  BY <1>1, <1>3, FailKeeps DEF StartMail
<1> QED  BY <1>2, <1>3

LEMMA SaveSignalKeeps ==
    ASSUME PipelinesInv, NEW r \in Runs, SaveSignal(r), UNCHANGED cast
    PROVE  PipelinesInv'
<1>1. /\ r \in Signals /\ runs[r].pc = "lookup" /\ NoDriveStep
      /\ UNCHANGED <<cast, posted, proposed, contested>>
      /\ RecordsInv /\ RequestsInv /\ RunsInv /\ r \in Callers
  BY Actors DEF SaveSignal, Effects, PipelinesInv
<1>2. RequestsInv' /\ homes \subseteq homes' /\ UNCHANGED requests
  BY <1>1, RequestsSame DEF NoDriveStep, driveVars
<1>3. CASE Fail(r)
  <2>1. RecordsInv' /\ NoneFreed /\ UNCHANGED calls
    BY <1>1, <1>3, RecordsSame DEF Fail, NoRecordStep, recordVars
  <2> QED
    BY <1>1, <1>2, <1>3, <2>1, SettlesKeeps DEF Fail, RunsInv
<1>4. CASE ~Fail(r)
  <2> DEFINE run == [runs[r] EXCEPT !.pc = "save"]
             op == WriteTool(calls[r].id)
  <2>1. /\ Invoke(r, op, RecordType, calls[r].id, Signal[r]) /\ Becomes(r, run) /\ Reading
    BY <1>4 DEF SaveSignal
  <2>2. op \in {"create", "update"}
    BY DEF WriteTool
  <2> HIDE DEF op
  <2>3. RecordType \in Types /\ Signal[r] \in Data /\ calls[r].id \in Ids \cup {""}
    <3>1. RecordType \in Types /\ Signal[r] \in Data
      BY <1>1, PipelineAssumption
    <3>2. calls[r] \in Call
      BY <1>1, CallOf
    <3> QED  BY <3>1, <3>2 DEF Call
  <2>4. /\ RecordsInv' /\ calls'[r].pc = "resolve" /\ calls'[r].op = op
        /\ \A d \in Callers \ {r} : calls'[d] = calls[d]
    <3>1. PICK o \in {"find", "search", "create", "update"} : o = op
      BY <2>2
    <3>2. PICK i \in Ids \cup {""} : i = calls[r].id
      BY <2>3
    <3>3. Invoke(r, o, RecordType, i, Signal[r]) /\ Reading
      BY <2>1, <3>1, <3>2
    <3>4. /\ RecordsInv' /\ calls'[r].pc = "resolve" /\ calls'[r].op = o
          /\ \A d \in Callers \ {r} : calls'[d] = calls[d]
      BY <1>1, <2>3, <3>3, InvokeKeeps
    <3> QED  BY <3>1, <3>4
  <2>5. NoneFreed
    BY <2>1 DEF Reading, NoneFreed
  <2>6. runs[r] \in Run /\ RunFits(r)
    BY <1>1, RunOf
  <2>7. run \in Run /\ run.pc = "save" /\ run.status = "RUNNING"
    BY <1>1, <2>6 DEF Run, RunFits
  <2> HIDE DEF run
  <2>8. ASSUME runs'[r] = run  PROVE RunFits(r)'
    BY <1>1, <2>2, <2>4, <2>6, <2>7, <2>8 DEF RunFits, Saving
  <2> QED
    BY <1>1, <1>2, <2>1, <2>4, <2>5, <2>7, <2>8, RunMoves, Actors DEF RunsInv
<1> QED  BY <1>3, <1>4

LEMMA ApplyTransitionKeeps ==
    ASSUME PipelinesInv, NEW r \in Runs, ApplyTransition(r), UNCHANGED cast
    PROVE  PipelinesInv'
<1>1. /\ runs[r].pc = "save" /\ Goes(r, NoCall) /\ Reading /\ NoDriveStep
      /\ UNCHANGED <<cast, posted, proposed, contested>>
      /\ RecordsInv /\ RequestsInv /\ RunsInv /\ r \in Callers
  BY Actors DEF ApplyTransition, Effects, PipelinesInv
<1>2. RequestsInv' /\ homes \subseteq homes' /\ UNCHANGED requests
  BY <1>1, RequestsSame DEF NoDriveStep, driveVars
<1>3. RecordsInv' /\ NoneFreed
  <2>1. CallFits(r, NoCall)
    BY NoCallTyped, EndedFits
  <2> QED  BY <1>1, <2>1, NoCallTyped, CallMoves DEF Reading, NoneFreed
<1>4. \A q \in Runs \ {r} : calls'[q] = calls[q]
  BY <1>1, Actors DEF Goes, RecordsInv, RecordsTypeOK
<1>5. runs[r] \in Run /\ RunFits(r) /\ r \in Signals
  BY <1>1, RunOf DEF RunFits
<1>6. CASE Settles(r, "FAILED")
  BY <1>1, <1>2, <1>3, <1>4, <1>6, SettlesKeeps DEF RunsInv
<1>7. CASE Settles(r, "COMPLETED") /\ TransitionOf(r) = {}
  BY <1>1, <1>2, <1>3, <1>4, <1>7, SettlesKeeps DEF RunsInv, PathsMade, Noticed
<1>8. ASSUME calls[r].pc = "done", NEW t \in TransitionOf(r),
             Becomes(r, [runs[r] EXCEPT !.pc = "folder", !.id = calls[r].id,
                            !.data = calls[r].values, !.paths = PathsFor(t, calls[r].values)])
      PROVE  PipelinesInv'
  <2> DEFINE data == calls[r].values
             paths == PathsFor(t, data)
             run == [runs[r] EXCEPT !.pc = "folder", !.id = calls[r].id, !.data = data,
                                    !.paths = paths]
  <2>1. data \in Data /\ calls[r].id \in Ids /\ records[calls[r].id].state # "free"
    BY <1>1, <1>5, <1>8, CallOf, ConstantsAssumption DEF RunFits, Saving, CallFits
  <2>2. paths \in Seq(Seq(Names \cup {""}))
    BY <2>1, PathsTyped, TransitionTyped
  <2>3. Becomes(r, run)
    BY <1>8
  <2>4. \A u \in TransitionOf(r) : PathsFor(u, data) = paths
    BY TransitionTyped
  <2> HIDE DEF paths
  <2>5. /\ run \in Run /\ run.pc = "folder" /\ run.id = calls[r].id /\ run.data = data
        /\ run.paths = paths /\ run.status = "RUNNING"
    BY <1>1, <1>5, <2>1, <2>2 DEF Run, RunFits
  <2> HIDE DEF run
  <2>6. ASSUME runs'[r] = run  PROVE RunFits(r)'
    <3>1. ASSUME NEW u \in TransitionOf(r), NEW k \in DOMAIN PathsFor(u, runs'[r].data)
          PROVE  Pending(r, PathsFor(u, runs[r].data)[k])'
      <4>1. PathsFor(u, runs'[r].data) = paths /\ runs'[r].paths = paths
        BY <2>4, <2>5, <2>6
      <4> QED  BY <3>1, <4>1 DEF Pending
    <3>2. runs'[r].id \in Ids /\ records'[runs'[r].id].state # "free"
      BY <2>1, <2>5, <2>6, <1>3 DEF NoneFreed
    <3>3. r \notin posted /\ r \notin proposed
      BY <1>1, <1>5 DEF RunFits
    <3> QED  BY <1>1, <1>5, <2>5, <2>6, <3>1, <3>2, <3>3 DEF RunFits
  <2> QED
    BY <1>1, <1>2, <1>3, <1>4, <2>3, <2>5, <2>6, RunMoves DEF RunsInv
<1> QED
  BY <1>6, <1>7, <1>8 DEF ApplyTransition

LEMMA CreateFolderKeeps ==
    ASSUME PipelinesInv, NEW r \in Runs, CreateFolder(r), UNCHANGED cast
    PROVE  PipelinesInv'
<1>1. /\ runs[r].pc = "folder" /\ requests[r].pc \in {"idle", "saved"} /\ NoRecordStep
      /\ UNCHANGED <<cast, posted, proposed, contested>>
      /\ RecordsInv /\ RequestsInv /\ RunsInv /\ r \in Requests
  BY Actors DEF CreateFolder, Effects, PipelinesInv, Done
<1>2. RecordsInv' /\ NoneFreed /\ UNCHANGED <<calls, records>>
  BY <1>1, RecordsSame DEF NoRecordStep, recordVars
<1>3. runs[r] \in Run /\ RunFits(r) /\ r \in Signals
  BY <1>1, RunOf DEF RunFits
<1>4. /\ runs[r].id \in Ids /\ records[runs[r].id].state # "free"
      /\ r \notin posted /\ r \notin proposed /\ runs[r].status = "RUNNING"
  BY <1>1, <1>3 DEF RunFits
<1>5. ASSUME NEW u \in TransitionOf(r), NEW k \in DOMAIN PathsFor(u, runs[r].data)
      PROVE  \/ Made(PathsFor(u, runs[r].data)[k])
             \/ \E j \in DOMAIN runs[r].paths : runs[r].paths[j] = PathsFor(u, runs[r].data)[k]
  BY <1>1, <1>3, <1>5 DEF RunFits, Pending
<1>6. CASE runs[r].paths = <<>>
  <2> DEFINE run == [runs[r] EXCEPT !.pc = "notify"]
  <2>1. Becomes(r, run) /\ NoDriveStep
    BY <1>6 DEF CreateFolder
  <2>2. RequestsInv' /\ homes \subseteq homes' /\ UNCHANGED requests
    BY <1>1, <2>1, RequestsSame DEF NoDriveStep, driveVars
  <2>3. /\ run \in Run /\ run.pc = "notify" /\ run.id = runs[r].id /\ run.data = runs[r].data
        /\ run.status = "RUNNING"
    BY <1>3, <1>4 DEF Run
  <2> HIDE DEF run
  <2>4. PathsMade(r)
    BY <1>5, <1>6 DEF PathsMade
  <2>5. ASSUME runs'[r] = run  PROVE RunFits(r)'
    <3>1. PathsMade(r)'
      BY <2>2, <2>3, <2>4, <2>5 DEF PathsMade, Made
    <3> QED  BY <1>1, <1>2, <1>3, <1>4, <2>3, <2>5, <3>1 DEF RunFits
  <2> QED
    BY <1>1, <1>2, <2>1, <2>2, <2>3, <2>5, RunMoves DEF RunsInv
<1>7. CASE runs[r].paths # <<>>
  <2> DEFINE path == Head(runs[r].paths)
             m == [NoRequest EXCEPT !.path = path]
             run == [runs[r] EXCEPT !.paths = Tail(runs[r].paths)]
  <2>1. Ask(r, m) /\ Becomes(r, run) /\ UNCHANGED <<folders, files, homes, raced>>
    BY <1>7 DEF CreateFolder
  <2>2. /\ path \in Seq(Names \cup {""}) /\ Tail(runs[r].paths) \in Seq(Seq(Names \cup {""}))
        /\ \A j \in DOMAIN runs[r].paths :
              runs[r].paths[j] = path \/ \E i \in DOMAIN Tail(runs[r].paths) :
                                            Tail(runs[r].paths)[i] = runs[r].paths[j]
    <3> DEFINE s == runs[r].paths
    <3>1. s \in Seq(Seq(Names \cup {""})) /\ s # <<>>
      BY <1>3, <1>7 DEF Run
    <3> QED  BY <3>1, HeadOrTail
  <2>3. m \in Asked /\ m.op = "folder" /\ m.path = path
    <3> HIDE DEF path
    <3> QED  BY <2>2, SeqEmpty DEF NoRequest, Asked
  <2> HIDE DEF m
  <2>4. /\ RequestsInv' /\ \A p \in Requests \ {r} : requests'[p] = requests[p]
        /\ \/ requests'[r].pc = "refused"
           \/ requests'[r].pc = "access" /\ requests'[r].path = path
    BY <1>1, <2>1, <2>3, AskKeeps
  <2>5. /\ run \in Run /\ run.pc = "folder" /\ run.id = runs[r].id /\ run.data = runs[r].data
        /\ run.paths = Tail(runs[r].paths) /\ run.status = "RUNNING"
    BY <1>1, <1>3, <1>4, <2>2 DEF Run
  <2> HIDE DEF run, path
  <2>6. ASSUME runs'[r] = run  PROVE RunFits(r)'
    <3>1. ASSUME NEW u \in TransitionOf(r), NEW k \in DOMAIN PathsFor(u, runs'[r].data)
          PROVE  Pending(r, PathsFor(u, runs[r].data)[k])'
      <4> DEFINE p == PathsFor(u, runs[r].data)[k]
      <4>1. PathsFor(u, runs'[r].data) = PathsFor(u, runs[r].data)
        BY <2>5, <2>6
      <4>2. \/ Made(p) \/ p = path \/ \E i \in DOMAIN run.paths : run.paths[i] = p
        <5>1. k \in DOMAIN PathsFor(u, runs[r].data)
          BY <3>1, <4>1
        <5>2. Made(p) \/ \E j \in DOMAIN runs[r].paths : runs[r].paths[j] = p
          BY <1>5, <5>1
        <5> HIDE DEF p
        <5> QED  BY <2>2, <2>5, <5>2
      <4> HIDE DEF p
      <4>3. \/ Made(p) \/ \E i \in DOMAIN runs'[r].paths : runs'[r].paths[i] = p
            \/ requests'[r].pc = "refused"
            \/ requests'[r].pc \notin {"idle", "saved"} /\ requests'[r].path = p
        BY <2>4, <2>6, <4>2
      <4>4. PathsFor(u, runs'[r].data)[k] = p
        BY <4>1 DEF p
      <4> QED  BY <2>1, <4>3, <4>4 DEF Pending, Made
    <3> QED  BY <1>1, <1>2, <1>3, <1>4, <2>5, <2>6, <3>1 DEF RunFits
  <2>7. homes \subseteq homes'
    BY <2>1
  <2> QED
    BY <1>1, <1>2, <2>1, <2>4, <2>5, <2>6, <2>7, RunMoves, Actors DEF RunsInv
<1> QED  BY <1>6, <1>7


LEMMA StoreRefusedKeeps ==
    ASSUME PipelinesInv, NEW r \in Runs, StoreRefused(r), UNCHANGED cast
    PROVE  PipelinesInv'
<1>1. /\ runs[r].pc # "over" /\ Settles(r, "FAILED") /\ NoRecordStep /\ NoDriveStep
      /\ UNCHANGED <<cast, posted, proposed, contested>> /\ contested \subseteq Texts
      /\ RecordsInv /\ RequestsInv
  BY DEF StoreRefused, Effects, PipelinesInv, RunsInv
<1>2. RecordsInv' /\ NoneFreed /\ UNCHANGED calls
  BY <1>1, RecordsSame DEF NoRecordStep, recordVars
<1>3. RequestsInv' /\ homes \subseteq homes' /\ UNCHANGED requests
  BY <1>1, RequestsSame DEF NoDriveStep, driveVars
<1> QED
  BY <1>1, <1>2, <1>3, SettlesKeeps

\* The end of a signal's run: no tool is called, the notice or the e-mail is new.
LEMMA EffectKeeps ==
    ASSUME PipelinesInv, NEW r \in Runs, runs[r].pc \in {"notify", "mail"},
           NEW pc \in {"mail", "over"},
           NEW status \in {"RUNNING", "COMPLETED", "FAILED", "WAITING_FOR_APPROVAL"},
           Becomes(r, [runs[r] EXCEPT !.pc = pc, !.status = status]),
           NoRecordStep, NoDriveStep, UNCHANGED <<cast, contested>>,
           posted' \in {posted, posted \cup {r}}, proposed' \in {proposed, proposed \cup {r}},
           r \in proposed' <=> status = "WAITING_FOR_APPROVAL",
           pc = "over" <=> status # "RUNNING",
           status \in {"COMPLETED", "WAITING_FOR_APPROVAL"} \/ pc = "mail" => Noticed(r)',
           status = "COMPLETED" => \A t \in TransitionOf(r) : ~t.mail
    PROVE  PipelinesInv'
<1> DEFINE run == [runs[r] EXCEPT !.pc = pc, !.status = status]
<1>1. /\ RecordsInv /\ RequestsInv /\ RunsInv /\ runs[r] \in Run /\ RunFits(r)
  BY RunOf DEF PipelinesInv
<1>2. RecordsInv' /\ NoneFreed /\ UNCHANGED calls
  BY <1>1, RecordsSame DEF NoRecordStep, recordVars
<1>3. RequestsInv' /\ homes \subseteq homes' /\ UNCHANGED requests
  BY <1>1, RequestsSame DEF NoDriveStep, driveVars
<1>4. /\ run \in Run /\ run.pc = pc /\ run.status = status
      /\ run.id = runs[r].id /\ run.data = runs[r].data
  BY <1>1 DEF Run
<1> HIDE DEF run
<1>5. /\ runs[r].id \in Ids /\ records[runs[r].id].state # "free" /\ PathsMade(r)
      /\ r \in Signals
  BY <1>1 DEF RunFits
<1>6. /\ posted' \subseteq Runs /\ proposed' \subseteq Runs /\ contested' \subseteq Texts
      /\ \A q \in Runs \ {r} : /\ q \in posted' <=> q \in posted
                               /\ q \in proposed' <=> q \in proposed
  BY <1>1 DEF RunsInv
<1>7. ASSUME runs'[r] = run  PROVE RunFits(r)'
  <2>1. PathsMade(r)'
    BY <1>3, <1>4, <1>5, <1>7 DEF PathsMade, Made
  <2>2. runs'[r].id \in Ids /\ records'[runs'[r].id].state # "free"
    BY <1>2, <1>4, <1>5, <1>7 DEF NoneFreed
  <2>3. /\ runs'[r].pc = pc /\ runs'[r].status = status
    BY <1>4, <1>7
  <2>4. r \in proposed' => Noticed(r)'
    OBVIOUS
  <2> QED  BY <1>5, <2>1, <2>2, <2>3, <2>4 DEF RunFits
<1>8. Becomes(r, run)
  BY DEF run
<1> QED
  BY <1>2, <1>3, <1>4, <1>6, <1>7, <1>8, RunMoves

LEMMA NotifyKeeps ==
    ASSUME PipelinesInv, NEW r \in Runs, Notify(r), UNCHANGED cast
    PROVE  PipelinesInv'
<1>1. /\ runs[r].pc = "notify" /\ NoRecordStep /\ NoDriveStep
      /\ UNCHANGED <<cast, proposed, contested>> /\ runs[r] \in Run /\ RunFits(r)
  BY RunOf DEF Notify, PipelinesInv
<1>2. r \notin proposed /\ runs[r].status = "RUNNING"
  BY <1>1 DEF RunFits
<1>3. PICK t \in TransitionOf(r) :
         \/ /\ t.notify => r \in posted'
            /\ Becomes(r, [runs[r] EXCEPT !.pc = "mail"])
            /\ posted' \in {posted, posted \cup {r}}
         \/ /\ Settles(r, "FAILED")
            /\ posted' \in {posted, posted \cup {r}}
  BY DEF Notify
<1>4. CASE Becomes(r, [runs[r] EXCEPT !.pc = "mail"]) /\ (t.notify => r \in posted')
  <2>1. Noticed(r)'
    BY <1>4, TransitionTyped DEF Noticed
  <2>2. [runs[r] EXCEPT !.pc = "mail"] = [runs[r] EXCEPT !.pc = "mail", !.status = "RUNNING"]
    BY <1>1, <1>2 DEF Run
  <2>3. Becomes(r, [runs[r] EXCEPT !.pc = "mail", !.status = "RUNNING"])
    BY <1>4, <2>2
  <2> QED  BY <1>1, <1>2, <1>3, <2>1, <2>3, EffectKeeps
<1>5. CASE Settles(r, "FAILED")
  BY <1>1, <1>2, <1>3, <1>5, EffectKeeps DEF Settles
<1> QED  BY <1>3, <1>4, <1>5

LEMMA ProposeMailKeeps ==
    ASSUME PipelinesInv, NEW r \in Runs, ProposeMail(r), UNCHANGED cast
    PROVE  PipelinesInv'
<1>1. /\ runs[r].pc = "mail" /\ NoRecordStep /\ NoDriveStep
      /\ UNCHANGED <<cast, posted, contested>> /\ RunFits(r)
  BY RunOf DEF ProposeMail, PipelinesInv
<1>2. r \notin proposed /\ runs[r].status = "RUNNING" /\ Noticed(r)
  BY <1>1 DEF RunFits
<1>3. Noticed(r)'
  BY <1>1, <1>2 DEF Noticed
<1>4. PICK t \in TransitionOf(r) :
         \/ ~t.mail /\ Settles(r, "COMPLETED") /\ UNCHANGED proposed
         \/ Settles(r, "FAILED") /\ UNCHANGED proposed
         \/ Settles(r, "WAITING_FOR_APPROVAL") /\ proposed' = proposed \cup {r}
  BY DEF ProposeMail, WithoutAddress
<1>5. CASE ~t.mail /\ Settles(r, "COMPLETED") /\ UNCHANGED proposed
  <2>1. \A u \in TransitionOf(r) : ~u.mail
    BY <1>5, TransitionTyped
  <2> QED  BY <1>1, <1>2, <1>3, <1>5, <2>1, EffectKeeps DEF Settles
<1>6. CASE Settles(r, "FAILED") /\ UNCHANGED proposed
  BY <1>1, <1>2, <1>6, EffectKeeps DEF Settles
<1>7. CASE Settles(r, "WAITING_FOR_APPROVAL") /\ proposed' = proposed \cup {r}
  BY <1>1, <1>2, <1>3, <1>7, EffectKeeps DEF Settles
<1> QED  BY <1>4, <1>5, <1>6, <1>7

\* An archiving run asks for a file to be saved and goes on.
LEMMA SaveFileKeeps ==
    ASSUME PipelinesInv, NEW r \in Mails, NEW root \in Names \cup {""}, NEW name \in Names,
           NEW replace \in BOOLEAN, SaveFile(r, root, name, replace),
           runs[r].pc \in {"lookup", "attach"}, NEW run \in Run, run.pc = "attach",
           run.status = "RUNNING", Becomes(r, run), NoRecordStep,
           UNCHANGED <<cast, posted, proposed, contested>>
    PROVE  PipelinesInv'
<1> DEFINE path == <<root, Subfolder>>
           m == [NoRequest EXCEPT !.op = "file", !.path = path, !.name = name, !.content = r,
                                  !.replace = replace]
<1>1. /\ RecordsInv /\ RequestsInv /\ RunsInv /\ r \in Runs /\ r \in Requests
      /\ r \in Contents
  BY Actors DEF PipelinesInv
<1>2. path \in Seq(Names \cup {""})
  <2>1. Subfolder \in Names
    BY PipelineAssumption
  <2> QED  BY <2>1, SeqTuples
<1>3. Ask(r, m) /\ UNCHANGED <<folders, files, homes, raced>>
  BY DEF SaveFile
<1> HIDE DEF path
<1>4. m \in Asked /\ m.op = "file" /\ m.name = name /\ m.content = r
  BY <1>1, <1>2, SeqEmpty DEF NoRequest, Asked
<1> HIDE DEF m
<1>5. name # ""
  BY DriveAssumption
<1>6. RequestsInv' /\ \A p \in Requests \ {r} : requests'[p] = requests[p]
  BY <1>1, <1>3, <1>4, <1>5, AskKeeps
<1>7. RecordsInv' /\ NoneFreed /\ UNCHANGED calls
  BY <1>1, RecordsSame DEF NoRecordStep, recordVars
<1>8. RunFits(r)
  BY <1>1, RunOf
<1>9. r \notin Signals
  BY Actors
<1>10. ASSUME runs'[r] = run  PROVE RunFits(r)'
  BY <1>8, <1>9, <1>10 DEF RunFits
<1> QED
  BY <1>1, <1>3, <1>6, <1>7, <1>10, RunMoves, Actors DEF RunsInv

LEMMA SaveBodyKeeps ==
    ASSUME PipelinesInv, NEW r \in Runs, SaveBody(r), UNCHANGED cast
    PROVE  PipelinesInv'
<1>1. /\ r \in Mails /\ runs[r].pc = "lookup" /\ NoRecordStep
      /\ UNCHANGED <<cast, posted, proposed, contested>> /\ contested \subseteq Texts
      /\ RecordsInv /\ RequestsInv /\ r \in Callers /\ runs[r] \in Run /\ RunFits(r)
  BY RunOf, Actors DEF SaveBody, Effects, PipelinesInv, RunsInv
<1>2. CASE Settles(r, "FAILED") /\ NoDriveStep
  <2>1. RecordsInv' /\ NoneFreed /\ UNCHANGED calls
    BY <1>1, RecordsSame DEF NoRecordStep, recordVars
  <2>2. RequestsInv' /\ homes \subseteq homes' /\ UNCHANGED requests
    BY <1>1, <1>2, RequestsSame DEF NoDriveStep, driveVars
  <2> QED  BY <1>1, <1>2, <2>1, <2>2, SettlesKeeps
<1>3. CASE /\ calls[r].pc = "done"
           /\ SaveFile(r, Root(calls[r].values, Mail[r].token), Correspondence, TRUE)
           /\ Becomes(r, [runs[r] EXCEPT !.pc = "attach", !.data = calls[r].values,
                                         !.files = Mail[r].attachments])
  <2> DEFINE root == Root(calls[r].values, Mail[r].token)
             run == [runs[r] EXCEPT !.pc = "attach", !.data = calls[r].values,
                                    !.files = Mail[r].attachments]
  <2>1. Mail[r].token \in Texts \cup {""} /\ Mail[r].attachments \in Seq(Names)
    BY <1>1, PipelineAssumption
  <2>2. calls[r].values \in Data
    BY <1>1, <1>3, CallOf DEF CallFits
  <2>3. root \in Names \cup {""}
    BY <2>1, <2>2, TextTyped
  <2>4. run \in Run /\ run.pc = "attach" /\ run.status = "RUNNING"
    BY <1>1, <2>1, <2>2 DEF Run, RunFits
  <2>5. Correspondence \in Names
    BY PipelineAssumption
  <2>6. SaveFile(r, root, Correspondence, TRUE) /\ Becomes(r, run)
    BY <1>3
  <2> HIDE DEF root, run
  <2> QED  BY <1>1, <2>3, <2>4, <2>5, <2>6, SaveFileKeeps
<1> QED  BY <1>2, <1>3 DEF SaveBody

LEMMA SaveAttachmentKeeps ==
    ASSUME PipelinesInv, NEW r \in Runs, SaveAttachment(r), UNCHANGED cast
    PROVE  PipelinesInv'
<1>1. /\ runs[r].pc = "attach" /\ NoRecordStep
      /\ UNCHANGED <<cast, posted, proposed, contested>> /\ contested \subseteq Texts
      /\ RecordsInv /\ RequestsInv /\ r \in Callers /\ runs[r] \in Run /\ RunFits(r)
  BY RunOf, Actors DEF SaveAttachment, Effects, PipelinesInv, RunsInv
<1>2. r \in Mails /\ r \notin Signals
  BY <1>1, Actors DEF RunFits
<1>3. CASE runs[r].files = <<>>
  <2>1. RecordsInv' /\ NoneFreed /\ UNCHANGED calls
    BY <1>1, RecordsSame DEF NoRecordStep, recordVars
  <2>2. Settles(r, "COMPLETED") /\ NoDriveStep
    BY <1>3 DEF SaveAttachment
  <2>3. RequestsInv' /\ homes \subseteq homes' /\ UNCHANGED requests
    BY <1>1, <2>2, RequestsSame DEF NoDriveStep, driveVars
  <2> QED  BY <1>1, <1>2, <2>1, <2>2, <2>3, SettlesKeeps
<1>4. CASE runs[r].files # <<>>
  <2> DEFINE root == Root(runs[r].data, Mail[r].token)
             name == Head(runs[r].files)
             run == [runs[r] EXCEPT !.files = Tail(runs[r].files)]
  <2>1. Mail[r].token \in Texts \cup {""}
    BY <1>2, PipelineAssumption
  <2>2. root \in Names \cup {""}
    <3>1. runs[r].data \in Data
      BY <1>1 DEF Run
    <3> QED  BY <2>1, <3>1, TextTyped
  <2>3. name \in Names /\ Tail(runs[r].files) \in Seq(Names)
    <3>1. runs[r].files \in Seq(Names)
      BY <1>1 DEF Run
    <3> QED  BY <1>4, <3>1, SeqElim
  <2>4. run \in Run /\ run.pc = "attach" /\ run.status = "RUNNING"
    BY <1>1, <2>3 DEF Run, RunFits
  <2>5. SaveFile(r, root, name, FALSE) /\ Becomes(r, run)
    BY <1>4 DEF SaveAttachment, AttachmentReplaces
  <2> HIDE DEF root, run, name
  <2> QED  BY <1>1, <1>2, <2>2, <2>3, <2>4, <2>5, SaveFileKeeps
<1> QED  BY <1>3, <1>4

-----------------------------------------------------------------------------
(* The specification.                                                       *)

LEMMA StartFillKeeps ==
    ASSUME PipelinesInv, NEW r \in Requests, StartFill(r), UNCHANGED cast
    PROVE  PipelinesInv'
<1>1. /\ r \in Fillers /\ Ask(r, Fill[r]) /\ NoRecordStep
      /\ UNCHANGED <<folders, files, homes, raced, runs>>
      /\ UNCHANGED <<cast, posted, proposed, contested>> /\ contested \subseteq Texts
      /\ RecordsInv /\ RequestsInv
  BY DEF StartFill, Effects, PipelinesInv, RunsInv
<1>2. Fill[r] \in Request /\ Fill[r].op = "template" /\ Fill[r].name # ""
  BY <1>1, PipelineAssumption
<1>3. Fill[r] \in Asked
  <2>1. Seq(Names) \subseteq Seq(Names \cup {""})
    <3>1. ASSUME NEW s \in Seq(Names)  PROVE s \in Seq(Names \cup {""})
      <4>1. \A k \in DOMAIN s : s[k] \in Names
        BY SeqElim
      <4> QED  BY <4>1, SeqNarrow
    <3> QED  BY <3>1
  <2> QED  BY <1>2, <2>1 DEF Request, Asked
<1>4. RequestsInv' /\ \A p \in Requests \ {r} : requests'[p] = requests[p]
  BY <1>1, <1>2, <1>3, AskKeeps
<1>5. RecordsInv' /\ NoneFreed /\ UNCHANGED calls
  BY <1>1, RecordsSame DEF NoRecordStep, recordVars
<1>6. ASSUME NEW q \in Runs
      PROVE  /\ runs[q].pc = "save" => Saving(calls'[q])
             /\ requests'[q] = requests[q]
  <2>1. q \in Requests \ {r}
    BY <1>1, Actors
  <2>2. RunFits(q)
    BY RunOf DEF PipelinesInv
  <2> QED  BY <1>4, <1>5, <2>1, <2>2 DEF RunFits
<1> QED
  BY <1>1, <1>4, <1>5, <1>6, RunsStill

LEMMA ToolStepsKeep ==
    ASSUME PipelinesInv, NEW r \in Requests, ToolSteps(r), UNCHANGED cast
    PROVE  PipelinesInv'
<1>1. RecordsInv /\ RequestsInv /\ RunsInv /\ contested \subseteq Texts
  BY DEF PipelinesInv, RunsInv
<1>2. \A q \in Runs : RunFits(q) /\ (runs[q].pc = "save" => Saving(calls[q]))
  BY <1>1, RunOf DEF RunFits
<1>3. CASE r \in Runs /\ CallSteps(r)
           /\ UNCHANGED <<driveVars, runs, posted, proposed, contested>>
  <2>1. r \in Callers /\ r \in Pipelines
    BY <1>3, Actors
  <2>2. RecordsInv' /\ NoneFreed /\ \A d \in Callers \ {r} : calls'[d] = calls[d]
    BY <1>1, <1>3, <2>1, CallStepsKeep, CallsFreeNone
  <2>3. RequestsInv' /\ homes \subseteq homes' /\ UNCHANGED requests
    BY <1>1, <1>3, RequestsSame DEF driveVars
  <2>4. ASSUME NEW q \in Runs, runs[q].pc = "save"  PROVE Saving(calls'[q])
    <3>1. CASE q = r
      BY <1>1, <1>2, <1>3, <2>1, <2>4, <3>1, SavingGoesOn
    <3>2. CASE q # r
      BY <1>2, <2>2, <2>4, <3>2, Actors
    <3> QED  BY <3>1, <3>2
  <2> QED  BY <1>1, <1>3, <2>2, <2>3, <2>4, RunsStill
<1>4. CASE DriveSteps(r) /\ UNCHANGED <<recordVars, runs, posted, proposed, contested>>
  <2>1. RequestsInv' /\ Onward(r)
    BY <1>1, <1>4, DriveKeeps
  <2>2. RecordsInv' /\ NoneFreed /\ UNCHANGED calls
    BY <1>1, <1>4, RecordsSame DEF recordVars
  <2>3. homes \subseteq homes' /\ \A p \in Requests \ {r} : requests'[p] = requests[p]
    BY <2>1 DEF Onward
  <2>4. ASSUME NEW q \in Runs
        PROVE  /\ runs[q].pc = "save" => Saving(calls'[q])
               /\ requests'[q] = requests[q] \/ Onward(q)
    BY <1>2, <2>1, <2>2, <2>3, Actors
  <2> QED  BY <1>1, <1>4, <2>1, <2>2, <2>3, <2>4, RunsStill
<1> QED  BY <1>3, <1>4 DEF ToolSteps

LEMMA CatalogStepsKeep ==
    ASSUME PipelinesInv, CatalogSteps, UNCHANGED <<driveVars, runs, posted, proposed, contested>>,
           UNCHANGED cast
    PROVE  PipelinesInv'
<1>1. RecordsInv /\ RequestsInv /\ RunsInv /\ contested \subseteq Texts
  BY DEF PipelinesInv, RunsInv
<1>2. RecordsInv' /\ NoneFreed /\ \A r \in Runs : calls'[r] = calls[r]
  BY <1>1, CatalogKeeps, CatalogFreesNone, Actors
<1>3. RequestsInv' /\ homes \subseteq homes' /\ UNCHANGED requests
  BY <1>1, RequestsSame DEF driveVars
<1>4. \A q \in Runs : runs[q].pc = "save" => Saving(calls'[q])
  BY <1>1, <1>2, RunOf DEF RunFits
<1> QED
  BY <1>1, <1>2, <1>3, <1>4, RunsStill

LEMMA PipelinesStart == Init => PipelinesInv
<1> SUFFICES ASSUME Init  PROVE PipelinesInv
  OBVIOUS
<1>1. RecordsInv
  BY RecordsStart DEF Init
<1>2. RequestsInv
  <2>1. Shelf \in Seq(File)
    <3> DEFINE F == [name : Names, folder : {0}, content : Contents]
    <3>1. Shelf \in Seq(F)
      BY DriveAssumption
    <3>2. \A k \in DOMAIN Shelf : Shelf[k] \in F
      BY <3>1, SeqElim
    <3>3. F \subseteq File
      BY DEF File
    <3> HIDE DEF F
    <3> QED  BY <3>1, <3>2, <3>3, SeqNarrow
  <2>2. folders \in Seq(Folder)
    BY SeqEmpty DEF Init, DriveInit
  <2>3. RequestFits(NoRequest)
    BY NoRequestTyped DEF RequestFits, RequestSound
  <2> QED
    BY <2>1, <2>2, <2>3, NoRequestTyped DEF Init, DriveInit, RequestsInv, DriveTypeOK
<1>3. NewRun \in Run
  <2>1. <<>> \in Seq(Seq(Names \cup {""})) /\ <<>> \in Seq(Names)
    BY SeqEmpty
  <2>2. Empty \in Data
    BY EmptyTyped
  <2> QED  BY <2>1, <2>2 DEF NewRun, Run
<1>4. ASSUME NEW r \in Runs  PROVE RunFits(r)
  <2>1. runs[r].pc = "new" /\ runs[r].status = "RUNNING" /\ r \notin posted \cup proposed
    BY DEF Init, NewRun
  <2> QED  BY <2>1 DEF RunFits
<1> QED
  BY <1>1, <1>2, <1>3, <1>4 DEF PipelinesInv, RunsInv, Init

LEMMA PipelinesNext == PipelinesInv /\ [Next]_vars => PipelinesInv'
<1> SUFFICES ASSUME PipelinesInv, [Next]_vars  PROVE PipelinesInv'
  OBVIOUS
<1>1. ASSUME NEW r \in Runs, RunSteps(r), UNCHANGED cast  PROVE PipelinesInv'
  BY <1>1, StartSignalKeeps, SaveSignalKeeps, ApplyTransitionKeeps, CreateFolderKeeps,
     StoreRefusedKeeps, NotifyKeeps, ProposeMailKeeps, StartMailKeeps, SaveBodyKeeps,
     SaveAttachmentKeeps DEF RunSteps
<1>2. ASSUME NEW r \in Requests, StartFill(r) \/ ToolSteps(r), UNCHANGED cast
      PROVE  PipelinesInv'
  BY <1>2, StartFillKeeps, ToolStepsKeep
<1>3. ASSUME CatalogSteps, UNCHANGED <<driveVars, runs, posted, proposed, contested>>,
             UNCHANGED cast
      PROVE  PipelinesInv'
  BY <1>3, CatalogStepsKeep
<1>4. CASE UNCHANGED vars
  <2>1. /\ UNCHANGED recordVars /\ UNCHANGED driveVars
        /\ UNCHANGED <<cast, runs, posted, proposed, contested>>
    BY <1>4 DEF vars
  <2>2. RecordsInv /\ RequestsInv /\ RunsInv
    BY DEF PipelinesInv
  <2>3. RecordsInv' /\ NoneFreed /\ RequestsInv' /\ homes \subseteq homes'
    BY <2>1, <2>2, RecordsSame, RequestsSame
  <2>4. UNCHANGED calls /\ UNCHANGED requests
    BY <2>1 DEF recordVars, driveVars
  <2>5. \A q \in Runs : runs[q].pc = "save" => Saving(calls'[q])
    BY <2>2, <2>4, RunOf DEF RunFits
  <2> QED  BY <2>1, <2>2, <2>3, <2>4, <2>5, RunsStill DEF RunsInv
<1> QED
  BY <1>1, <1>2, <1>3, <1>4 DEF Next

\* Whoever writes at once - runs, agents, the catalog's pages, and people who
\* redefine or delete types - every record that is stored has only values of its
\* type (src/lib/entities/data-validation.ts), the references of records that no
\* page has written are of records of their type, and every caller's own state
\* is one the code can be in.
THEOREM TypesAlwaysHeld == Spec => []WellTyped
<1>1. PipelinesInv => WellTyped
  <2> SUFFICES ASSUME PipelinesInv  PROVE WellTyped
    OBVIOUS
  <2>1. RecordsTypeOK /\ DriveTypeOK /\ ReferencesHold /\ StoredTyped
    BY RecordsHold DEF PipelinesInv, RecordsInv, RequestsInv
  <2> QED  BY <2>1 DEF WellTyped, TypeOK, PipelinesInv, RunsInv
<1> QED
  BY <1>1, PipelinesStart, PipelinesNext, PTL DEF Spec

\* updateRecordData merges: a record holds exactly what its writes have sent, the
\* later over the earlier, unless two writes of it read it before either stored
\* its merge.
THEOREM WritesAlwaysMerge == Spec => []WritesMerge
<1>1. PipelinesInv => WritesMerge
  BY RecordsHold DEF PipelinesInv
<1> QED
  BY <1>1, PipelinesStart, PipelinesNext, PTL DEF Spec

\* runEntityStatusSignalPipeline stores the record and makes the folders before
\* it posts the notice, posts the notice before it proposes the e-mail, ends
\* COMPLETED only when all that the status triggers is done, and waits for
\* approval exactly when an e-mail is proposed - however its tools' calls
\* interleave with other runs' and whichever of them fail.
THEOREM EffectsAlwaysAccounted == Spec => []EffectsAccounted
<1>1. PipelinesInv => EffectsAccounted
  <2> SUFFICES ASSUME PipelinesInv  PROVE EffectsAccounted
    OBVIOUS
  <2>1. "" \notin Ids
    BY ConstantsAssumption
  <2>2. \A r \in Runs : RunFits(r)
    BY DEF PipelinesInv, RunsInv
  <2>3. EffectsInOrder
    <3> SUFFICES ASSUME NEW r \in posted \cup proposed, NEW t \in TransitionOf(r)
                 PROVE  /\ runs[r].id # "" /\ records[runs[r].id].state # "free"
                        /\ \A k \in DOMAIN PathsFor(t, runs[r].data) :
                              Made(PathsFor(t, runs[r].data)[k])
                        /\ r \in proposed /\ t.notify => r \in posted
      BY DEF EffectsInOrder
    <3>1. r \in Runs
      BY DEF PipelinesInv, RunsInv
    <3> QED  BY <2>1, <2>2, <3>1 DEF RunFits, PathsMade, Noticed
  <2>4. EndedMeansDone
    <3> SUFFICES ASSUME NEW r \in Signals
                 PROVE  /\ runs[r].status = "COMPLETED" => \A t \in TransitionOf(r) :
                              /\ t.notify => r \in posted
                              /\ \A k \in DOMAIN PathsFor(t, runs[r].data) :
                                     Made(PathsFor(t, runs[r].data)[k])
                              /\ ~t.mail
                        /\ runs[r].status = "WAITING_FOR_APPROVAL" <=> r \in proposed
      BY DEF EndedMeansDone
    <3> QED  BY <2>2, Actors DEF RunFits, PathsMade, Noticed
  <2> QED  BY <2>3, <2>4 DEF EffectsAccounted
<1> QED
  BY <1>1, PipelinesStart, PipelinesNext, PTL DEF Spec

-----------------------------------------------------------------------------
(* The folders.                                                             *)

Calm(path) == \A k \in DOMAIN path : path[k] \notin raced

\* A call that walks has come by the first names of its path.  It makes a
\* folder only where there is none of the name, or where another may have made
\* it meanwhile.
OnChart(a, q) ==
    /\ q.pc \in {"access", "seek", "download"} => q.left = q.path
    /\ q.pc = "access" => q.at = 0
    /\ q.pc \in {"walk", "mkdir"} => q.at \in DOMAIN a /\ q.path = a[q.at] \o q.left
    /\ q.pc = "mkdir" => FoldersNamed(Head(q.left), q.at) = {} \/ Head(q.left) \in raced

SameFolder(p, q) ==
    /\ p.pc = "mkdir" /\ q.pc = "mkdir"
    /\ Head(p.left) = Head(q.left) /\ p.at = q.at

\* a names the path of each folder: its parent's and its own name.
Addresses(a) ==
    /\ a \in [0 .. Len(folders) -> Seq(Names)] /\ a[0] = <<>>
    /\ \A k \in DOMAIN folders :
          /\ folders[k].parent \in DOMAIN a
          /\ a[k] = Append(a[folders[k].parent], folders[k].name)
          /\ folders[k].renamed => folders[k].name \in raced

\* A path that no two calls raced for is one folder's, and what led there is it.
Chart(a) ==
    /\ Addresses(a)
    /\ \A i, j \in DOMAIN a : a[i] = a[j] /\ Calm(a[i]) => i = j
    /\ \A h \in homes : h[2] \in DOMAIN a /\ h[1] = a[h[2]]
    /\ \A r \in Requests : OnChart(a, requests[r])
    /\ \A p, r \in Requests :
          p # r /\ SameFolder(requests[p], requests[r]) => Head(requests[p].left) \in raced

FoldersInv == \E a \in [0 .. Len(folders) -> Seq(Names)] : Chart(a)

LEMMA SeqShift ==
    ASSUME NEW S, NEW s \in Seq(S), NEW t \in Seq(S)
    PROVE  /\ <<>> \o t = t /\ s \o <<>> = s
           /\ t # <<>> => Append(s, Head(t)) \o Tail(t) = s \o t
<1>1. <<>> \o t = t /\ s \o <<>> = s
  OBVIOUS
<1>2. ASSUME t # <<>>  PROVE Append(s, Head(t)) \o Tail(t) = s \o t
  BY <1>2
<1> QED  BY <1>1, <1>2

\* Two paths of one more name are equal when both parts are.
LEMMA AppendInjective ==
    ASSUME NEW S, NEW s \in Seq(S), NEW t \in Seq(S), NEW x \in S, NEW y \in S,
           Append(s, x) = Append(t, y)
    PROVE  s = t /\ x = y
<1>1. Len(s) \in Nat /\ Len(t) \in Nat /\ Len(s) + 1 = Len(t) + 1
  <2>1. Len(Append(s, x)) = Len(s) + 1 /\ Len(Append(t, y)) = Len(t) + 1
    OBVIOUS
  <2> QED  BY <2>1
<1>2. x = y
  <2>1. Append(s, x)[Len(s) + 1] = x /\ Append(t, y)[Len(t) + 1] = y
    OBVIOUS
  <2> QED  BY <1>1, <2>1
<1>3. \A k \in 1 .. Len(s) : s[k] = t[k]
  <2>1. \A k \in 1 .. Len(s) : Append(s, x)[k] = s[k] /\ Append(t, y)[k] = t[k]
    BY <1>1
  <2> QED  BY <2>1
<1>4. s = t
  BY <1>1, <1>3
<1> QED  BY <1>2, <1>4

LEMMA AppendFacts ==
    ASSUME NEW S, NEW s \in Seq(S), NEW x \in S
    PROVE  /\ Append(s, x) \in Seq(S) /\ Append(s, x) # <<>>
           /\ Len(Append(s, x)) = Len(s) + 1
           /\ DOMAIN Append(s, x) = 1 .. Len(s) + 1 /\ DOMAIN s = 1 .. Len(s) /\ Len(s) \in Nat
           /\ \A k \in 1 .. Len(s) : Append(s, x)[k] = s[k]
           /\ Append(s, x)[Len(s) + 1] = x
OBVIOUS

LEMMA CalmParts ==
    ASSUME NEW s \in Seq(Names), NEW x \in Names, Calm(Append(s, x))
    PROVE  Calm(s) /\ x \notin raced
<1>1. \A k \in 1 .. Len(s) : Append(s, x)[k] \notin raced /\ Append(s, x)[k] = s[k]
  BY AppendFacts DEF Calm
<1>2. Append(s, x)[Len(s) + 1] \notin raced /\ Append(s, x)[Len(s) + 1] = x
  BY AppendFacts DEF Calm
<1> QED  BY <1>1, <1>2, AppendFacts DEF Calm

\* A call goes on and the folders stay.
LEMMA ChartStill ==
    ASSUME RequestsInv, NEW a, Chart(a), NEW r \in Requests, NEW q \in Request, Turns(r, q),
           UNCHANGED folders, raced \subseteq raced', OnChart(a, q),
           \A h \in homes' : h \in homes \/ (h[2] \in DOMAIN a /\ h[1] = a[h[2]]),
           \A p \in Requests \ {r} : SameFolder(requests[p], q) => Head(q.left) \in raced'
    PROVE  Chart(a)'
<1>1. /\ requests'[r] = q /\ \A p \in Requests \ {r} : requests'[p] = requests[p]
  BY DEF Turns, RequestsInv, DriveTypeOK
<1>2. Addresses(a)'
  BY DEF Chart, Addresses
<1>3. (\A i, j \in DOMAIN a : a[i] = a[j] /\ Calm(a[i]) => i = j)'
  BY DEF Chart, Calm
<1>4. ASSUME NEW m, OnChart(a, m)  PROVE OnChart(a, m)'
  BY <1>4 DEF OnChart, FoldersNamed
<1>5. ASSUME NEW p \in Requests  PROVE OnChart(a, requests[p])'
  BY <1>1, <1>4 DEF Chart
<1>6. ASSUME NEW p \in Requests, NEW d \in Requests, p # d, SameFolder(requests[p], requests[d])'
      PROVE  Head(requests'[p].left) \in raced'
  BY <1>1, <1>6 DEF Chart, SameFolder
<1>7. (\A h \in homes : h[2] \in DOMAIN a /\ h[1] = a[h[2]])'
  BY DEF Chart
<1> QED
  BY <1>2, <1>3, <1>5, <1>6, <1>7 DEF Chart

\* The same for a call's answer that leaves where it is in its path.
LEMMA ChartAnswers ==
    ASSUME RequestsInv, NEW a, Chart(a), NEW r \in Requests, NEW q \in Request, Turns(r, q),
           UNCHANGED <<folders, homes>>, raced \subseteq raced',
           q.pc \in {"seek", "download", "findFile", "patch", "upload", "saved", "refused"},
           q.pc \in {"seek", "download"} => q.left = q.path
    PROVE  Chart(a)'
<1>1. OnChart(a, q)
  BY DEF OnChart
<1>2. \A p \in Requests \ {r} : SameFolder(requests[p], q) => Head(q.left) \in raced'
  BY DEF SameFolder
<1> QED  BY <1>1, <1>2, ChartStill

\* A call begins.
LEMMA ChartAsk ==
    ASSUME RequestsInv, NEW a, Chart(a), NEW r \in Requests, NEW q \in Request, Turns(r, q),
           UNCHANGED <<folders, homes, raced>>,
           \/ q.pc = "refused"
           \/ q.pc = "access" /\ q.left = q.path /\ q.at = 0
    PROVE  Chart(a)'
<1>1. OnChart(a, q)
  BY DEF OnChart
<1>2. \A p \in Requests \ {r} : SameFolder(requests[p], q) => Head(q.left) \in raced'
  BY DEF SameFolder
<1> QED  BY <1>1, <1>2, ChartStill

LEMMA ChartSame ==
    ASSUME FoldersInv, UNCHANGED driveVars
    PROVE  FoldersInv'
<1>1. UNCHANGED <<folders, files, requests, homes, raced>>
  BY DEF driveVars
<1>2. PICK a \in [0 .. Len(folders) -> Seq(Names)] : Chart(a)
  BY DEF FoldersInv
<1>3. Chart(a)'
  BY <1>1, <1>2 DEF Chart, Addresses, Calm, OnChart, FoldersNamed, SameFolder
<1> QED  BY <1>1, <1>3 DEF FoldersInv

\* A folder is made, and the call enters it.
LEMMA ChartGrows ==
    ASSUME RequestsInv, NEW a \in [0 .. Len(folders) -> Seq(Names)], Chart(a), NEW r \in Requests, MakeFolder(r)
    PROVE  FoldersInv'
<1> DEFINE q == requests[r]
           name == Head(q.left)
           n == Len(folders) + 1
           folder == [name |-> name,
                      renamed |-> FoldersNamed(name, q.at) # {} /\ Provider = "sharepoint",
                      parent |-> q.at]
           m == [q EXCEPT !.pc = "walk", !.at = n, !.left = Tail(q.left)]
<1>1. /\ q \in Request /\ RequestFits(q) /\ folders \in Seq(Folder) /\ raced \subseteq Names
  BY RequestOf DEF RequestsInv, DriveTypeOK
<1>2. /\ q.pc = "mkdir" /\ q.left # <<>> /\ q.left \in Seq(Names) /\ q.path \in Seq(Names)
      /\ name \in Names /\ Tail(q.left) \in Seq(Names) /\ q.at \in Nat
      /\ folders' = Append(folders, folder) /\ Turns(r, m) /\ UNCHANGED <<files, homes, raced>>
  <2>1. q.pc = "mkdir" /\ folders' = Append(folders, folder) /\ Enters(r, n)
        /\ UNCHANGED <<files, homes, raced>>
    BY DEF MakeFolder
  <2>2. q.left # <<>>
    BY <1>1, <2>1 DEF RequestFits, RequestSound
  <2>3. q.left \in Seq(Names) /\ q.path \in Seq(Names) /\ q.at \in Nat
    BY <1>1 DEF Request
  <2> QED  BY <2>1, <2>2, <2>3, SeqElim DEF Enters
<1>3. Len(folders) \in Nat /\ DOMAIN folders = 1 .. Len(folders) /\ DOMAIN a = 0 .. Len(folders)
  BY <1>1
<1>4. OnChart(a, q)
  BY DEF Chart
<1>5. q.at \in DOMAIN a /\ q.path = a[q.at] \o q.left /\ a[q.at] \in Seq(Names)
      /\ (FoldersNamed(name, q.at) = {} \/ name \in raced)
  BY <1>2, <1>3, <1>4 DEF OnChart
<1>30. PICK home \in Seq(Names) : home = a[q.at]
  BY <1>5
<1>31. PICK wanted \in Names : wanted = name
  BY <1>2
<1>6. PICK address \in Seq(Names) : address = Append(home, wanted)
  BY AppendFacts
<1>32. address = Append(a[q.at], name)
  BY <1>6, <1>30, <1>31
<1> DEFINE b == [k \in 0 .. n |-> IF k = n THEN address ELSE a[k]]
<1>7. folder \in Folder /\ folder.name = name /\ folder.parent = q.at
      /\ (folder.renamed => name \in raced)
  BY <1>2, <1>5 DEF Folder
<1> HIDE DEF folder
<1>8. /\ Len(folders') = n /\ DOMAIN folders' = 1 .. n /\ folders'[n] = folder
      /\ \A k \in DOMAIN folders : folders'[k] = folders[k]
  BY <1>1, <1>2, <1>7
<1>9. b \in [0 .. n -> Seq(Names)] /\ b[n] = address /\ \A k \in DOMAIN a : b[k] = a[k]
  BY <1>3, <1>6
<1>10. DOMAIN b = 0 .. n /\ 0 \in DOMAIN a /\ n \notin DOMAIN a /\ \A k \in DOMAIN b : k \in DOMAIN a \/ k = n
  BY <1>3
<1>11. PICK c \in [0 .. n -> Seq(Names)] : c = b
  BY <1>9
<1> HIDE DEF b
<1>12. c[n] = address /\ (\A k \in DOMAIN a : c[k] = a[k]) /\ DOMAIN c = 0 .. n
  BY <1>9, <1>10, <1>11
<1>13. Addresses(c)'
  <2>1. c \in [0 .. Len(folders') -> Seq(Names)] /\ c[0] = <<>>
    BY <1>8, <1>10, <1>11, <1>12 DEF Chart, Addresses
  <2>2. ASSUME NEW k \in DOMAIN folders'
        PROVE  /\ folders'[k].parent \in DOMAIN c
               /\ c[k] = Append(c[folders'[k].parent], folders'[k].name)
               /\ folders'[k].renamed => folders'[k].name \in raced'
    <3>1. CASE k \in DOMAIN folders
      <4>1. /\ folders[k].parent \in DOMAIN a /\ a[k] = Append(a[folders[k].parent], folders[k].name)
            /\ folders[k].renamed => folders[k].name \in raced
        BY <3>1 DEF Chart, Addresses
      <4>2. k \in DOMAIN a
        BY <1>3, <3>1
      <4>3. DOMAIN a \subseteq DOMAIN c
        BY <1>3, <1>12
      <4> QED  BY <1>2, <1>8, <1>12, <3>1, <4>1, <4>2, <4>3
    <3>2. CASE k = n
      <4>1. DOMAIN a \subseteq DOMAIN c
        BY <1>3, <1>12
      <4> QED  BY <1>2, <1>5, <1>32, <1>7, <1>8, <1>12, <3>2, <4>1
    <3> QED  BY <1>3, <1>8, <3>1, <3>2
  <2> QED  BY <2>1, <2>2 DEF Addresses
<1>14. ASSUME NEW j \in DOMAIN a, a[j] = address, \A k \in DOMAIN address : address[k] \notin raced
       PROVE  FALSE
  <2>1. address # <<>> /\ Calm(a[q.at]) /\ name \notin raced
    <3>1. Calm(Append(home, wanted)) /\ address # <<>>
      BY <1>6, <1>14, AppendFacts DEF Calm
    <3> QED  BY <1>30, <1>31, <3>1, CalmParts
  <2>2. j # 0
    BY <1>14, <2>1 DEF Chart, Addresses
  <2>3. j \in DOMAIN folders
    BY <1>3, <2>2
  <2>4. /\ folders[j].parent \in DOMAIN a /\ a[j] = Append(a[folders[j].parent], folders[j].name)
        /\ folders[j].renamed => folders[j].name \in raced
    BY <2>3 DEF Chart, Addresses
  <2>5. folders[j] \in Folder /\ folders[j].name \in Names /\ folders[j].renamed \in BOOLEAN
    <3>1. folders[j] \in Folder
      BY <1>1, <2>3, SeqElim
    <3> QED  BY <3>1 DEF Folder
  <2>6. a[folders[j].parent] \in Seq(Names)
    BY <1>3, <2>4
  <2>7. a[folders[j].parent] = a[q.at] /\ folders[j].name = name
    <3>1. PICK up \in Seq(Names) : up = a[folders[j].parent]
      BY <2>6
    <3>2. PICK last \in Names : last = folders[j].name
      BY <2>5
    <3>3. Append(up, last) = Append(home, wanted)
      BY <1>6, <1>14, <2>4, <3>1, <3>2
    <3>4. up = home /\ last = wanted
      BY <3>3, AppendInjective
    <3> QED  BY <1>30, <1>31, <3>1, <3>2, <3>4
  <2>8. folders[j].parent = q.at
    BY <1>5, <2>1, <2>4, <2>7 DEF Chart
  <2>9. j \in FoldersNamed(name, q.at)
    BY <2>1, <2>3, <2>4, <2>5, <2>7, <2>8 DEF FoldersNamed
  <2> QED  BY <1>5, <2>1, <2>9
<1>15. (\A i, j \in DOMAIN c : c[i] = c[j] /\ Calm(c[i]) => i = j)'
  <2> SUFFICES ASSUME NEW i \in DOMAIN c, NEW j \in DOMAIN c, c[i] = c[j],
                      \A k \in DOMAIN c[i] : c[i][k] \notin raced
               PROVE  i = j
    BY <1>2 DEF Calm
  <2>1. CASE i \in DOMAIN a /\ j \in DOMAIN a
    BY <1>12, <2>1 DEF Chart, Calm
  <2> QED  BY <1>3, <1>12, <1>14, <2>1
<1>16. (\A h \in homes : h[2] \in DOMAIN c /\ h[1] = c[h[2]])'
  BY <1>2, <1>3, <1>12 DEF Chart
<1>17. /\ requests'[r] = m /\ \A p \in Requests \ {r} : requests'[p] = requests[p]
  BY <1>2 DEF Turns, RequestsInv, DriveTypeOK
<1>18. /\ m \in Request /\ m.pc = "walk" /\ m.at = n /\ m.left = Tail(q.left) /\ m.path = q.path
  <2>1. n \in Nat
    BY <1>3
  <2> HIDE DEF n
  <2> QED  BY <1>1, <1>2, <2>1 DEF Request
<1> HIDE DEF m
<1>19. ASSUME NEW p \in Requests  PROVE OnChart(c, requests[p])'
  <2>1. CASE p = r
    <3>1. Append(a[q.at], name) \o Tail(q.left) = a[q.at] \o q.left
      BY <1>2, <1>5, SeqShift
    <3>2. m.at \in DOMAIN c /\ m.path = c[m.at] \o m.left
      <4>1. c[m.at] = address /\ m.at \in DOMAIN c
        BY <1>3, <1>12, <1>18
      <4> QED  BY <1>5, <1>18, <1>32, <3>1, <4>1
    <3> QED  BY <1>17, <1>18, <2>1, <3>2 DEF OnChart
  <2>2. CASE p # r
    <3> DEFINE s == requests[p]
    <3>1. requests'[p] = s /\ OnChart(a, s)
      BY <1>17, <2>2 DEF Chart
    <3>2. s.pc \in {"walk", "mkdir"} => s.at \in DOMAIN c /\ s.path = c[s.at] \o s.left
      <4>1. DOMAIN a \subseteq DOMAIN c
        BY <1>3, <1>12
      <4> QED  BY <1>12, <3>1, <4>1 DEF OnChart
    <3>3. ASSUME s.pc = "mkdir"
          PROVE  FoldersNamed(Head(s.left), s.at)' = {} \/ Head(s.left) \in raced
      <4>1. CASE SameFolder(s, q)
        BY <2>2, <4>1 DEF Chart
      <4>2. CASE ~SameFolder(s, q)
        <5>1. Head(s.left) # name \/ s.at # q.at
          BY <1>2, <3>3, <4>2 DEF SameFolder
        <5>2. FoldersNamed(Head(s.left), s.at) = {} \/ Head(s.left) \in raced
          BY <3>1, <3>3 DEF OnChart
        <5>3. FoldersNamed(Head(s.left), s.at)' \subseteq FoldersNamed(Head(s.left), s.at)
          BY <1>3, <1>7, <1>8, <3>1, <5>1 DEF FoldersNamed
        <5> QED  BY <5>2, <5>3
      <4> QED  BY <4>1, <4>2
    <3> QED  BY <1>2, <3>1, <3>2, <3>3 DEF OnChart
  <2> QED  BY <2>1, <2>2
<1>20. ASSUME NEW p \in Requests, NEW d \in Requests, p # d, SameFolder(requests[p], requests[d])'
       PROVE  Head(requests'[p].left) \in raced'
  BY <1>2, <1>17, <1>18, <1>20 DEF Chart, SameFolder
<1>21. Chart(c)'
  BY <1>13, <1>15, <1>16, <1>19, <1>20 DEF Chart
<1> QED  BY <1>8, <1>11, <1>21 DEF FoldersInv

LEMMA ChartMoves ==
    ASSUME RequestsInv, FoldersInv, NEW r \in Requests, DriveSteps(r)
    PROVE  FoldersInv'
<1> DEFINE q == requests[r]
<1>1. /\ q \in Request /\ RequestFits(q) /\ folders \in Seq(Folder) /\ files \in Seq(File)
      /\ homes \subseteq Seq(Names) \X Nat /\ raced \subseteq Names
  BY RequestOf DEF RequestsInv, DriveTypeOK
<1>2. PICK a \in [0 .. Len(folders) -> Seq(Names)] : Chart(a)
  BY DEF FoldersInv
<1>3. /\ OnChart(a, q) /\ a[0] = <<>> /\ 0 \in DOMAIN a /\ DOMAIN folders \subseteq DOMAIN a
      /\ DOMAIN a = 0 .. Len(folders) /\ Len(folders) \in Nat
  <2>1. Len(folders) \in Nat /\ DOMAIN folders = 1 .. Len(folders)
    BY <1>1
  <2> QED  BY <1>2, <2>1 DEF Chart, Addresses
<1>4. DOMAIN folders \subseteq Nat /\ DOMAIN files \subseteq Nat
  <2>1. ASSUME NEW S, NEW s \in Seq(S)  PROVE DOMAIN s \subseteq Nat
    BY SeqElim
  <2> QED  BY <1>1, <2>1
<1>5. q.path \in Seq(Names) /\ q.left \in Seq(Names) /\ q.at \in Nat /\ q.source \in Seq(Names)
      /\ <<>> \in Seq(Names)
  BY <1>1, SeqEmpty DEF Request
<1>6. SUFFICES Chart(a)' \/ MakeFolder(r)
  <2>1. CASE MakeFolder(r)
    BY <1>2, <2>1, ChartGrows
  <2>2. CASE ~MakeFolder(r)
    <3>1. UNCHANGED folders
      BY <2>2 DEF DriveSteps, Reach, SeekFolder, SeekFile, Download, FindFolder, ReachFolder,
                  FindFile, UpdateFile, Upload, StoreFails
    <3> QED  BY <1>2, <1>6, <2>2, <3>1 DEF FoldersInv
  <2> QED  BY <2>1, <2>2
\* A call's answer.
<1>7. ASSUME NEW how, Answers(r, how), UNCHANGED <<folders, homes>>, raced \subseteq raced',
             \/ how \in {"findFile", "patch", "upload", "saved", "refused"}
             \/ how = "seek" /\ q.pc = "access"
      PROVE  Chart(a)'
  <2> DEFINE m == [q EXCEPT !.pc = how]
  <2>1. m \in Request /\ m.pc = how /\ m.left = q.left /\ m.path = q.path
    BY <1>1, <1>7 DEF Request
  <2>2. Turns(r, m)
    BY <1>7 DEF Answers
  <2> HIDE DEF m
  <2> QED  BY <1>2, <1>3, <1>7, <2>1, <2>2, ChartAnswers DEF OnChart
\* A call sets out on its path.
<1>8. ASSUME NEW m \in Request, Turns(r, m), UNCHANGED <<folders, homes, raced>>,
             m.pc = "walk", m.at = 0, m.left = m.path
      PROVE  Chart(a)'
  <2>1. m.path \in Seq(Names)
    BY DEF Request
  <2>2. OnChart(a, m)
    BY <1>3, <1>8, <2>1, SeqShift DEF OnChart
  <2>3. \A p \in Requests \ {r} : SameFolder(requests[p], m) => Head(m.left) \in raced'
    BY <1>8 DEF SameFolder
  <2> QED  BY <1>2, <1>8, <2>2, <2>3, ChartStill
<1>9. CASE Reach(r)
  <2> DEFINE m == [q EXCEPT !.pc = "walk"]
  <2>1. q.pc = "access" /\ UNCHANGED <<folders, homes, raced>>
        /\ (Answers(r, "seek") \/ Answers(r, "walk"))
    BY <1>9 DEF Reach, FirstOf
  <2>2. m \in Request /\ m.pc = "walk" /\ m.at = 0 /\ m.left = m.path
    BY <1>1, <1>3, <2>1 DEF Request, OnChart
  <2>3. Answers(r, "walk") => Turns(r, m)
    BY DEF Answers
  <2> HIDE DEF m
  <2> QED  BY <1>7, <1>8, <2>1, <2>2, <2>3
<1>10. CASE SeekFolder(r)
  <2>1. q.pc = "seek" /\ Len(q.source) > 1 /\ UNCHANGED <<folders, files, homes, raced>>
    BY <1>10 DEF SeekFolder
  <2>2. ASSUME NEW k \in DOMAIN folders, Turns(r, [q EXCEPT !.at = k, !.source = Tail(q.source)])
        PROVE  Chart(a)'
    <3> DEFINE m == [q EXCEPT !.at = k, !.source = Tail(q.source)]
    <3>1. k \in Nat /\ Tail(q.source) \in Seq(Names)
      BY <1>4, <1>5, <2>1
    <3>2. m \in Request /\ m.pc = "seek" /\ m.left = m.path
      BY <1>1, <1>3, <2>1, <3>1 DEF Request, OnChart
    <3>3. Turns(r, m)
      BY <2>2
    <3> HIDE DEF m
    <3> QED  BY <1>2, <2>1, <3>2, <3>3, ChartAnswers
  <2> QED  BY <1>7, <1>10, <2>1, <2>2 DEF SeekFolder, FoldersNamed
<1>11. CASE SeekFile(r)
  <2>1. q.pc = "seek" /\ UNCHANGED <<folders, files, homes, raced>>
    BY <1>11 DEF SeekFile
  <2>2. ASSUME NEW k \in DOMAIN files,
               Turns(r, [q EXCEPT !.at = k, !.source = <<>>, !.pc = "download"])
        PROVE  Chart(a)'
    <3> DEFINE m == [q EXCEPT !.at = k, !.source = <<>>, !.pc = "download"]
    <3>1. k \in Nat
      BY <1>4
    <3>2. m \in Request /\ m.pc = "download" /\ m.left = m.path
      BY <1>1, <1>3, <1>5, <2>1, <3>1 DEF Request, OnChart
    <3>3. Turns(r, m)
      BY <2>2
    <3> HIDE DEF m
    <3> QED  BY <1>2, <2>1, <3>2, <3>3, ChartAnswers
  <2> QED  BY <1>7, <1>11, <2>1, <2>2 DEF SeekFile, FilesNamed
<1>12. CASE Download(r)
  <2>1. q.pc = "download" /\ UNCHANGED <<folders, files, homes, raced>>
    BY <1>12 DEF Download
  <2>2. ASSUME NEW c \in Contents, Turns(r, [q EXCEPT !.pc = "walk", !.at = 0, !.content = c])
        PROVE  Chart(a)'
    <3> DEFINE m == [q EXCEPT !.pc = "walk", !.at = 0, !.content = c]
    <3>1. m \in Request /\ m.pc = "walk" /\ m.at = 0 /\ m.left = m.path
      BY <1>1, <1>3, <2>1 DEF Request, OnChart
    <3>2. Turns(r, m)
      BY <2>2
    <3> HIDE DEF m
    <3> QED  BY <1>8, <2>1, <3>1, <3>2
  <2>3. Rendered(files[q.at].content) \subseteq Contents
    BY DriveAssumption DEF Rendered
  <2> QED  BY <1>7, <1>12, <2>1, <2>2, <2>3 DEF Download
<1>13. CASE FindFolder(r)
  <2>1. q.pc = "walk" /\ q.left # <<>> /\ UNCHANGED <<folders, files, homes>>
        /\ q.at \in DOMAIN a /\ q.path = a[q.at] \o q.left
    BY <1>3, <1>13 DEF FindFolder, OnChart
  <2>2. PICK name \in Names : name = Head(q.left)
    BY <1>5, <2>1, SeqElim
  <2>3. a[q.at] \in Seq(Names) /\ Tail(q.left) \in Seq(Names)
    BY <1>5, <2>1, SeqElim
  <2>4. ASSUME NEW k \in FoldersNamed(name, q.at), Enters(r, k), UNCHANGED raced
        PROVE  Chart(a)'
    <3> DEFINE m == [q EXCEPT !.pc = "walk", !.at = k, !.left = Tail(q.left)]
    <3>1. /\ k \in DOMAIN folders /\ folders[k].name = name /\ folders[k].parent = q.at
          /\ k \in Nat /\ k \in DOMAIN a
      BY <1>3, <1>4, <2>4 DEF FoldersNamed
    <3>2. a[k] = Append(a[q.at], name)
      BY <1>2, <3>1 DEF Chart, Addresses
    <3>3. a[k] \o Tail(q.left) = a[q.at] \o q.left
      <4>1. PICK home \in Seq(Names) : home = a[q.at]
        BY <2>3
      <4>2. PICK left \in Seq(Names) : left = q.left
        BY <1>5
      <4>5. left # <<>>
        BY <2>1, <4>2
      <4>3. Append(home, Head(left)) \o Tail(left) = home \o left
        BY <4>5, SeqShift
      <4> QED  BY <2>2, <3>2, <4>1, <4>2, <4>3
    <3>4. m \in Request /\ m.pc = "walk" /\ m.at = k /\ m.left = Tail(q.left) /\ m.path = q.path
      BY <1>1, <2>3, <3>1 DEF Request
    <3>5. Turns(r, m)
      BY <2>4 DEF Enters
    <3> HIDE DEF m
    <3>6. OnChart(a, m)
      BY <2>1, <3>1, <3>3, <3>4 DEF OnChart
    <3>7. \A p \in Requests \ {r} : SameFolder(requests[p], m) => Head(m.left) \in raced'
      BY <3>4 DEF SameFolder
    <3> QED  BY <1>2, <2>1, <2>4, <3>4, <3>5, <3>6, <3>7, ChartStill
  <2>5. ASSUME FoldersNamed(name, q.at) = {}, Answers(r, "mkdir"),
               raced' = raced \cup
                   {n \in {name} : \E p \in Requests \ {r} :
                       /\ requests[p].pc = "mkdir" /\ Head(requests[p].left) = name
                       /\ requests[p].at = q.at}
        PROVE  Chart(a)'
    <3> DEFINE m == [q EXCEPT !.pc = "mkdir"]
    <3>1. /\ m \in Request /\ m.pc = "mkdir" /\ m.at = q.at /\ m.left = q.left /\ m.path = q.path
      BY <1>1 DEF Request
    <3>2. Turns(r, m)
      BY <2>5 DEF Answers
    <3> HIDE DEF m
    <3>3. OnChart(a, m)
      BY <2>1, <2>2, <2>5, <3>1 DEF OnChart
    <3>4. ASSUME NEW p \in Requests \ {r}, SameFolder(requests[p], m)
          PROVE  Head(m.left) \in raced'
      <4>1. /\ requests[p].pc = "mkdir" /\ Head(requests[p].left) = name
            /\ requests[p].at = q.at
        BY <2>2, <3>1, <3>4 DEF SameFolder
      <4> QED  BY <2>2, <2>5, <3>1, <4>1
    <3>5. raced \subseteq raced'
      BY <2>5
    <3> QED  BY <1>2, <2>1, <3>1, <3>2, <3>3, <3>4, <3>5, ChartStill
  <2> QED  BY <1>13, <2>2, <2>4, <2>5 DEF FindFolder
<1>14. CASE ReachFolder(r)
  <2> DEFINE how == AfterWalk(q)
             m == [q EXCEPT !.pc = how]
  <2>1. /\ q.pc = "walk" /\ q.left = <<>> /\ UNCHANGED <<folders, files, raced>>
        /\ homes' = homes \cup {<<q.path, q.at>>} /\ Turns(r, m)
    BY <1>14 DEF ReachFolder, Answers
  <2>2. how \in {"saved", "findFile", "upload"}
    BY DEF AfterWalk
  <2> HIDE DEF how
  <2>3. m \in Request /\ m.pc = how
    BY <1>1, <2>2 DEF Request
  <2> HIDE DEF m
  <2>4. q.at \in DOMAIN a /\ q.path = a[q.at]
    <3>1. q.at \in DOMAIN a /\ q.path = a[q.at] \o <<>> /\ a[q.at] \in Seq(Names)
      BY <1>3, <2>1 DEF OnChart
    <3> QED  BY <1>5, <3>1, SeqShift
  <2>5. \A h \in homes' : h \in homes \/ (h[2] \in DOMAIN a /\ h[1] = a[h[2]])
    BY <2>1, <2>4
  <2>6. OnChart(a, m) /\ \A p \in Requests \ {r} : SameFolder(requests[p], m) => Head(m.left) \in raced'
    BY <2>2, <2>3 DEF OnChart, SameFolder
  <2> QED  BY <1>2, <2>1, <2>3, <2>5, <2>6, ChartStill
<1>15. CASE FindFile(r)
  <2>1. UNCHANGED <<folders, files, homes>> /\ raced \subseteq raced'
    BY <1>15 DEF FindFile
  <2>2. ASSUME NEW k \in DOMAIN files, Turns(r, [q EXCEPT !.pc = "patch", !.at = k])
        PROVE  Chart(a)'
    <3> DEFINE m == [q EXCEPT !.pc = "patch", !.at = k]
    <3>1. k \in Nat
      BY <1>4
    <3>2. m \in Request /\ m.pc = "patch"
      BY <1>1, <3>1 DEF Request
    <3>3. Turns(r, m)
      BY <2>2
    <3> HIDE DEF m
    <3> QED  BY <1>2, <2>1, <3>2, <3>3, ChartAnswers
  <2> QED  BY <1>7, <1>15, <2>1, <2>2 DEF FindFile, FilesNamed
<1>16. CASE UpdateFile(r) \/ Upload(r) \/ StoreFails(r)
  <2>1. UNCHANGED <<folders, homes, raced>> /\ (Answers(r, "saved") \/ Answers(r, "refused"))
    BY <1>16 DEF UpdateFile, Upload, StoreFails
  <2> QED  BY <1>7, <2>1
<1> QED
  BY <1>9, <1>10, <1>11, <1>12, <1>13, <1>14, <1>15, <1>16 DEF DriveSteps

-----------------------------------------------------------------------------
(* What each call was asked for.                                            *)

\* The names of folders it may make.
Segments(r) == IF r \in Fillers THEN Range(Fill[r].path) ELSE RunFolders

CallFor(r, q) ==
    /\ r \in Signals => q.op = "folder"
    /\ r \in Mails /\ q.pc # "idle"
          => /\ q.op = "file" /\ q.content = r
             /\ \/ q.replace /\ q.name = Correspondence
                \/ ~q.replace /\ q.name \in Range(Mail[r].attachments)
    /\ r \in Fillers =>
          /\ q.pc # "idle" => /\ q.op = "template" /\ q.name = Fill[r].name
                              /\ q.replace = Fill[r].replace
          /\ q.content \in {"", Populated}
          /\ q.pc = "idle" => q.content = ""
          /\ q.pc \in {"walk", "mkdir", "findFile", "patch", "upload"} => q.content = Populated
    /\ q.pc \notin {"idle", "refused"} => \A k \in DOMAIN q.left : q.left[k] \in Segments(r)
    /\ q.pc \in {"seek", "download"} => q.op = "template"
    /\ q.pc \in {"findFile", "patch"} => q.replace

CallsFor == \A r \in Requests : CallFor(r, requests[r])

\* What a step of the store's keeps of its call, and how it goes on.
CallGoes(p, q) ==
    /\ q.op = p.op /\ q.name = p.name /\ q.replace = p.replace
    /\ p.pc \notin {"idle", "saved", "refused"} /\ q.pc \notin {"idle", "access"}
    /\ q.content = p.content \/ (p.pc = "download" /\ q.content = Populated)
    /\ q.left = p.left \/ (p.left # <<>> /\ q.left = Tail(p.left))
    /\ q.pc \in {"seek", "download"} => p.op = "template" \/ p.pc \in {"seek", "download"}
    /\ q.pc \in {"walk", "mkdir", "findFile", "patch", "upload"} =>
          \/ p.pc \in {"walk", "mkdir", "findFile", "patch", "upload"}
          \/ p.pc = "access" /\ p.op # "template"
          \/ p.pc = "download" /\ q.content = Populated
    /\ q.pc \in {"findFile", "patch"} => q.replace \/ p.pc \in {"findFile", "patch"}
    /\ q.pc = "saved" => p.pc \in {"patch", "upload"} \/ p.op = "folder"

LEMMA DriveGoes ==
    ASSUME RequestsInv, NEW r \in Requests, DriveSteps(r)
    PROVE  /\ CallGoes(requests[r], requests'[r])
           /\ \A p \in Requests \ {r} : requests'[p] = requests[p]
<1> DEFINE q == requests[r]
<1>1. /\ q \in Request /\ RequestFits(q)
  BY RequestOf
<1>2. ASSUME NEW m, Turns(r, m)
      PROVE  requests'[r] = m /\ \A p \in Requests \ {r} : requests'[p] = requests[p]
  BY <1>2 DEF Turns, RequestsInv, DriveTypeOK
<1>3. q.op \in {"folder", "file", "template"} /\ q.replace \in BOOLEAN
  BY <1>1 DEF Request
<1>4. ASSUME NEW m, Turns(r, m), CallGoes(q, m)
      PROVE  /\ CallGoes(requests[r], requests'[r])
             /\ \A p \in Requests \ {r} : requests'[p] = requests[p]
  BY <1>2, <1>4
<1>5. ASSUME NEW how, Answers(r, how), q.pc \notin {"idle", "saved", "refused"},
             \/ how = "refused"
             \/ how = "mkdir" /\ q.pc = "walk"
             \/ how = "upload" /\ q.pc \in {"walk", "findFile"}
             \/ how = "findFile" /\ q.pc = "walk" /\ q.replace
             \/ how = "saved" /\ (q.pc \in {"patch", "upload"} \/ q.op = "folder")
             \/ how = "seek" /\ q.op = "template"
             \/ how = "walk" /\ q.pc = "access" /\ q.op # "template"
      PROVE  /\ CallGoes(requests[r], requests'[r])
             /\ \A p \in Requests \ {r} : requests'[p] = requests[p]
  <2> DEFINE m == [q EXCEPT !.pc = how]
  <2>1. /\ m.pc = how /\ m.op = q.op /\ m.name = q.name /\ m.replace = q.replace
        /\ m.content = q.content /\ m.left = q.left
    BY <1>1 DEF Request
  <2>2. Turns(r, m)
    BY <1>5 DEF Answers
  <2> HIDE DEF m
  <2>3. CallGoes(q, m)
    BY <1>5, <2>1 DEF CallGoes
  <2> QED  BY <1>4, <2>2, <2>3
<1>6. CASE Reach(r)
  BY <1>3, <1>5, <1>6 DEF Reach, FirstOf
<1>7. CASE SeekFolder(r)
  <2>1. q.pc = "seek"
    BY <1>7 DEF SeekFolder
  <2>2. ASSUME NEW k, Turns(r, [q EXCEPT !.at = k, !.source = Tail(q.source)])
        PROVE  CallGoes(q, requests'[r]) /\ \A p \in Requests \ {r} : requests'[p] = requests[p]
    <3> DEFINE m == [q EXCEPT !.at = k, !.source = Tail(q.source)]
    <3>1. /\ m.pc = q.pc /\ m.op = q.op /\ m.name = q.name /\ m.replace = q.replace
          /\ m.content = q.content /\ m.left = q.left
      BY <1>1 DEF Request
    <3>2. Turns(r, m)
      BY <2>2
    <3> HIDE DEF m
    <3>3. CallGoes(q, m)
      BY <2>1, <3>1 DEF CallGoes
    <3> QED  BY <1>4, <3>2, <3>3
  <2> QED  BY <1>5, <1>7, <2>1, <2>2 DEF SeekFolder
<1>8. CASE SeekFile(r)
  <2>1. q.pc = "seek"
    BY <1>8 DEF SeekFile
  <2>2. ASSUME NEW k, Turns(r, [q EXCEPT !.at = k, !.source = <<>>, !.pc = "download"])
        PROVE  CallGoes(q, requests'[r]) /\ \A p \in Requests \ {r} : requests'[p] = requests[p]
    <3> DEFINE m == [q EXCEPT !.at = k, !.source = <<>>, !.pc = "download"]
    <3>1. /\ m.pc = "download" /\ m.op = q.op /\ m.name = q.name /\ m.replace = q.replace
          /\ m.content = q.content /\ m.left = q.left
      BY <1>1 DEF Request
    <3>2. Turns(r, m)
      BY <2>2
    <3> HIDE DEF m
    <3>3. CallGoes(q, m)
      BY <2>1, <3>1 DEF CallGoes
    <3> QED  BY <1>4, <3>2, <3>3
  <2> QED  BY <1>5, <1>8, <2>1, <2>2 DEF SeekFile
<1>9. CASE Download(r)
  <2>1. q.pc = "download"
    BY <1>9 DEF Download
  <2>2. ASSUME NEW c, c = Populated, Turns(r, [q EXCEPT !.pc = "walk", !.at = 0, !.content = c])
        PROVE  CallGoes(q, requests'[r]) /\ \A p \in Requests \ {r} : requests'[p] = requests[p]
    <3> DEFINE m == [q EXCEPT !.pc = "walk", !.at = 0, !.content = c]
    <3>1. /\ m.pc = "walk" /\ m.op = q.op /\ m.name = q.name /\ m.replace = q.replace
          /\ m.content = Populated /\ m.left = q.left
      BY <1>1, <2>2 DEF Request
    <3>2. Turns(r, m)
      BY <2>2
    <3> HIDE DEF m
    <3>3. CallGoes(q, m)
      BY <2>1, <3>1 DEF CallGoes
    <3> QED  BY <1>4, <3>2, <3>3
  <2>3. \A c \in Rendered(files[q.at].content) : c = Populated
    BY DEF Rendered
  <2> QED  BY <1>5, <1>9, <2>1, <2>2, <2>3 DEF Download
<1>10. ASSUME NEW k, Enters(r, k), q.pc \in {"walk", "mkdir"}, q.left # <<>>
       PROVE  CallGoes(q, requests'[r]) /\ \A p \in Requests \ {r} : requests'[p] = requests[p]
  <2> DEFINE m == [q EXCEPT !.pc = "walk", !.at = k, !.left = Tail(q.left)]
  <2>1. /\ m.pc = "walk" /\ m.op = q.op /\ m.name = q.name /\ m.replace = q.replace
        /\ m.content = q.content /\ m.left = Tail(q.left)
    BY <1>1 DEF Request
  <2>2. Turns(r, m)
    BY <1>10 DEF Enters
  <2> HIDE DEF m
  <2>3. CallGoes(q, m)
    BY <1>10, <2>1 DEF CallGoes
  <2> QED  BY <1>4, <2>2, <2>3
<1>11. CASE FindFolder(r)
  <2>1. q.pc = "walk" /\ q.left # <<>> /\ (Answers(r, "mkdir") \/ \E k \in Nat \cup DOMAIN folders : Enters(r, k))
    BY <1>11 DEF FindFolder, FoldersNamed
  <2> QED  BY <1>5, <1>10, <2>1
<1>12. CASE MakeFolder(r)
  <2>1. q.pc = "mkdir" /\ q.left # <<>> /\ Enters(r, Len(folders) + 1)
    BY <1>1, <1>12 DEF MakeFolder, RequestFits, RequestSound
  <2> QED  BY <1>10, <2>1
<1>13. CASE ReachFolder(r)
  <2>1. q.pc = "walk" /\ Answers(r, AfterWalk(q))
    BY <1>13 DEF ReachFolder
  <2>2. \/ AfterWalk(q) = "saved" /\ q.op = "folder"
        \/ AfterWalk(q) = "findFile" /\ q.replace
        \/ AfterWalk(q) = "upload"
    BY DEF AfterWalk
  <2> QED  BY <1>5, <2>1, <2>2
<1>14. CASE FindFile(r)
  <2>1. q.pc = "findFile"
    BY <1>14 DEF FindFile
  <2>2. ASSUME NEW k, Turns(r, [q EXCEPT !.pc = "patch", !.at = k])
        PROVE  CallGoes(q, requests'[r]) /\ \A p \in Requests \ {r} : requests'[p] = requests[p]
    <3> DEFINE m == [q EXCEPT !.pc = "patch", !.at = k]
    <3>1. /\ m.pc = "patch" /\ m.op = q.op /\ m.name = q.name /\ m.replace = q.replace
          /\ m.content = q.content /\ m.left = q.left
      BY <1>1 DEF Request
    <3>2. Turns(r, m)
      BY <2>2
    <3> HIDE DEF m
    <3>3. CallGoes(q, m)
      BY <2>1, <3>1 DEF CallGoes
    <3> QED  BY <1>4, <3>2, <3>3
  <2> QED  BY <1>5, <1>14, <2>1, <2>2 DEF FindFile
<1>15. CASE UpdateFile(r) \/ Upload(r)
  BY <1>5, <1>15 DEF UpdateFile, Upload
<1>16. CASE StoreFails(r)
  BY <1>5, <1>16 DEF StoreFails
<1> QED
  BY <1>6, <1>7, <1>8, <1>9, <1>11, <1>12, <1>13, <1>14, <1>15, <1>16 DEF DriveSteps

LEMMA CallsForMove ==
    ASSUME RequestsInv, CallsFor, NEW r \in Requests, DriveSteps(r)
    PROVE  CallsFor'
<1>1. /\ CallGoes(requests[r], requests'[r])
      /\ \A p \in Requests \ {r} : requests'[p] = requests[p]
  BY DriveGoes
<1>2. ASSUME NEW p, NEW q, NEW S, p.left \in Seq(S), CallFor(r, p), CallGoes(p, q)
      PROVE  CallFor(r, q)
  <2>1. ASSUME \A k \in DOMAIN p.left : p.left[k] \in Segments(r), p.left # <<>>,
               NEW k \in DOMAIN Tail(p.left)
        PROVE  Tail(p.left)[k] \in Segments(r)
    <3>1. /\ k + 1 \in DOMAIN p.left /\ Tail(p.left)[k] = p.left[k + 1]
      <4> DEFINE s == p.left
      <4>1. s \in Seq(S) /\ s # <<>> /\ k \in DOMAIN Tail(s)
        BY <1>2, <2>1
      <4> HIDE DEF s
      <4>2. k + 1 \in DOMAIN s /\ Tail(s)[k] = s[k + 1]
        BY <4>1
      <4> QED  BY <4>2 DEF s
    <3> QED  BY <2>1, <3>1
  <2>2. q.pc \notin {"idle", "refused"} => \A k \in DOMAIN q.left : q.left[k] \in Segments(r)
    BY <1>2, <2>1 DEF CallFor, CallGoes
  <2>3. r \in Fillers => r \notin Mails /\ r \notin Signals
    BY Actors
  <2>4. r \in Mails => r \notin Signals
    BY Actors
  <2>5. r \in Mails /\ q.pc # "idle"
          => /\ q.op = "file" /\ q.content = r
             /\ \/ q.replace /\ q.name = Correspondence
                \/ ~q.replace /\ q.name \in Range(Mail[r].attachments)
    BY <1>2 DEF CallFor, CallGoes
  <2>6. r \in Fillers =>
          /\ q.pc # "idle" => /\ q.op = "template" /\ q.name = Fill[r].name
                              /\ q.replace = Fill[r].replace
          /\ q.content \in {"", Populated}
          /\ q.pc = "idle" => q.content = ""
          /\ q.pc \in {"walk", "mkdir", "findFile", "patch", "upload"} => q.content = Populated
    BY <1>2 DEF CallFor, CallGoes
  <2>7. /\ q.pc \in {"seek", "download"} => q.op = "template"
        /\ q.pc \in {"findFile", "patch"} => q.replace
        /\ r \in Signals => q.op = "folder"
    BY <1>2 DEF CallFor, CallGoes
  <2> QED  BY <2>2, <2>5, <2>6, <2>7 DEF CallFor
<1>3. requests[r].left \in Seq(Names)
  BY RequestOf DEF Request
<1>4. CallFor(r, requests'[r])
  BY <1>1, <1>2, <1>3 DEF CallsFor
<1>5. ASSUME NEW p \in Requests  PROVE CallFor(p, requests'[p])
  BY <1>1, <1>4 DEF CallsFor
<1> QED  BY <1>5 DEF CallsFor, CallFor, Segments

\* What the tools' handlers make of what they are asked.
LEMMA AskTurns ==
    ASSUME RequestsInv, NEW r \in Requests, NEW m \in Asked, Ask(r, m)
    PROVE  /\ \A p \in Requests \ {r} : requests'[p] = requests[p]
           /\ \E q \in Request :
                /\ Turns(r, q) /\ requests'[r] = q
                /\ q.op = m.op /\ q.name = m.name /\ q.content = m.content
                /\ q.replace = m.replace /\ q.at = m.at
                /\ \/ q.pc = "refused"
                   \/ /\ q.pc = "access" /\ q.left = m.path /\ q.path = m.path
                      /\ \A k \in DOMAIN m.path : m.path[k] \in Names
<1>1. CASE \A k \in DOMAIN m.path : m.path[k] \in Names
  <2> DEFINE q == [m EXCEPT !.pc = "access", !.left = m.path]
  <2>1. m.path \in Seq(Names)
    <3>1. m.path \in Seq(Names \cup {""})
      BY DEF Asked
    <3> QED  BY <1>1, <3>1, SeqNarrow
  <2>2. /\ q \in Request /\ q.pc = "access" /\ q.op = m.op /\ q.name = m.name
        /\ q.content = m.content /\ q.path = m.path /\ q.left = m.path /\ q.at = m.at
        /\ q.replace = m.replace
    BY <2>1 DEF Asked, Request
  <2>3. Turns(r, q)
    BY <1>1 DEF Ask
  <2> HIDE DEF q
  <2>4. requests'[r] = q /\ \A p \in Requests \ {r} : requests'[p] = requests[p]
    BY <2>3 DEF Turns, RequestsInv, DriveTypeOK
  <2> QED  BY <1>1, <2>2, <2>3, <2>4
<1>2. CASE ~\A k \in DOMAIN m.path : m.path[k] \in Names
  <2> DEFINE q == [m EXCEPT !.pc = "refused", !.path = <<>>]
  <2>1. /\ q \in Request /\ q.pc = "refused" /\ q.op = m.op /\ q.name = m.name
        /\ q.content = m.content /\ q.at = m.at /\ q.replace = m.replace
    <3> DEFINE none == <<>>
    <3>1. none \in Seq(Names)
      BY SeqEmpty
    <3>2. q = [m EXCEPT !.pc = "refused", !.path = none]
      OBVIOUS
    <3> HIDE DEF q, none
    <3> QED  BY <3>1, <3>2 DEF Asked, Request
  <2>2. Turns(r, q)
    BY <1>2 DEF Ask
  <2> HIDE DEF q
  <2>4. requests'[r] = q /\ \A p \in Requests \ {r} : requests'[p] = requests[p]
    BY <2>2 DEF Turns, RequestsInv, DriveTypeOK
  <2> QED  BY <2>1, <2>2, <2>4
<1> QED  BY <1>1, <1>2

\* A call each caller may make.
Proper(r, m) ==
    /\ m.at = 0
    /\ r \in Signals => m.op = "folder"
    /\ r \in Mails =>
          /\ m.op = "file" /\ m.content = r
          /\ \/ m.replace /\ m.name = Correspondence
             \/ ~m.replace /\ m.name \in Range(Mail[r].attachments)
    /\ r \in Fillers =>
          m.op = "template" /\ m.name = Fill[r].name /\ m.replace = Fill[r].replace
          /\ m.content = ""
    /\ \A k \in DOMAIN m.path : m.path[k] \in Segments(r) \cup {""}

LEMMA CallsForAsk ==
    ASSUME RequestsInv, FoldersInv, CallsFor, NEW r \in Requests, NEW m \in Asked, Ask(r, m),
           Proper(r, m), UNCHANGED <<folders, homes, raced>>
    PROVE  /\ CallsFor' /\ FoldersInv'
           /\ requests'[r].pc \in {"access", "refused"}
           /\ requests'[r].name = m.name /\ requests'[r].replace = m.replace
           /\ \A p \in Requests \ {r} : requests'[p] = requests[p]
<1>1. PICK q \in Request :
        /\ Turns(r, q) /\ requests'[r] = q
        /\ q.op = m.op /\ q.name = m.name /\ q.content = m.content
        /\ q.replace = m.replace /\ q.at = m.at
        /\ \/ q.pc = "refused"
           \/ /\ q.pc = "access" /\ q.left = m.path /\ q.path = m.path
              /\ \A k \in DOMAIN m.path : m.path[k] \in Names
  BY AskTurns
<1>2. \A p \in Requests \ {r} : requests'[p] = requests[p]
  BY AskTurns
<1>3. q.pc = "access" => \A k \in DOMAIN q.left : q.left[k] \in Segments(r)
  <2> SUFFICES ASSUME q.pc = "access", NEW k \in DOMAIN q.left  PROVE q.left[k] \in Segments(r)
    OBVIOUS
  <2>1. q.left = m.path /\ m.path[k] \in Names
    BY <1>1
  <2>2. m.path[k] \in Segments(r) \cup {""}
    BY <2>1 DEF Proper
  <2> QED  BY <2>1, <2>2, DriveAssumption
<1>4. CallFor(r, q)
  BY <1>1, <1>3, Actors DEF Proper, CallFor
<1>5. ASSUME NEW p \in Requests  PROVE CallFor(p, requests'[p])
  BY <1>1, <1>2, <1>4 DEF CallsFor
<1>6. CallsFor'
  BY <1>5 DEF CallsFor, CallFor, Segments
<1>7. FoldersInv'
  <2>1. PICK a \in [0 .. Len(folders) -> Seq(Names)] : Chart(a)
    BY DEF FoldersInv
  <2>2. Chart(a)'
    BY <1>1, <2>1, ChartAsk DEF Proper
  <2> QED  BY <2>1, <2>2 DEF FoldersInv
<1> QED  BY <1>1, <1>2, <1>6, <1>7

-----------------------------------------------------------------------------
(* What a run has still to ask for.                                         *)

AsksFor(r) ==
    /\ r \in Signals => \A k \in DOMAIN runs[r].paths : \A i \in DOMAIN runs[r].paths[k] :
                            runs[r].paths[k][i] \in RunFolders \cup {""}
    /\ r \in Mails => \A k \in DOMAIN runs[r].files :
                          runs[r].files[k] \in Range(Mail[r].attachments)

LEMMA RootSegment ==
    ASSUME NEW data \in Data, NEW otherwise \in Texts \cup {""}
    PROVE  Root(data, otherwise) \in Texts \cup {""}
<1>1. \A f \in DOMAIN data : data[f] \in Value \ {Undefined}
  BY PartialElim DEF Data
<1>2. TextOf(data, RootField) \in Texts \cup {""}
  BY <1>1 DEF TextOf, Value
<1> QED  BY <1>2 DEF Root

LEMMA PathSegments ==
    ASSUME NEW r, NEW t \in TransitionOf(r), NEW data \in Data,
           NEW k \in DOMAIN PathsFor(t, data), NEW i \in DOMAIN PathsFor(t, data)[k]
    PROVE  PathsFor(t, data)[k][i] \in RunFolders \cup {""}
<1> DEFINE root == Root(data, "")
<1>1. root \in RunFolders \cup {""}
  BY RootSegment DEF RunFolders
<1>2. t \in Transition /\ \E s \in DOMAIN Transitions : t = Transitions[s]
  BY TransitionTyped DEF TransitionOf
<1>3. \A j \in DOMAIN t.subfolders : t.subfolders[j] \in RunFolders
  BY <1>2 DEF RunFolders, Range
<1> HIDE DEF root
<1>4. CASE t.folders /\ t.subfolders = <<>>
  <2>1. PathsFor(t, data) = <<<<root>>>>
    BY <1>4 DEF PathsFor, root
  <2>2. k = 1
    BY <2>1
  <2>3. PathsFor(t, data)[k] = <<root>>
    BY <2>1, <2>2
  <2>4. i = 1 /\ PathsFor(t, data)[k][i] = root
    BY <2>3
  <2> QED  BY <1>1, <2>4
<1>5. CASE t.folders /\ t.subfolders # <<>>
  <2>1. PathsFor(t, data) = [j \in DOMAIN t.subfolders |-> <<root, t.subfolders[j]>>]
    BY <1>5 DEF PathsFor, root
  <2>2. k \in DOMAIN t.subfolders
    BY <2>1
  <2>3. PathsFor(t, data)[k] = <<root, t.subfolders[k]>>
    BY <2>1, <2>2
  <2>4. i \in {1, 2} /\ PathsFor(t, data)[k][1] = root /\ PathsFor(t, data)[k][2] = t.subfolders[k]
    BY <2>3
  <2> QED  BY <1>1, <1>3, <2>2, <2>4
<1>6. CASE ~t.folders
  <2>1. PathsFor(t, data) = <<>>
    BY <1>6 DEF PathsFor
  <2>2. DOMAIN PathsFor(t, data) = {}
    BY <2>1
  <2> QED  BY <2>2
<1> QED  BY <1>4, <1>5, <1>6, Zenon

\* A step of a run's, as what it has still to ask for sees it.
LEMMA RunGoes ==
    ASSUME PipelinesInv, NEW r \in Runs, RunSteps(r)
    PROVE  /\ \A q \in Runs \ {r} : runs'[q] = runs[q]
           /\ \/ runs'[r].paths = runs[r].paths
              \/ runs[r].paths # <<>> /\ runs'[r].paths = Tail(runs[r].paths)
              \/ \E t \in TransitionOf(r), data \in Data : runs'[r].paths = PathsFor(t, data)
           /\ \/ runs'[r].files = runs[r].files
              \/ runs[r].files # <<>> /\ runs'[r].files = Tail(runs[r].files)
              \/ r \in Mails /\ runs'[r].files = Mail[r].attachments
<1>1. runs[r] \in Run /\ RecordsInv /\ runs \in [Runs -> Run]
  BY RunOf DEF PipelinesInv, RunsInv
<1>2. ASSUME NEW run, Becomes(r, run)
      PROVE  runs'[r] = run /\ \A q \in Runs \ {r} : runs'[q] = runs[q]
  BY <1>1, <1>2 DEF Becomes
<1>3. ASSUME NEW pc, Becomes(r, [runs[r] EXCEPT !.pc = pc])
      PROVE  /\ \A q \in Runs \ {r} : runs'[q] = runs[q]
             /\ runs'[r].paths = runs[r].paths /\ runs'[r].files = runs[r].files
  <2> DEFINE run == [runs[r] EXCEPT !.pc = pc]
  <2>1. run.paths = runs[r].paths /\ run.files = runs[r].files
    BY <1>1 DEF Run
  <2>2. Becomes(r, run)
    BY <1>3
  <2> HIDE DEF run
  <2> QED  BY <1>2, <2>1, <2>2
<1>4. ASSUME NEW status, Settles(r, status)
      PROVE  /\ \A q \in Runs \ {r} : runs'[q] = runs[q]
             /\ runs'[r].paths = runs[r].paths /\ runs'[r].files = runs[r].files
  <2> DEFINE run == [runs[r] EXCEPT !.pc = "over", !.status = status]
  <2>1. run.paths = runs[r].paths /\ run.files = runs[r].files
    BY <1>1 DEF Run
  <2>2. Becomes(r, run)
    BY <1>4 DEF Settles
  <2> HIDE DEF run
  <2> QED  BY <1>2, <2>1, <2>2
<1>5. CASE StartSignal(r) \/ StartMail(r)
  BY <1>3, <1>4, <1>5 DEF StartSignal, StartMail, Find, Fail
<1>6. CASE SaveSignal(r)
  BY <1>3, <1>4, <1>6 DEF SaveSignal, Fail
<1>7. CASE ApplyTransition(r)
  <2>1. ASSUME calls[r].pc = "done", NEW t \in TransitionOf(r),
               Becomes(r, [runs[r] EXCEPT !.pc = "folder", !.id = calls[r].id,
                              !.data = calls[r].values, !.paths = PathsFor(t, calls[r].values)])
        PROVE  /\ \A q \in Runs \ {r} : runs'[q] = runs[q]
               /\ runs'[r].files = runs[r].files
               /\ \E u \in TransitionOf(r), data \in Data : runs'[r].paths = PathsFor(u, data)
    <3> DEFINE paths == PathsFor(t, calls[r].values)
               run == [runs[r] EXCEPT !.pc = "folder", !.id = calls[r].id,
                              !.data = calls[r].values, !.paths = paths]
    <3>1. calls[r].values \in Data
      BY <1>1, <2>1, CallOf, Actors DEF CallFits
    <3>2. Becomes(r, run)
      BY <2>1
    <3> HIDE DEF paths
    <3>3. run.paths = paths /\ run.files = runs[r].files
      BY <1>1 DEF Run
    <3> HIDE DEF run
    <3>4. runs'[r].paths = paths /\ runs'[r].files = runs[r].files
          /\ \A q \in Runs \ {r} : runs'[q] = runs[q]
      BY <1>2, <3>2, <3>3
    <3> QED  BY <3>1, <3>4 DEF paths
  <2> QED  BY <1>4, <1>7, <2>1 DEF ApplyTransition
<1>8. CASE CreateFolder(r)
  <2>1. CASE runs[r].paths = <<>>
    BY <1>3, <1>8, <2>1 DEF CreateFolder
  <2>2. CASE runs[r].paths # <<>>
    <3> DEFINE run == [runs[r] EXCEPT !.paths = Tail(runs[r].paths)]
    <3>1. Becomes(r, run)
      BY <1>8, <2>2 DEF CreateFolder
    <3>2. run.paths = Tail(runs[r].paths) /\ run.files = runs[r].files
      BY <1>1 DEF Run
    <3> HIDE DEF run
    <3> QED  BY <1>2, <2>2, <3>1, <3>2
  <2> QED  BY <2>1, <2>2
<1>9. CASE StoreRefused(r)
  BY <1>4, <1>9 DEF StoreRefused
<1>10. CASE Notify(r)
  BY <1>3, <1>4, <1>10 DEF Notify
<1>11. CASE ProposeMail(r)
  BY <1>4, <1>11 DEF ProposeMail, WithoutAddress
<1>12. CASE SaveBody(r)
  <2>1. r \in Mails
    BY <1>12 DEF SaveBody
  <2>2. ASSUME Becomes(r, [runs[r] EXCEPT !.pc = "attach", !.data = calls[r].values,
                                        !.files = Mail[r].attachments])
        PROVE  /\ \A q \in Runs \ {r} : runs'[q] = runs[q]
               /\ runs'[r].paths = runs[r].paths /\ runs'[r].files = Mail[r].attachments
    <3> DEFINE run == [runs[r] EXCEPT !.pc = "attach", !.data = calls[r].values,
                                        !.files = Mail[r].attachments]
    <3>1. run.paths = runs[r].paths /\ run.files = Mail[r].attachments
      BY <1>1 DEF Run
    <3>2. Becomes(r, run)
      BY <2>2
    <3> HIDE DEF run
    <3> QED  BY <1>2, <3>1, <3>2
  <2> QED  BY <1>4, <1>12, <2>1, <2>2 DEF SaveBody
<1>13. CASE SaveAttachment(r)
  <2>1. CASE runs[r].files = <<>>
    BY <1>4, <1>13, <2>1 DEF SaveAttachment
  <2>2. CASE runs[r].files # <<>>
    <3> DEFINE run == [runs[r] EXCEPT !.files = Tail(runs[r].files)]
    <3>1. Becomes(r, run)
      BY <1>13, <2>2 DEF SaveAttachment
    <3>2. run.files = Tail(runs[r].files) /\ run.paths = runs[r].paths
      BY <1>1 DEF Run
    <3> HIDE DEF run
    <3> QED  BY <1>2, <2>2, <3>1, <3>2
  <2> QED  BY <2>1, <2>2
<1> QED
  BY <1>5, <1>6, <1>7, <1>8, <1>9, <1>10, <1>11, <1>12, <1>13 DEF RunSteps

LEMMA TailWithin ==
    ASSUME NEW S, NEW s \in Seq(S), s # <<>>, NEW k \in DOMAIN Tail(s)
    PROVE  k + 1 \in DOMAIN s /\ Tail(s)[k] = s[k + 1]
OBVIOUS

LEMMA AsksGo ==
    ASSUME PipelinesInv, \A r \in Runs : AsksFor(r), NEW r \in Runs, RunSteps(r)
    PROVE  \A q \in Runs : AsksFor(q)'
<1>1. ASSUME NEW q \in Runs, runs'[q] = runs[q]  PROVE AsksFor(q)'
  BY <1>1 DEF AsksFor
<1>2. /\ runs[r] \in Run /\ AsksFor(r) /\ runs[r].paths \in Seq(Seq(Names \cup {""}))
      /\ runs[r].files \in Seq(Names)
  BY RunOf DEF PipelinesInv, Run
<1>3. ASSUME r \in Signals, NEW k \in DOMAIN runs'[r].paths, NEW i \in DOMAIN runs'[r].paths[k]
      PROVE  runs'[r].paths[k][i] \in RunFolders \cup {""}
  <2>1. CASE runs'[r].paths = runs[r].paths
    BY <1>2, <1>3, <2>1 DEF AsksFor
  <2>2. CASE runs[r].paths # <<>> /\ runs'[r].paths = Tail(runs[r].paths)
    <3>1. k + 1 \in DOMAIN runs[r].paths /\ runs'[r].paths[k] = runs[r].paths[k + 1]
      BY <1>2, <1>3, <2>2, TailWithin
    <3> QED  BY <1>2, <1>3, <3>1 DEF AsksFor
  <2>3. CASE \E t \in TransitionOf(r), data \in Data : runs'[r].paths = PathsFor(t, data)
    BY <1>3, <2>3, PathSegments
  <2> QED  BY <2>1, <2>2, <2>3, RunGoes
<1>4. ASSUME r \in Mails, NEW k \in DOMAIN runs'[r].files
      PROVE  runs'[r].files[k] \in Range(Mail[r].attachments)
  <2>1. CASE runs'[r].files = runs[r].files
    BY <1>2, <1>4, <2>1 DEF AsksFor
  <2>2. CASE runs[r].files # <<>> /\ runs'[r].files = Tail(runs[r].files)
    <3>1. k + 1 \in DOMAIN runs[r].files /\ runs'[r].files[k] = runs[r].files[k + 1]
      BY <1>2, <1>4, <2>2, TailWithin
    <3> QED  BY <1>2, <1>4, <3>1 DEF AsksFor
  <2>3. CASE runs'[r].files = Mail[r].attachments
    BY <1>4, <2>3 DEF Range
  <2> QED  BY <2>1, <2>2, <2>3, RunGoes
<1>5. AsksFor(r)'
  BY <1>3, <1>4 DEF AsksFor, RunFolders
<1> QED  BY <1>1, <1>5, RunGoes

\* What a run asks of the store, if it does.
StoreAsked(r) ==
    \E m \in Asked : /\ Ask(r, m) /\ Proper(r, m)
                     /\ UNCHANGED <<folders, files, homes, raced>>

LEMMA HeadIs ==
    ASSUME NEW S, NEW s \in Seq(S), s # <<>>
    PROVE  1 \in DOMAIN s /\ Head(s) = s[1] /\ Head(s) \in S
OBVIOUS

LEMMA PairIs ==
    ASSUME NEW a, NEW b, NEW k \in DOMAIN <<a, b>>
    PROVE  <<a, b>>[k] \in {a, b}
<1>1. k \in 1 .. 2
  OBVIOUS
<1>2. <<a, b>>[1] = a /\ <<a, b>>[2] = b
  OBVIOUS
<1> QED  BY <1>1, <1>2

FileAsked(r, name, replace) ==
    \E m \in Asked : /\ Ask(r, m) /\ Proper(r, m)
                     /\ UNCHANGED <<folders, files, homes, raced>>
                     /\ m.name = name /\ m.replace = replace

LEMMA SaveFileAsks ==
    ASSUME NEW r \in Mails, NEW root \in Texts \cup {""}, NEW name \in Names,
           NEW replace \in BOOLEAN, SaveFile(r, root, name, replace),
           \/ replace /\ name = Correspondence
           \/ ~replace /\ name \in Range(Mail[r].attachments)
    PROVE  FileAsked(r, name, replace)
<1> DEFINE path == <<root, Subfolder>>
           m == [NoRequest EXCEPT !.op = "file", !.path = path, !.name = name, !.content = r,
                                  !.replace = replace]
<1>1. Subfolder \in Names /\ Texts \subseteq Names /\ r \in Contents /\ r \notin Fillers
      /\ r \notin Signals
  BY PipelineAssumption, Actors
<1>2. path \in Seq(Names \cup {""})
  BY <1>1, SeqTuples
<1>3. Ask(r, m) /\ UNCHANGED <<folders, files, homes, raced>>
  BY DEF SaveFile
<1>4. \A k \in DOMAIN path : path[k] \in Segments(r) \cup {""}
  <2>1. \A k \in DOMAIN path : path[k] \in {root, Subfolder}
    BY PairIs
  <2>2. root \in RunFolders \cup {""} /\ Subfolder \in RunFolders
    BY DEF RunFolders
  <2> HIDE DEF path
  <2> QED  BY <1>1, <2>1, <2>2 DEF Segments
<1> HIDE DEF path
<1>5. /\ m \in Asked /\ m.op = "file" /\ m.name = name /\ m.content = r /\ m.path = path
      /\ m.replace = replace /\ m.at = 0
  BY <1>1, <1>2, SeqEmpty DEF NoRequest, Asked
<1> HIDE DEF m
<1>6. Proper(r, m)
  BY <1>1, <1>4, <1>5 DEF Proper
<1> QED  BY <1>3, <1>5, <1>6 DEF FileAsked

LEMMA RunAsks ==
    ASSUME PipelinesInv, NEW r \in Runs, AsksFor(r), RunSteps(r)
    PROVE  UNCHANGED driveVars \/ StoreAsked(r)
<1>1. /\ runs[r] \in Run /\ RunFits(r) /\ RecordsInv /\ RequestsInv /\ r \in Callers
  BY RunOf, Actors DEF PipelinesInv, RunsInv
<1>2. CASE CreateFolder(r)
  <2>1. CASE runs[r].paths = <<>>
    BY <1>2, <2>1 DEF CreateFolder, NoDriveStep
  <2>2. CASE runs[r].paths # <<>>
    <3> DEFINE path == Head(runs[r].paths)
               m == [NoRequest EXCEPT !.path = path]
    <3>1. Ask(r, m) /\ UNCHANGED <<folders, files, homes, raced>> /\ r \in Signals
      BY <1>1, <1>2, <2>2 DEF CreateFolder, RunFits
    <3>2. runs[r].paths \in Seq(Seq(Names \cup {""}))
      BY <1>1 DEF Run
    <3>3. path \in Seq(Names \cup {""}) /\ 1 \in DOMAIN runs[r].paths /\ path = runs[r].paths[1]
      BY <2>2, <3>2, HeadIs
    <3>4. \A k \in DOMAIN path : path[k] \in RunFolders \cup {""}
      BY <3>1, <3>3 DEF AsksFor
    <3> HIDE DEF path
    <3>5. /\ m \in Asked /\ m.op = "folder" /\ m.path = path /\ m.at = 0
      BY <3>3, SeqEmpty DEF NoRequest, Asked
    <3> HIDE DEF m
    <3>6. Proper(r, m)
      BY <3>1, <3>4, <3>5, Actors DEF Proper, Segments
    <3> QED  BY <3>1, <3>5, <3>6 DEF StoreAsked
  <2> QED  BY <2>1, <2>2
<1>3. CASE SaveBody(r)
  <2>1. r \in Mails /\ Mail[r].token \in Texts \cup {""}
    BY <1>3, PipelineAssumption DEF SaveBody
  <2>2. CASE NoDriveStep
    BY <2>2 DEF NoDriveStep
  <2>3. CASE ~NoDriveStep
    <3>1. calls[r].pc = "done" /\ SaveFile(r, Root(calls[r].values, Mail[r].token), Correspondence, TRUE)
      BY <1>3, <2>3 DEF SaveBody
    <3>2. calls[r].values \in Data
      BY <1>1, <3>1, CallOf DEF CallFits
    <3>3. PICK root \in Texts \cup {""} : root = Root(calls[r].values, Mail[r].token)
      BY <2>1, <3>2, RootSegment
    <3>4. SaveFile(r, root, Correspondence, TRUE) /\ Correspondence \in Names
      BY <3>1, <3>3, PipelineAssumption
    <3> QED  BY <2>1, <3>4, SaveFileAsks DEF FileAsked, StoreAsked
  <2> QED  BY <2>2, <2>3
<1>4. CASE SaveAttachment(r)
  <2>1. CASE runs[r].files = <<>>
    BY <1>4, <2>1 DEF SaveAttachment, NoDriveStep
  <2>2. CASE runs[r].files # <<>>
    <3>1. SaveFile(r, Root(runs[r].data, Mail[r].token), Head(runs[r].files), FALSE)
          /\ runs[r].pc = "attach"
      BY <1>4, <2>2 DEF SaveAttachment, AttachmentReplaces
    <3>2. r \in Mails /\ Mail[r].token \in Texts \cup {""}
      BY <1>1, <3>1, PipelineAssumption DEF RunFits
    <3>3. runs[r].data \in Data /\ runs[r].files \in Seq(Names)
      BY <1>1 DEF Run
    <3>4. PICK root \in Texts \cup {""} : root = Root(runs[r].data, Mail[r].token)
      BY <3>2, <3>3, RootSegment
    <3>5. 1 \in DOMAIN runs[r].files /\ Head(runs[r].files) = runs[r].files[1]
          /\ Head(runs[r].files) \in Names
      BY <2>2, <3>3, HeadIs
    <3>6. PICK name \in Names : name = Head(runs[r].files)
      BY <3>5
    <3>7. name \in Range(Mail[r].attachments) /\ SaveFile(r, root, name, FALSE)
      BY <3>1, <3>2, <3>4, <3>5, <3>6 DEF AsksFor
    <3> QED  BY <3>2, <3>7, SaveFileAsks DEF FileAsked, StoreAsked
  <2> QED  BY <2>1, <2>2
<1>5. CASE ~CreateFolder(r) /\ ~SaveBody(r) /\ ~SaveAttachment(r)
  BY <1>5 DEF RunSteps, StartSignal, SaveSignal, ApplyTransition, StoreRefused, Notify,
              ProposeMail, StartMail, NoDriveStep
<1> QED  BY <1>2, <1>3, <1>4, <1>5

LEMMA FillAsks ==
    ASSUME NEW r \in Requests, StartFill(r)
    PROVE  StoreAsked(r) /\ UNCHANGED runs
<1>1. /\ r \in Fillers /\ Ask(r, Fill[r]) /\ UNCHANGED <<folders, files, homes, raced, runs>>
  BY DEF StartFill
<1>2. Fill[r] \in Request /\ Fill[r].op = "template" /\ Fill[r].at = 0 /\ Fill[r].content = ""
  BY <1>1, PipelineAssumption
<1>3. Fill[r] \in Asked
  <2>1. Seq(Names) \subseteq Seq(Names \cup {""})
    <3>1. ASSUME NEW s \in Seq(Names)  PROVE s \in Seq(Names \cup {""})
      <4>1. \A k \in DOMAIN s : s[k] \in Names
        BY SeqElim
      <4> QED  BY <4>1, SeqNarrow
    <3> QED  BY <3>1
  <2> QED  BY <1>2, <2>1 DEF Request, Asked
<1>4. Proper(r, Fill[r])
  BY <1>1, <1>2, Actors DEF Proper, Segments, Range
<1> QED  BY <1>1, <1>3, <1>4 DEF StoreAsked

-----------------------------------------------------------------------------
(* The files.                                                               *)

Holds(file, q) == file.name = q.name /\ file.folder = q.at /\ file.content = q.content

\* A file more, and everywhere but on Google Drive the only one of its name.
Posts(q, n) ==
    /\ n \notin DOMAIN files /\ DOMAIN files' = DOMAIN files \cup {n}
    /\ Holds(files'[n], q)
    /\ \A k \in DOMAIN files : files'[k] = files[k]
    /\ Provider # "google-drive" => FilesNamed(q.name, q.at) = {}

\* The files of its name and folder are its file now.
Overwrites(q) ==
    /\ Provider # "google-drive" /\ DOMAIN files' = DOMAIN files
    /\ \A k \in DOMAIN files : IF k \in FilesNamed(q.name, q.at) THEN Holds(files'[k], q)
                               ELSE files'[k] = files[k]
    /\ FilesNamed(q.name, q.at) # {}

\* The file it found has another content.
Patches(q) ==
    /\ DOMAIN files' = DOMAIN files
    /\ \A k \in DOMAIN files :
          /\ files'[k].name = files[k].name /\ files'[k].folder = files[k].folder
          /\ k # q.at => files'[k] = files[k]

LEMMA FilesGo ==
    ASSUME RequestsInv, NEW r \in Requests, DriveSteps(r)
    PROVE  \/ UNCHANGED files /\ ~UpdateFile(r) /\ ~Upload(r)
           \/ /\ requests[r].pc = "patch" /\ Patches(requests[r])
              /\ requests'[r].pc = "saved" /\ UNCHANGED <<folders, raced>>
           \/ /\ requests[r].pc = "upload" /\ (Overwrites(requests[r]) \/ \E n : Posts(requests[r], n))
              /\ requests'[r].pc = "saved" /\ UNCHANGED <<folders, raced>>
<1> DEFINE q == requests[r]
<1>1. /\ q \in Request /\ RequestFits(q) /\ files \in Seq(File)
  BY RequestOf DEF RequestsInv, DriveTypeOK
<1>2. Len(files) \in Nat /\ DOMAIN files = 1 .. Len(files) /\ \A k \in DOMAIN files : files[k] \in File
  BY <1>1, SeqElim
<1>3. ASSUME Answers(r, "saved")  PROVE requests'[r].pc = "saved"
  BY <1>1, <1>3 DEF Answers, Turns, RequestsInv, DriveTypeOK, Request
<1>4. CASE UpdateFile(r)
  <2>1. /\ q.pc = "patch" /\ files' = [files EXCEPT ![q.at].content = q.content]
        /\ Answers(r, "saved") /\ UNCHANGED <<folders, raced>>
    BY <1>4 DEF UpdateFile
  <2>2. Patches(q)
    BY <1>2, <2>1 DEF Patches, File
  <2> QED  BY <1>3, <2>1, <2>2
<1>5. CASE Upload(r)
  <2> DEFINE file == [name |-> q.name, folder |-> q.at, content |-> q.content]
             same == FilesNamed(q.name, q.at)
  <2>1. /\ q.pc = "upload" /\ Answers(r, "saved") /\ UNCHANGED <<folders, raced>>
        /\ files' = IF Provider = "sharepoint" THEN PutAtPath(file) ELSE Posted(file)
    BY <1>5 DEF Upload
  <2>2. Holds(file, q) /\ file.name = q.name /\ file.folder = q.at
    BY DEF Holds
  <2>3. file \in File
    BY <1>1, <2>1 DEF RequestFits, RequestSound, Request, File
  <2> HIDE DEF file
  <2>4. ASSUME files' = Append(files, file), Provider # "google-drive" => same = {}
        PROVE  \E n : Posts(q, n)
    <3>1. /\ DOMAIN files' = 1 .. Len(files) + 1 /\ files'[Len(files) + 1] = file
          /\ \A k \in 1 .. Len(files) : files'[k] = files[k]
      BY <1>1, <2>3, <2>4, AppendFacts
    <3>2. Posts(q, Len(files) + 1)
      BY <1>2, <2>2, <2>4, <3>1 DEF Posts
    <3> QED  BY <3>2
  <2>5. CASE Provider = "google-drive"
    BY <1>3, <2>1, <2>4, <2>5 DEF Posted
  <2>6. CASE Provider = "sharepoint"
    <3>1. files' = IF same = {} THEN Append(files, file)
                   ELSE [k \in DOMAIN files |-> IF k \in same THEN file ELSE files[k]]
      BY <2>1, <2>2, <2>6 DEF PutAtPath
    <3>2. CASE same = {}
      BY <1>3, <2>1, <2>4, <3>1, <3>2
    <3>3. CASE same # {}
      <4>1. Overwrites(q)
        BY <2>2, <2>6, <3>1, <3>3 DEF Overwrites
      <4> QED  BY <1>3, <2>1, <4>1
    <3> QED  BY <3>2, <3>3
  <2> QED  BY <2>5, <2>6, DriveAssumption
<1>6. CASE ~UpdateFile(r) /\ ~Upload(r)
  BY <1>6 DEF DriveSteps, Reach, SeekFolder, SeekFile, Download, FindFolder, MakeFolder,
              ReachFolder, FindFile, StoreFails
<1> QED  BY <1>4, <1>5, <1>6

\* Of the name a call replaces it has found a file.
PatchInv ==
    \A r \in Requests : requests[r].pc = "patch" =>
        requests[r].at \in DOMAIN files /\ files[requests[r].at].name = requests[r].name

\* Files are not renamed.
LEMMA NamesStay ==
    ASSUME RequestsInv, NEW r \in Requests, DriveSteps(r)
    PROVE  \A k \in DOMAIN files : k \in DOMAIN files' /\ files'[k].name = files[k].name
                                   /\ files'[k].folder = files[k].folder
<1>1. ASSUME UNCHANGED files
      PROVE  \A k \in DOMAIN files : k \in DOMAIN files' /\ files'[k].name = files[k].name
                                     /\ files'[k].folder = files[k].folder
  BY <1>1
<1>2. ASSUME Overwrites(requests[r]) \/ Patches(requests[r]) \/ \E n : Posts(requests[r], n)
      PROVE  \A k \in DOMAIN files : k \in DOMAIN files' /\ files'[k].name = files[k].name
                                     /\ files'[k].folder = files[k].folder
  BY <1>2 DEF Overwrites, Patches, Posts, Holds, FilesNamed
<1> QED  BY <1>1, <1>2, FilesGo

LEMMA PatchMoves ==
    ASSUME RequestsInv, PatchInv, NEW r \in Requests, DriveSteps(r)
    PROVE  PatchInv'
<1>1. \A p \in Requests \ {r} : requests'[p] = requests[p]
  BY DriveGoes
<1>2. ASSUME requests'[r].pc = "patch"
      PROVE  /\ requests'[r].at \in DOMAIN files'
             /\ files'[requests'[r].at].name = requests'[r].name
  <2> DEFINE q == requests[r]
  <2>1. q \in Request /\ \A m : Turns(r, m) => requests'[r] = m
    BY RequestOf DEF Turns, RequestsInv, DriveTypeOK
  <2>2. ASSUME NEW how, Answers(r, how)  PROVE how = "patch"
    BY <1>2, <2>1, <2>2 DEF Answers, Request
  <2>3. ~Reach(r) /\ ~ReachFolder(r) /\ ~UpdateFile(r) /\ ~Upload(r) /\ ~StoreFails(r)
    BY <2>2 DEF Reach, ReachFolder, UpdateFile, Upload, StoreFails, FirstOf, AfterWalk
  <2>4. ~FindFolder(r) /\ ~MakeFolder(r)
    <3>1. ASSUME NEW k, Enters(r, k)  PROVE FALSE
      BY <1>2, <2>1, <3>1 DEF Enters, Request
    <3> QED  BY <2>2, <3>1 DEF FindFolder, MakeFolder
  <2>5. ~SeekFolder(r)
    <3>1. ASSUME NEW k, Turns(r, [q EXCEPT !.at = k, !.source = Tail(q.source)]), q.pc = "seek"
          PROVE  FALSE
      <4> DEFINE m == [q EXCEPT !.at = k, !.source = Tail(q.source)]
      <4>1. m.pc = q.pc
        BY <2>1 DEF Request
      <4>2. Turns(r, m)
        BY <3>1
      <4> HIDE DEF m
      <4> QED  BY <1>2, <2>1, <3>1, <4>1, <4>2
    <3> QED  BY <2>2, <3>1 DEF SeekFolder
  <2>6. ~SeekFile(r) /\ ~Download(r)
    <3>1. ASSUME NEW m, Turns(r, m), m.pc # "patch"  PROVE FALSE
      BY <1>2, <2>1, <3>1
    <3>2. ASSUME NEW k, Turns(r, [q EXCEPT !.at = k, !.source = <<>>, !.pc = "download"])
          PROVE  FALSE
      <4> DEFINE m == [q EXCEPT !.at = k, !.source = <<>>, !.pc = "download"]
      <4>1. m.pc = "download" /\ Turns(r, m)
        BY <2>1, <3>2 DEF Request
      <4> HIDE DEF m
      <4> QED  BY <3>1, <4>1
    <3>3. ASSUME NEW c, Turns(r, [q EXCEPT !.pc = "walk", !.at = 0, !.content = c])
          PROVE  FALSE
      <4> DEFINE m == [q EXCEPT !.pc = "walk", !.at = 0, !.content = c]
      <4>1. m.pc = "walk" /\ Turns(r, m)
        BY <2>1, <3>3 DEF Request
      <4> HIDE DEF m
      <4> QED  BY <3>1, <4>1
    <3> QED  BY <2>2, <3>2, <3>3 DEF SeekFile, Download
  <2>7. FindFile(r)
    BY <2>3, <2>4, <2>5, <2>6 DEF DriveSteps
  <2>8. UNCHANGED files
    BY <2>7 DEF FindFile
  <2>9. PICK k \in FilesNamed(q.name, q.at) : Turns(r, [q EXCEPT !.pc = "patch", !.at = k])
    BY <2>2, <2>7 DEF FindFile
  <2> DEFINE m == [q EXCEPT !.pc = "patch", !.at = k]
  <2>10. m.at = k /\ m.name = q.name /\ requests'[r] = m
    BY <2>1, <2>9 DEF Request
  <2> HIDE DEF m
  <2> QED  BY <2>8, <2>9, <2>10 DEF FilesNamed
<1>3. ASSUME NEW p \in Requests, requests'[p].pc = "patch"
      PROVE  /\ requests'[p].at \in DOMAIN files'
             /\ files'[requests'[p].at].name = requests'[p].name
  BY <1>1, <1>2, <1>3, NamesStay DEF PatchInv
<1> QED  BY <1>3 DEF PatchInv

-----------------------------------------------------------------------------
(* What there is only when a template was populated.                        *)

\* A call has read and populated its template.
HasPopulated(q) == requests[q].content = Populated

OnlyPopulated ==
    /\ \A k \in DOMAIN folders :
          \/ folders[k].name \in RunFolders
          \/ \E q \in Fillers : HasPopulated(q) /\ folders[k].name \in Range(Fill[q].path)
    /\ \A f \in DOMAIN files \ DOMAIN Shelf :
          files[f].name \in Documents => \E q \in Fillers : HasPopulated(q)

LEMMA PopulatedMoves ==
    ASSUME RequestsInv, CallsFor, OnlyPopulated, NamesApart, NEW r \in Requests, DriveSteps(r)
    PROVE  OnlyPopulated'
<1> DEFINE q == requests[r]
<1>1. /\ q \in Request /\ RequestFits(q) /\ folders \in Seq(Folder) /\ CallFor(r, q)
  BY RequestOf DEF RequestsInv, DriveTypeOK, CallsFor
<1>2. CallGoes(q, requests'[r]) /\ \A p \in Requests \ {r} : requests'[p] = requests[p]
  BY DriveGoes
<1>3. \A p \in Fillers : HasPopulated(p) => HasPopulated(p)'
  BY <1>2, Actors DEF HasPopulated, CallGoes
<1>4. ASSUME NEW k \in DOMAIN folders'
      PROVE  \/ folders'[k].name \in RunFolders
             \/ \E p \in Fillers : HasPopulated(p)' /\ folders'[k].name \in Range(Fill[p].path)
  <2>1. CASE UNCHANGED folders
    BY <1>3, <1>4, <2>1 DEF OnlyPopulated
  <2>2. CASE MakeFolder(r)
    <3> DEFINE folder == [name |-> Head(q.left),
                          renamed |-> FoldersNamed(Head(q.left), q.at) # {} /\ Provider = "sharepoint",
                          parent |-> q.at]
    <3>1. q.pc = "mkdir" /\ folders' = Append(folders, folder)
      BY <2>2 DEF MakeFolder
    <3>2. q.left # <<>> /\ q.left \in Seq(Names)
      BY <1>1, <3>1 DEF RequestFits, RequestSound, Request
    <3>3. 1 \in DOMAIN q.left /\ Head(q.left) = q.left[1]
      BY <3>2, HeadIs
    <3>4. folder.name \in Segments(r)
      BY <1>1, <3>1, <3>3 DEF CallFor
    <3>5. DOMAIN folders' = DOMAIN folders \cup {Len(folders) + 1}
          /\ folders'[Len(folders) + 1] = folder
          /\ \A j \in DOMAIN folders : folders'[j] = folders[j]
      <4> HIDE DEF folder
      <4>1. /\ Len(folders) \in Nat /\ DOMAIN folders = 1 .. Len(folders)
        BY <1>1
      <4> QED  BY <1>1, <3>1, <4>1
    <3> HIDE DEF folder
    <3>6. CASE k \in DOMAIN folders
      BY <1>3, <3>5, <3>6 DEF OnlyPopulated
    <3>7. CASE k \notin DOMAIN folders
      <4>1. folders'[k] = folder
        BY <1>4, <3>5, <3>7
      <4>2. CASE r \in Fillers
        <5>1. HasPopulated(r)'
          BY <1>1, <1>3, <3>1, <4>2 DEF CallFor, HasPopulated
        <5> QED  BY <3>4, <4>1, <4>2, <5>1 DEF Segments
      <4> QED  BY <3>4, <4>1, <4>2 DEF Segments
    <3> QED  BY <3>6, <3>7
  <2>3. UNCHANGED folders \/ MakeFolder(r)
    BY DEF DriveSteps, Reach, SeekFolder, SeekFile, Download, FindFolder, ReachFolder,
           FindFile, UpdateFile, Upload, StoreFails
  <2> QED  BY <2>1, <2>2, <2>3
<1>5. ASSUME NEW f \in DOMAIN files' \ DOMAIN Shelf, files'[f].name \in Documents
      PROVE  \E p \in Fillers : HasPopulated(p)'
  <2>1. CASE f \in DOMAIN files
    BY <1>3, <1>5, <2>1, NamesStay DEF OnlyPopulated
  <2>2. CASE f \notin DOMAIN files
    <3>1. q.pc = "upload" /\ \E n : Posts(q, n)
      BY <1>5, <2>2, FilesGo DEF Overwrites, Patches
    <3>2. files'[f].name = q.name
      BY <1>5, <2>2, <3>1 DEF Posts, Holds
    <3>3. r \notin Signals /\ r \notin Mails
      BY <1>1, <1>5, <3>1, <3>2 DEF CallFor, NamesApart, Attached, RequestFits, RequestSound
    <3>4. r \in Fillers
      BY <3>3, PipelineAssumption DEF Runs
    <3>5. HasPopulated(r)'
      BY <1>1, <1>3, <3>1, <3>4 DEF CallFor, HasPopulated
    <3> QED  BY <3>4, <3>5
  <2> QED  BY <2>1, <2>2
<1> QED  BY <1>4, <1>5 DEF OnlyPopulated, RunFolders, HasPopulated

-----------------------------------------------------------------------------
(* The files of a name that is replaced.                                    *)

SameFile(p, q) ==
    p.pc = "upload" /\ q.pc = "upload" /\ p.name = q.name /\ p.at = q.at

ReplacedOnce ==
    /\ \A i, j \in DOMAIN files :
          /\ files[i].name \in Replaced \ raced
          /\ files[i].name = files[j].name /\ files[i].folder = files[j].folder
          => i = j
    /\ Provider = "google-drive" =>
          /\ \A r \in Requests :
                requests[r].pc = "upload" /\ requests[r].name \in Replaced \ raced
                    => FilesNamed(requests[r].name, requests[r].at) = {}
          /\ \A p, r \in Requests :
                p # r /\ SameFile(requests[p], requests[r]) /\ requests[r].name \in Replaced
                    => requests[r].name \in raced

\* The calls that save a name that is replaced replace it.
LEMMA ReplacesIt ==
    ASSUME NamesApart, NEW r \in Requests, NEW q, CallFor(r, q), q.pc # "idle", q.op # "folder",
           q.name \in Replaced
    PROVE  q.replace
<1>1. r \in Signals \/ r \in Mails \/ r \in Fillers
  <2>1. Requests = Runs \cup Fillers
    BY PipelineAssumption
  <2> QED  BY <2>1 DEF Runs
<1>2. CASE r \in Mails
  <2>1. Replaced \subseteq {Correspondence} \cup Documents
    BY DEF Replaced, Documents
  <2>2. Replaced \cap Attached = {}
    BY <2>1 DEF NamesApart
  <2>3. Range(Mail[r].attachments) \subseteq Attached
    BY <1>2 DEF Attached
  <2> QED  BY <1>2, <2>2, <2>3 DEF CallFor
<1>3. CASE r \in Fillers
  BY <1>3 DEF CallFor, NamesApart, Attached, Replaced, Documents
<1>4. CASE r \in Signals
  BY <1>4 DEF CallFor
<1> QED  BY <1>1, <1>2, <1>3, <1>4

LEMMA ReplacedMoves ==
    ASSUME RequestsInv, CallsFor, ReplacedOnce, NamesApart, NEW r \in Requests, DriveSteps(r)
    PROVE  ReplacedOnce'
<1> DEFINE q == requests[r]
<1>1. /\ q \in Request /\ RequestFits(q) /\ CallFor(r, q)
  BY RequestOf DEF CallsFor
<1>2. CallGoes(q, requests'[r]) /\ \A p \in Requests \ {r} : requests'[p] = requests[p]
  BY DriveGoes
<1>3. raced \subseteq raced'
  BY DEF DriveSteps, Reach, SeekFolder, SeekFile, Download, FindFolder, MakeFolder,
         ReachFolder, FindFile, UpdateFile, Upload, StoreFails
<1>4. UNCHANGED Replaced
  BY DEF Replaced
\* The files stay, or one has another content.
<1>5. ASSUME UNCHANGED files \/ Patches(q)
      PROVE  /\ \A i, j \in DOMAIN files' :
                   /\ files'[i].name \in Replaced \ raced'
                   /\ files'[i].name = files'[j].name /\ files'[i].folder = files'[j].folder
                   => i = j
             /\ \A name, folder : FilesNamed(name, folder)' = FilesNamed(name, folder)
  BY <1>3, <1>5 DEF ReplacedOnce, Patches, FilesNamed
<1>6. CASE (UNCHANGED files \/ Patches(q)) /\ requests'[r].pc # "upload"
  BY <1>2, <1>3, <1>4, <1>5, <1>6 DEF ReplacedOnce, SameFile
<1>7. CASE (UNCHANGED files \/ Patches(q)) /\ requests'[r].pc = "upload"
  <2> DEFINE m == [q EXCEPT !.pc = "upload"]
  <2>1. \/ q.pc = "upload"
        \/ FindFile(r) /\ FilesNamed(q.name, q.at) = {} /\ Answers(r, "upload")
        \/ ReachFolder(r) /\ Answers(r, AfterWalk(q))
    <3>1. \A n : Turns(r, n) => requests'[r] = n
      BY DEF Turns, RequestsInv, DriveTypeOK
    <3>2. ASSUME NEW how, Answers(r, how)  PROVE how = "upload"
      BY <1>1, <1>7, <3>1, <3>2 DEF Answers, Request
    <3>3. ~Reach(r) /\ ~UpdateFile(r) /\ ~Upload(r) /\ ~StoreFails(r)
      BY <3>2 DEF Reach, UpdateFile, Upload, StoreFails, FirstOf
    <3>4. ASSUME NEW n, Turns(r, n), n.pc # "upload"  PROVE FALSE
      BY <1>7, <3>1, <3>4
    <3>5. ~FindFolder(r) /\ ~MakeFolder(r)
      <4>1. ASSUME NEW k, Enters(r, k)  PROVE FALSE
        BY <1>1, <1>7, <3>1, <4>1 DEF Enters, Request
      <4> QED  BY <3>2, <4>1 DEF FindFolder, MakeFolder
    <3>6. ~SeekFolder(r)
      <4>1. ASSUME NEW k, Turns(r, [q EXCEPT !.at = k, !.source = Tail(q.source)]), q.pc = "seek"
            PROVE  FALSE
        <5> DEFINE n == [q EXCEPT !.at = k, !.source = Tail(q.source)]
        <5>1. n.pc = q.pc
          BY <1>1 DEF Request
        <5>2. Turns(r, n)
          BY <4>1
        <5> HIDE DEF n
        <5> QED  BY <3>4, <4>1, <5>1, <5>2
      <4> QED  BY <3>2, <4>1 DEF SeekFolder
    <3>7. ~SeekFile(r) /\ ~Download(r)
      <4>1. ASSUME NEW k, Turns(r, [q EXCEPT !.at = k, !.source = <<>>, !.pc = "download"])
            PROVE  FALSE
        <5> DEFINE n == [q EXCEPT !.at = k, !.source = <<>>, !.pc = "download"]
        <5>1. n.pc = "download" /\ Turns(r, n)
          BY <1>1, <4>1 DEF Request
        <5> HIDE DEF n
        <5> QED  BY <3>4, <5>1
      <4>2. ASSUME NEW c, Turns(r, [q EXCEPT !.pc = "walk", !.at = 0, !.content = c])
            PROVE  FALSE
        <5> DEFINE n == [q EXCEPT !.pc = "walk", !.at = 0, !.content = c]
        <5>1. n.pc = "walk" /\ Turns(r, n)
          BY <1>1, <4>2 DEF Request
        <5> HIDE DEF n
        <5> QED  BY <3>4, <5>1
      <4> QED  BY <3>2, <4>1, <4>2 DEF SeekFile, Download
    <3>8. FindFile(r) => FilesNamed(q.name, q.at) = {} /\ Answers(r, "upload")
      <4>1. ASSUME NEW k, Turns(r, [q EXCEPT !.pc = "patch", !.at = k])  PROVE FALSE
        <5> DEFINE n == [q EXCEPT !.pc = "patch", !.at = k]
        <5>1. n.pc = "patch" /\ Turns(r, n)
          BY <1>1, <4>1 DEF Request
        <5> HIDE DEF n
        <5> QED  BY <3>4, <5>1
      <4> QED  BY <4>1 DEF FindFile
    <3> QED  BY <3>3, <3>5, <3>6, <3>7, <3>8 DEF DriveSteps, ReachFolder
  <2>2. CASE q.pc = "upload"
    <3>1. FALSE
      <4>1. Upload(r) \/ StoreFails(r)
        BY <2>2 DEF DriveSteps, Reach, SeekFolder, SeekFile, Download, FindFolder, MakeFolder,
                    ReachFolder, FindFile, UpdateFile
      <4>2. \A n : Turns(r, n) => requests'[r] = n
        BY DEF Turns, RequestsInv, DriveTypeOK
      <4>3. ASSUME NEW how, Answers(r, how)  PROVE requests'[r].pc = how
        BY <1>1, <4>2, <4>3 DEF Answers, Request
      <4> QED  BY <1>7, <4>1, <4>3 DEF Upload, StoreFails
    <3> QED  BY <3>1
  <2>3. ASSUME Answers(r, "upload")
        PROVE  requests'[r].name = q.name /\ requests'[r].at = q.at /\ requests'[r].pc = "upload"
    <3>1. requests'[r] = m
      BY <2>3 DEF Answers, Turns, RequestsInv, DriveTypeOK
    <3> QED  BY <1>1, <3>1 DEF Request
  <2>4. CASE FindFile(r) /\ FilesNamed(q.name, q.at) = {} /\ Answers(r, "upload")
    <3>1. raced' = raced \cup
             {n \in {q.name} : \E p \in Requests \ {r} :
                 /\ requests[p].pc = "upload" /\ requests[p].replace
                 /\ requests[p].name = n /\ requests[p].at = q.at}
      <4>1. ~\E k \in FilesNamed(q.name, q.at) : Turns(r, [q EXCEPT !.pc = "patch", !.at = k])
        BY <2>4
      <4> QED  BY <2>4, <4>1 DEF FindFile
    <3>2. ASSUME NEW p \in Requests \ {r}, SameFile(requests[p], requests'[r]),
                 q.name \in Replaced
          PROVE  q.name \in raced'
      <4>1. requests[p].pc = "upload" /\ requests[p].name = q.name /\ requests[p].at = q.at
        BY <2>3, <2>4, <3>2 DEF SameFile
      <4>2. CallFor(p, requests[p]) /\ requests[p].op # "folder"
        BY <4>1, RequestOf DEF CallsFor, RequestFits, RequestSound
      <4>3. requests[p].replace
        BY <3>2, <4>1, <4>2, ReplacesIt
      <4> QED  BY <3>1, <4>1, <4>3
    <3>3. \A p \in Requests \ {r} : SameFile(requests'[r], requests[p]) => SameFile(requests[p], requests'[r])
      BY DEF SameFile
    <3> QED  BY <1>2, <1>3, <1>4, <1>5, <1>7, <2>3, <2>4, <3>2, <3>3 DEF ReplacedOnce, SameFile
  <2>5. CASE ReachFolder(r) /\ Answers(r, AfterWalk(q))
    <3>1. AfterWalk(q) = "upload"
      <4>1. requests'[r] = [q EXCEPT !.pc = AfterWalk(q)]
        BY <2>5 DEF Answers, Turns, RequestsInv, DriveTypeOK
      <4> QED  BY <1>1, <1>7, <4>1 DEF Request
    <3>2. requests'[r].name = q.name /\ requests'[r].at = q.at
      BY <2>3, <2>5, <3>1
    <3>3. Provider = "google-drive" => q.op # "folder" /\ ~q.replace
      BY <3>1 DEF AfterWalk
    <3>4. q.pc = "walk"
      BY <2>5 DEF ReachFolder
    <3>5. Provider = "google-drive" => q.name \notin Replaced
      BY <1>1, <3>3, <3>4, ReplacesIt
    <3> QED  BY <1>2, <1>3, <1>4, <1>5, <1>7, <3>2, <3>5 DEF ReplacedOnce, SameFile
  <2> QED  BY <2>1, <2>2, <2>4, <2>5
<1>8. CASE Overwrites(q) /\ requests'[r].pc = "saved" /\ UNCHANGED raced
  <2>1. \A k \in DOMAIN files : files'[k].name = files[k].name /\ files'[k].folder = files[k].folder
    BY NamesStay
  <2>2. DOMAIN files' = DOMAIN files /\ Provider # "google-drive"
    BY <1>8 DEF Overwrites
  <2> QED  BY <1>4, <1>8, <2>1, <2>2 DEF ReplacedOnce
<1>9. ASSUME NEW n, Posts(q, n), q.pc = "upload", requests'[r].pc = "saved", UNCHANGED raced
      PROVE  ReplacedOnce'
  <2>1. /\ n \notin DOMAIN files /\ DOMAIN files' = DOMAIN files \cup {n}
        /\ files'[n].name = q.name /\ files'[n].folder = q.at
        /\ \A k \in DOMAIN files : files'[k] = files[k]
    BY <1>9 DEF Posts, Holds
  <2>2. q.name \in Replaced \ raced => FilesNamed(q.name, q.at) = {}
    BY <1>9 DEF Posts, ReplacedOnce
  <2>3. ASSUME NEW i \in DOMAIN files', NEW j \in DOMAIN files',
               files'[i].name \in Replaced \ raced,
               files'[i].name = files'[j].name, files'[i].folder = files'[j].folder
        PROVE  i = j
    <3>1. CASE i \in DOMAIN files /\ j \in DOMAIN files
      BY <2>1, <2>3, <3>1 DEF ReplacedOnce
    <3>2. CASE i = n /\ j \in DOMAIN files
      BY <2>1, <2>2, <2>3, <3>2 DEF FilesNamed
    <3>3. CASE j = n /\ i \in DOMAIN files
      BY <2>1, <2>2, <2>3, <3>3 DEF FilesNamed
    <3> QED  BY <2>1, <2>3, <3>1, <3>2, <3>3
  <2>4. ASSUME NEW p \in Requests, requests'[p].pc = "upload",
               requests'[p].name \in Replaced \ raced, Provider = "google-drive"
        PROVE  (FilesNamed(requests[p].name, requests[p].at) = {})'
    <3>1. p # r /\ requests'[p] = requests[p]
      BY <1>2, <1>9, <2>4
    <3>2. ~SameFile(requests[p], q)
      BY <2>4, <3>1 DEF ReplacedOnce, SameFile
    <3>3. requests[p].name # q.name \/ requests[p].at # q.at
      BY <1>9, <2>4, <3>1, <3>2 DEF SameFile
    <3>4. FilesNamed(requests[p].name, requests[p].at) = {}
      BY <2>4, <3>1 DEF ReplacedOnce
    <3>5. PICK name, at : name = requests[p].name /\ at = requests[p].at
      OBVIOUS
    <3>6. ASSUME NEW k \in DOMAIN files', files'[k].name = name, files'[k].folder = at
          PROVE  FALSE
      <4>1. k # n
        BY <2>1, <3>3, <3>5, <3>6
      <4>2. k \in DOMAIN files /\ files[k].name = name /\ files[k].folder = at
        BY <2>1, <3>6, <4>1
      <4> QED  BY <3>4, <3>5, <4>2 DEF FilesNamed
    <3>7. FilesNamed(name, at)' = {}
      BY <3>6 DEF FilesNamed
    <3> QED  BY <3>1, <3>5, <3>7
  <2>5. ASSUME NEW p \in Requests, NEW d \in Requests, p # d,
               SameFile(requests'[p], requests'[d]), requests'[d].name \in Replaced,
               Provider = "google-drive"
        PROVE  requests'[d].name \in raced'
    <3>1. p # r /\ d # r /\ requests'[p] = requests[p] /\ requests'[d] = requests[d]
      BY <1>2, <1>9, <2>5 DEF SameFile
    <3> QED  BY <1>9, <2>5, <3>1 DEF ReplacedOnce
  <2>6. (\A i, j \in DOMAIN files :
            /\ files[i].name \in Replaced \ raced
            /\ files[i].name = files[j].name /\ files[i].folder = files[j].folder
            => i = j)'
    BY <1>4, <1>9, <2>3
  <2>7. (\A p \in Requests :
            Provider = "google-drive" /\ requests[p].pc = "upload"
                /\ requests[p].name \in Replaced \ raced
                => FilesNamed(requests[p].name, requests[p].at) = {})'
    BY <1>4, <1>9, <2>4
  <2>8. (\A p, d \in Requests :
            Provider = "google-drive" /\ p # d /\ SameFile(requests[p], requests[d])
                /\ requests[d].name \in Replaced => requests[d].name \in raced)'
    BY <1>4, <2>5 DEF SameFile
  <2> QED  BY <2>6, <2>7, <2>8 DEF ReplacedOnce
<1> QED  BY <1>6, <1>7, <1>8, <1>9, FilesGo

-----------------------------------------------------------------------------
(* The attachments.                                                         *)

Archived(r, n) == \E f \in DOMAIN files : files[f].name = n /\ files[f].content = r

\* The attachment is there, or is still to be asked for, or has been asked for
\* and is on its way, or the call was refused.
Coming(r, n) ==
    \/ Archived(r, n)
    \/ \E k \in DOMAIN runs[r].files : runs[r].files[k] = n
    \/ requests[r].pc = "refused"
    \/ /\ requests[r].pc \notin {"idle", "saved"}
       /\ ~requests[r].replace /\ requests[r].name = n

AttachInv ==
    \A r \in Mails :
        /\ runs[r].pc = "attach" => \A n \in Range(Mail[r].attachments) : Coming(r, n)
        /\ runs[r].status = "COMPLETED" => \A n \in Range(Mail[r].attachments) : Archived(r, n)

\* No call writes over an attachment, but to save the same again.
LEMMA ArchivedStays ==
    ASSUME RequestsInv, CallsFor, PatchInv, NamesApart, NEW r \in Requests, DriveSteps(r),
           NEW m \in Mails, NEW n \in Range(Mail[m].attachments), Archived(m, n)
    PROVE  Archived(m, n)'
<1> DEFINE q == requests[r]
<1>1. q \in Request /\ RequestFits(q) /\ CallFor(r, q)
  BY RequestOf DEF CallsFor
<1>2. PICK f \in DOMAIN files : files[f].name = n /\ files[f].content = m
  BY DEF Archived
<1>3. n \in Attached /\ n # Correspondence /\ n \notin Documents
  BY DEF NamesApart, Attached
\* A call of the same name is an e-mail's for its attachment.
<1>4. ASSUME q.pc \in {"patch", "upload"}, q.name = n
      PROVE  r \in Mails /\ ~q.replace /\ n \in Range(Mail[r].attachments) /\ q.content = r
  <2>1. r \notin Signals
    BY <1>1, <1>4 DEF CallFor, RequestFits, RequestSound
  <2>2. r \notin Fillers
    BY <1>1, <1>3, <1>4 DEF CallFor, Documents
  <2>3. r \in Mails
    <3>1. Requests = Runs \cup Fillers
      BY PipelineAssumption
    <3> QED  BY <2>1, <2>2, <3>1 DEF Runs
  <2> QED  BY <1>1, <1>3, <1>4, <2>3 DEF CallFor
<1>5. CASE UNCHANGED files
  BY <1>2, <1>5 DEF Archived
<1>6. CASE q.pc = "patch" /\ Patches(q)
  <2>1. q.at \in DOMAIN files /\ files[q.at].name = q.name /\ q.replace
    BY <1>1, <1>6 DEF PatchInv, CallFor
  <2>2. f # q.at
    BY <1>2, <1>4, <1>6, <2>1
  <2> QED  BY <1>2, <1>6, <2>2 DEF Patches, Archived
<1>7. CASE q.pc = "upload" /\ Overwrites(q)
  <2>1. CASE f \in FilesNamed(q.name, q.at)
    <3>1. q.name = n
      BY <1>2, <2>1 DEF FilesNamed
    <3>2. r \in Mails /\ n \in Range(Mail[r].attachments) /\ q.content = r
      BY <1>4, <1>7, <3>1
    <3>3. r = m
      BY <1>7, <3>2 DEF NamesApart, Overwrites
    <3>4. f \in DOMAIN files' /\ files'[f].name = n /\ files'[f].content = m
      BY <1>7, <2>1, <3>1, <3>2, <3>3 DEF Overwrites, Holds
    <3> QED  BY <3>4 DEF Archived
  <2>2. CASE f \notin FilesNamed(q.name, q.at)
    BY <1>2, <1>7, <2>2 DEF Overwrites, Archived
  <2> QED  BY <2>1, <2>2
<1>8. CASE \E k : Posts(q, k)
  BY <1>2, <1>8 DEF Posts, Archived
<1> QED  BY <1>5, <1>6, <1>7, <1>8, FilesGo

\* The call that saved an attachment has left it there.
LEMMA SavedIsThere ==
    ASSUME RequestsInv, CallsFor, NEW r \in Mails, DriveSteps(r), ~requests[r].replace,
           requests'[r].pc = "saved", NEW n, n = requests[r].name
    PROVE  Archived(r, n)'
<1> DEFINE q == requests[r]
<1>1. r \in Requests
  BY Actors, PipelineAssumption DEF Runs
<1>2. q \in Request /\ CallFor(r, q) /\ CallGoes(q, requests'[r])
  BY <1>1, RequestOf, DriveGoes DEF CallsFor
<1>3. q.pc # "idle" /\ q.pc = "upload" /\ q.content = r
  BY <1>2 DEF CallFor, CallGoes
<1>4. Upload(r)
  <2>1. ASSUME StoreFails(r)  PROVE FALSE
    <3>1. requests'[r] = [q EXCEPT !.pc = "refused"]
      BY <1>1, <2>1 DEF StoreFails, Answers, Turns, RequestsInv, DriveTypeOK
    <3> QED  BY <1>2, <3>1 DEF Request
  <2> QED  BY <1>3, <2>1 DEF DriveSteps, Reach, SeekFolder, SeekFile, Download, FindFolder,
                             MakeFolder, ReachFolder, FindFile, UpdateFile
<1>5. CASE Overwrites(q)
  <2>1. PICK k \in FilesNamed(q.name, q.at) : TRUE
    BY <1>5 DEF Overwrites
  <2>2. k \in DOMAIN files' /\ Holds(files'[k], q)
    BY <1>5, <2>1 DEF Overwrites, FilesNamed
  <2> QED  BY <1>3, <2>2 DEF Holds, Archived
<1>6. CASE \E k : Posts(q, k)
  <2>1. PICK k : Posts(q, k)
    BY <1>6
  <2>2. k \in DOMAIN files' /\ files'[k].name = q.name /\ files'[k].content = r
    BY <1>3, <2>1 DEF Posts, Holds
  <2> QED  BY <2>2 DEF Archived
<1> QED  BY <1>1, <1>3, <1>4, <1>5, <1>6, FilesGo

LEMMA AttachMoves ==
    ASSUME RequestsInv, CallsFor, PatchInv, AttachInv, NamesApart, NEW r \in Requests,
           DriveSteps(r), UNCHANGED runs
    PROVE  AttachInv'
<1>1. CallGoes(requests[r], requests'[r]) /\ \A p \in Requests \ {r} : requests'[p] = requests[p]
  BY DriveGoes
<1>2. ASSUME NEW m \in Mails, NEW n \in Range(Mail[m].attachments), Coming(m, n)
      PROVE  Coming(m, n)'
  <2>1. m \in Requests
    BY Actors, PipelineAssumption DEF Runs
  <2>2. CASE Archived(m, n)
    BY <1>2, <2>2, ArchivedStays DEF Coming
  <2>3. CASE \E k \in DOMAIN runs[m].files : runs[m].files[k] = n
    BY <2>3 DEF Coming
  <2>4. CASE m # r
    BY <1>1, <1>2, <2>1, <2>2, <2>4 DEF Coming
  <2>5. CASE m = r /\ requests[r].pc = "refused"
    BY <1>1, <2>5 DEF CallGoes
  <2>6. CASE m = r /\ ~requests[r].replace /\ requests[r].name = n
    <3>1. requests'[m].replace = requests[r].replace /\ requests'[m].name = n
          /\ requests'[m].pc # "idle"
      BY <1>1, <2>6 DEF CallGoes
    <3>2. CASE requests'[m].pc = "saved"
      <4>1. Archived(m, n)'
        BY <2>6, <3>2, SavedIsThere
      <4> QED  BY <4>1 DEF Coming
    <3> QED  BY <2>6, <3>1, <3>2 DEF Coming
  <2> QED  BY <1>2, <2>2, <2>3, <2>4, <2>5, <2>6 DEF Coming
<1>3. ASSUME NEW m \in Mails, NEW n \in Range(Mail[m].attachments), Archived(m, n)
      PROVE  Archived(m, n)'
  BY <1>3, ArchivedStays
<1> QED  BY <1>2, <1>3 DEF AttachInv

\* An e-mail's run goes from one attachment to the next.
LEMMA MailGoes ==
    ASSUME PipelinesInv, NEW r \in Mails, RunSteps(r)
    PROVE  \/ runs'[r].pc # "attach" /\ runs'[r].status # "COMPLETED" /\ UNCHANGED files
           \/ /\ UNCHANGED driveVars /\ runs'[r].pc = "over"
              /\ runs[r].pc = "attach" /\ requests[r].pc = "saved" /\ runs[r].files = <<>>
           \/ /\ runs[r].pc = "attach" /\ requests[r].pc = "saved" /\ runs[r].files # <<>>
              /\ runs'[r].files = Tail(runs[r].files) /\ runs'[r].status # "COMPLETED"
              /\ SaveFile(r, Root(runs[r].data, Mail[r].token), Head(runs[r].files), FALSE)
           \/ /\ runs'[r].files = Mail[r].attachments /\ runs'[r].status # "COMPLETED"
              /\ UNCHANGED files
<1>1. r \in Runs /\ r \notin Signals
  BY Actors DEF Runs
<1>2. runs[r] \in Run /\ RunFits(r) /\ runs \in [Runs -> Run]
  BY <1>1, RunOf DEF PipelinesInv, RunsInv
<1>3. ASSUME NEW run, Becomes(r, run)  PROVE runs'[r] = run
  BY <1>1, <1>2, <1>3 DEF Becomes
<1>4. ASSUME NEW status, Settles(r, status)
      PROVE  runs'[r].pc = "over" /\ runs'[r].status = status
  <2>1. runs'[r] = [runs[r] EXCEPT !.pc = "over", !.status = status]
    BY <1>3, <1>4 DEF Settles
  <2> QED  BY <1>2, <2>1 DEF Run
<1>5. StartMail(r) \/ SaveBody(r) \/ SaveAttachment(r) \/ StoreRefused(r)
  BY <1>1, <1>2 DEF RunSteps, StartSignal, SaveSignal, ApplyTransition, CreateFolder, Notify,
                    ProposeMail, RunFits
<1>6. runs[r].pc # "over" => runs[r].status # "COMPLETED"
  BY <1>2 DEF RunFits
<1>7. CASE StartMail(r)
  <2>1. ASSUME Becomes(r, [runs[r] EXCEPT !.pc = "lookup"])
        PROVE  runs'[r].pc = "lookup" /\ runs'[r].status = runs[r].status
    <3>1. runs'[r] = [runs[r] EXCEPT !.pc = "lookup"]
      BY <1>3, <2>1
    <3> QED  BY <1>2, <3>1 DEF Run
  <2>2. UNCHANGED files /\ runs[r].pc = "new"
    BY <1>7 DEF StartMail, NoDriveStep, driveVars
  <2>3. \/ Becomes(r, [runs[r] EXCEPT !.pc = "lookup"])
        \/ Settles(r, "FAILED")
    BY <1>7 DEF StartMail, Find, Fail
  <2> QED  BY <1>4, <1>6, <2>1, <2>2, <2>3
<1>8. CASE StoreRefused(r)
  BY <1>4, <1>8 DEF StoreRefused, NoDriveStep, driveVars
<1>9. CASE SaveBody(r)
  <2> DEFINE run == [runs[r] EXCEPT !.pc = "attach", !.data = calls[r].values,
                                    !.files = Mail[r].attachments]
  <2>1. run.files = Mail[r].attachments /\ run.status = runs[r].status
    BY <1>2 DEF Run
  <2>2. \/ Settles(r, "FAILED") /\ NoDriveStep
        \/ Becomes(r, run) /\ UNCHANGED files
    BY <1>9 DEF SaveBody, SaveFile
  <2>3. runs[r].pc = "lookup"
    BY <1>9 DEF SaveBody
  <2> HIDE DEF run
  <2>4. CASE Settles(r, "FAILED") /\ NoDriveStep
    <3>1. UNCHANGED files
      BY <2>4 DEF NoDriveStep, driveVars
    <3>2. runs'[r].pc = "over" /\ runs'[r].status = "FAILED"
      BY <1>4, <2>4
    <3> QED  BY <3>1, <3>2
  <2>5. CASE Becomes(r, run) /\ UNCHANGED files
    BY <1>3, <1>6, <2>1, <2>3, <2>5
  <2> QED  BY <2>2, <2>4, <2>5
<1>10. CASE SaveAttachment(r)
  <2>1. CASE runs[r].files = <<>>
    BY <1>4, <1>10, <2>1 DEF SaveAttachment, NoDriveStep
  <2>2. CASE runs[r].files # <<>>
    <3> DEFINE run == [runs[r] EXCEPT !.files = Tail(runs[r].files)]
    <3>1. run.files = Tail(runs[r].files) /\ run.status = runs[r].status
      BY <1>2 DEF Run
    <3>2. Becomes(r, run)
      BY <1>10, <2>2 DEF SaveAttachment
    <3> HIDE DEF run
    <3> QED  BY <1>3, <1>6, <1>10, <2>2, <3>1, <3>2 DEF SaveAttachment, AttachmentReplaces
  <2> QED  BY <2>1, <2>2
<1> QED  BY <1>5, <1>7, <1>8, <1>9, <1>10

LEMMA TailHas ==
    ASSUME NEW S, NEW s \in Seq(S), s # <<>>, NEW k \in DOMAIN s, k # 1
    PROVE  k - 1 \in DOMAIN Tail(s) /\ Tail(s)[k - 1] = s[k]
OBVIOUS

LEMMA AttachGoes ==
    ASSUME PipelinesInv, \A p \in Runs : AsksFor(p), AttachInv, NEW r \in Runs, RunSteps(r)
    PROVE  AttachInv'
<1>1. /\ \A q \in Runs \ {r} : runs'[q] = runs[q]
      /\ RequestsInv /\ \A q \in Runs : q \in Requests
  BY RunGoes, Actors, PipelineAssumption DEF PipelinesInv
<1>2. UNCHANGED files /\ \A q \in Requests \ {r} : requests'[q] = requests[q]
  <2>1. CASE UNCHANGED driveVars
    BY <2>1 DEF driveVars
  <2>2. CASE StoreAsked(r)
    BY <1>1, <2>2, AskTurns DEF StoreAsked
  <2> QED  BY <2>1, <2>2, RunAsks
<1>3. \A q, n : Archived(q, n)' <=> Archived(q, n)
  BY <1>2 DEF Archived
<1>4. ASSUME NEW m \in Mails, m # r
      PROVE  /\ runs'[m].pc = "attach" => \A n \in Range(Mail[m].attachments) : Coming(m, n)'
             /\ runs'[m].status = "COMPLETED"
                   => \A n \in Range(Mail[m].attachments) : Archived(m, n)'
  <2>1. m \in Runs /\ runs'[m] = runs[m] /\ requests'[m] = requests[m]
    BY <1>1, <1>2, <1>4 DEF Runs
  <2> QED  BY <1>3, <2>1 DEF AttachInv, Coming
<1>5. ASSUME r \in Mails
      PROVE  /\ runs'[r].pc = "attach" => \A n \in Range(Mail[r].attachments) : Coming(r, n)'
             /\ runs'[r].status = "COMPLETED"
                   => \A n \in Range(Mail[r].attachments) : Archived(r, n)'
  <2>1. CASE runs'[r].pc # "attach" /\ runs'[r].status # "COMPLETED"
    BY <2>1
  <2>2. CASE /\ runs'[r].pc = "over" /\ runs[r].pc = "attach" /\ requests[r].pc = "saved"
             /\ runs[r].files = <<>>
    <3>1. \A n \in Range(Mail[r].attachments) : Archived(r, n)
      BY <1>5, <2>2 DEF AttachInv, Coming
    <3> QED  BY <1>3, <2>2, <3>1
  <2>3. CASE /\ runs[r].pc = "attach" /\ requests[r].pc = "saved" /\ runs[r].files # <<>>
             /\ runs'[r].files = Tail(runs[r].files) /\ runs'[r].status # "COMPLETED"
             /\ SaveFile(r, Root(runs[r].data, Mail[r].token), Head(runs[r].files), FALSE)
    <3> SUFFICES ASSUME NEW n \in Range(Mail[r].attachments)  PROVE Coming(r, n)'
      BY <2>3
    <3>1. Coming(r, n)
      BY <1>5, <2>3 DEF AttachInv
    <3>2. CASE Archived(r, n)
      BY <1>3, <3>2 DEF Coming
    <3>3. CASE \E k \in DOMAIN runs[r].files : runs[r].files[k] = n
      <4>1. runs[r].files \in Seq(Names) /\ AsksFor(r) /\ runs[r].data \in Data
        BY RunOf DEF Run, PipelinesInv
      <4>2. PICK files0 \in Seq(Names) : files0 = runs[r].files
        BY <4>1
      <4>3. PICK k \in DOMAIN files0 : files0[k] = n
        BY <3>3, <4>2
      <4>4. CASE k = 1
        <5>1. Head(files0) = n /\ n \in Names
          BY <2>3, <4>2, <4>3, <4>4, HeadIs
        <5>2. Mail[r].token \in Texts \cup {""}
          BY <1>5, PipelineAssumption
        <5>3. PICK root \in Texts \cup {""} : root = Root(runs[r].data, Mail[r].token)
          BY <4>1, <5>2, RootSegment
        <5>4. PICK replace \in BOOLEAN : replace = FALSE
          OBVIOUS
        <5>5. SaveFile(r, root, n, replace)
          BY <2>3, <4>2, <5>1, <5>3, <5>4
        <5>6. FileAsked(r, n, replace)
          <6>1. \/ replace /\ n = Correspondence
                \/ ~replace /\ n \in Range(Mail[r].attachments)
            BY <5>4
          <6> QED  BY <1>5, <5>1, <5>5, <6>1, SaveFileAsks
        <5>7. PICK m \in Asked : Ask(r, m) /\ m.name = n /\ m.replace = replace
          BY <5>6 DEF FileAsked
        <5>8. r \in Requests
          BY <1>1
        <5>9. PICK q \in Request :
                 /\ requests'[r] = q /\ q.name = m.name /\ q.replace = m.replace
                 /\ q.pc \in {"access", "refused"}
          BY <1>1, <5>7, <5>8, AskTurns
        <5> QED  BY <5>4, <5>7, <5>9 DEF Coming
      <4>5. CASE k # 1
        <5>1. k - 1 \in DOMAIN Tail(files0) /\ Tail(files0)[k - 1] = n
          BY <2>3, <4>2, <4>3, <4>5, TailHas
        <5>2. PICK j \in DOMAIN Tail(files0) : Tail(files0)[j] = n
          BY <5>1
        <5>3. j \in DOMAIN runs'[r].files /\ runs'[r].files[j] = n
          BY <2>3, <4>2, <5>2
        <5> QED  BY <5>3 DEF Coming
      <4> QED  BY <4>4, <4>5
    <3> QED  BY <2>3, <3>1, <3>2, <3>3 DEF Coming
  <2>4. CASE runs'[r].files = Mail[r].attachments /\ runs'[r].status # "COMPLETED"
    <3>1. ASSUME NEW n \in Range(Mail[r].attachments)  PROVE Coming(r, n)'
      <4>1. \E k \in DOMAIN runs'[r].files : runs'[r].files[k] = n
        BY <2>4, <3>1 DEF Range
      <4> QED  BY <4>1 DEF Coming
    <3> QED  BY <2>4, <3>1
  <2> QED  BY <1>5, <2>1, <2>2, <2>3, <2>4, MailGoes
<1> QED  BY <1>4, <1>5 DEF AttachInv

-----------------------------------------------------------------------------
(* The invariants of the store, of what every run, call and page does.      *)

WalksInv == FoldersInv /\ CallsFor /\ \A r \in Runs : AsksFor(r)
ArchiveInv == PatchInv /\ OnlyPopulated /\ ReplacedOnce /\ AttachInv

LEMMA WalksStart == Init => WalksInv
<1> SUFFICES ASSUME Init  PROVE WalksInv
  OBVIOUS
<1>1. /\ folders = <<>> /\ homes = {} /\ runs = [r \in Runs |-> NewRun]
      /\ requests = [r \in Requests |-> NoRequest]
  BY DEF Init, DriveInit
<1>2. FoldersInv
  <2> DEFINE none == <<>>
             a == [k \in {0} |-> none]
  <2>1. none \in Seq(Names)
    BY SeqEmpty
  <2>2. Len(folders) = 0 /\ DOMAIN folders = {} /\ 0 .. 0 = {0}
    BY <1>1
  <2>3. a[0] = none /\ DOMAIN a = {0}
    OBVIOUS
  <2> HIDE DEF none
  <2>4. a \in [0 .. Len(folders) -> Seq(Names)]
    BY <2>1, <2>2
  <2> HIDE DEF a
  <2>5. Addresses(a)
    BY <2>2, <2>3, <2>4 DEF Addresses, none
  <2>6. ASSUME NEW r \in Requests  PROVE requests[r].pc = "idle" /\ OnChart(a, requests[r])
    BY <1>1, NoRequestTyped DEF OnChart
  <2>7. Chart(a)
    BY <1>1, <2>3, <2>5, <2>6 DEF Chart, SameFolder
  <2> QED  BY <2>4, <2>7 DEF FoldersInv
<1>3. CallsFor
  <2>1. ASSUME NEW r \in Requests  PROVE CallFor(r, NoRequest)
    BY NoRequestTyped DEF CallFor
  <2> QED  BY <1>1, <2>1 DEF CallsFor
<1>4. \A r \in Runs : AsksFor(r)
  <2>1. NewRun.paths = <<>> /\ NewRun.files = <<>>
    BY DEF NewRun
  <2>2. DOMAIN NewRun.paths = {} /\ DOMAIN NewRun.files = {}
    BY <2>1
  <2> QED  BY <1>1, <2>2 DEF AsksFor
<1> QED  BY <1>2, <1>3, <1>4 DEF WalksInv

LEMMA ArchiveStart == ASSUME NamesApart PROVE Init => ArchiveInv
<1> SUFFICES ASSUME Init  PROVE ArchiveInv
  OBVIOUS
<1>1. /\ folders = <<>> /\ files = Shelf /\ runs = [r \in Runs |-> NewRun]
      /\ requests = [r \in Requests |-> NoRequest]
  BY DEF Init, DriveInit
<1>2. \A r \in Requests : requests[r].pc = "idle"
  BY <1>1, NoRequestTyped
<1>3. \A r \in Mails : runs[r].pc = "new" /\ runs[r].status = "RUNNING"
  BY <1>1, Actors DEF NewRun
<1>4. DOMAIN folders = {}
  BY <1>1
<1>5. OnlyPopulated
  BY <1>1, <1>4 DEF OnlyPopulated
<1>6. ReplacedOnce
  BY <1>1, <1>2 DEF ReplacedOnce, NamesApart, SameFile
<1> QED  BY <1>2, <1>3, <1>5, <1>6 DEF ArchiveInv, PatchInv, AttachInv

\* A call begins: no folder and no file is another.
LEMMA AskedKeeps ==
    ASSUME RequestsInv, FoldersInv, CallsFor, NEW r \in Requests, StoreAsked(r)
    PROVE  /\ FoldersInv' /\ CallsFor' /\ UNCHANGED <<folders, files, raced>>
           /\ requests'[r].pc \in {"access", "refused"}
           /\ \A p \in Requests \ {r} : requests'[p] = requests[p]
           /\ PatchInv => PatchInv'
           /\ ReplacedOnce => ReplacedOnce'
           /\ OnlyPopulated /\ (r \in Fillers => requests[r].pc = "idle") => OnlyPopulated'
<1>1. PICK m \in Asked : /\ Ask(r, m) /\ Proper(r, m)
                         /\ UNCHANGED <<folders, files, homes, raced>>
  BY DEF StoreAsked
<1>2. /\ FoldersInv' /\ CallsFor' /\ UNCHANGED <<folders, files, raced>>
      /\ requests'[r].pc \in {"access", "refused"}
      /\ \A p \in Requests \ {r} : requests'[p] = requests[p]
  BY <1>1, CallsForAsk
<1>3. ASSUME PatchInv  PROVE PatchInv'
  BY <1>2, <1>3 DEF PatchInv
<1>4. ASSUME ReplacedOnce  PROVE ReplacedOnce'
  <2>1. UNCHANGED Replaced
    BY DEF Replaced
  <2>2. \A name, folder : FilesNamed(name, folder)' = FilesNamed(name, folder)
    BY <1>2 DEF FilesNamed
  <2> QED  BY <1>2, <1>4, <2>1, <2>2 DEF ReplacedOnce, SameFile
<1>5. ASSUME OnlyPopulated, r \in Fillers => requests[r].pc = "idle"  PROVE OnlyPopulated'
  <2>1. r \in Fillers => ~HasPopulated(r)
    <3>1. r \in Fillers => requests[r].content = ""
      BY <1>5 DEF CallsFor, CallFor
    <3> QED  BY <3>1, DriveAssumption DEF HasPopulated
  <2>2. \A q \in Fillers : HasPopulated(q) => HasPopulated(q)'
    BY <1>2, <2>1, Actors DEF HasPopulated
  <2> QED  BY <1>2, <1>5, <2>2 DEF OnlyPopulated, RunFolders, Documents
<1> QED  BY <1>2, <1>3, <1>4, <1>5

LEMMA WalksNext == PipelinesInv /\ WalksInv /\ [Next]_vars => WalksInv'
<1> SUFFICES ASSUME PipelinesInv, WalksInv, [Next]_vars  PROVE WalksInv'
  OBVIOUS
<1>1. /\ RequestsInv /\ FoldersInv /\ CallsFor /\ \A r \in Runs : AsksFor(r)
      /\ Runs \subseteq Requests
  BY Actors DEF PipelinesInv, WalksInv
<1>2. ASSUME UNCHANGED driveVars  PROVE FoldersInv' /\ CallsFor'
  BY <1>1, <1>2, ChartSame DEF CallsFor, CallFor, driveVars, Segments
<1>3. ASSUME UNCHANGED runs  PROVE \A r \in Runs : AsksFor(r)'
  BY <1>1, <1>3 DEF AsksFor
<1>4. ASSUME NEW r \in Runs, RunSteps(r)  PROVE WalksInv'
  <2>1. \A q \in Runs : AsksFor(q)'
    BY <1>1, <1>4, AsksGo
  <2>2. UNCHANGED driveVars \/ StoreAsked(r)
    BY <1>1, <1>4, RunAsks
  <2>3. FoldersInv' /\ CallsFor'
    BY <1>1, <1>2, <2>2, AskedKeeps
  <2> QED  BY <2>1, <2>3 DEF WalksInv
<1>5. ASSUME NEW r \in Requests, StartFill(r)  PROVE WalksInv'
  BY <1>1, <1>3, <1>5, FillAsks, AskedKeeps DEF WalksInv
<1>6. ASSUME NEW r \in Requests, DriveSteps(r), UNCHANGED runs  PROVE WalksInv'
  BY <1>1, <1>3, <1>6, ChartMoves, CallsForMove DEF WalksInv
<1>7. ASSUME UNCHANGED <<driveVars, runs>>  PROVE WalksInv'
  BY <1>2, <1>3, <1>7 DEF WalksInv
<1> QED
  BY <1>4, <1>5, <1>6, <1>7 DEF Next, ToolSteps, vars

LEMMA ArchiveNext ==
    ASSUME NamesApart
    PROVE  PipelinesInv /\ WalksInv /\ ArchiveInv /\ [Next]_vars => ArchiveInv'
<1> SUFFICES ASSUME PipelinesInv, WalksInv, ArchiveInv, [Next]_vars  PROVE ArchiveInv'
  OBVIOUS
<1>1. /\ RequestsInv /\ FoldersInv /\ CallsFor /\ \A r \in Runs : AsksFor(r)
      /\ PatchInv /\ OnlyPopulated /\ ReplacedOnce /\ AttachInv
      /\ Runs \subseteq Requests /\ Fillers \cap Runs = {} /\ Mails \subseteq Runs
  BY Actors DEF PipelinesInv, WalksInv, ArchiveInv
<1>2. ASSUME UNCHANGED driveVars  PROVE PatchInv' /\ OnlyPopulated' /\ ReplacedOnce'
  <2>1. UNCHANGED <<folders, files, requests, raced>>
    BY <1>2 DEF driveVars
  <2>2. PatchInv'
    BY <1>1, <2>1 DEF PatchInv
  <2>3. OnlyPopulated'
    BY <1>1, <2>1 DEF OnlyPopulated, RunFolders, Documents, HasPopulated
  <2>4. ReplacedOnce'
    BY <1>1, <2>1 DEF ReplacedOnce, Replaced, SameFile, FilesNamed
  <2> QED  BY <2>2, <2>3, <2>4
<1>3. ASSUME UNCHANGED <<files, runs>>, \A r \in Mails : requests'[r] = requests[r]
      PROVE  AttachInv'
  BY <1>1, <1>3 DEF AttachInv, Coming, Archived
<1>4. ASSUME NEW r \in Runs, RunSteps(r)  PROVE ArchiveInv'
  <2>1. AttachInv'
    BY <1>1, <1>4, AttachGoes
  <2>2. UNCHANGED driveVars \/ StoreAsked(r)
    BY <1>1, <1>4, RunAsks
  <2>3. r \in Requests /\ r \notin Fillers
    BY <1>1
  <2>4. PatchInv' /\ OnlyPopulated' /\ ReplacedOnce'
    BY <1>1, <1>2, <2>2, <2>3, AskedKeeps
  <2> QED  BY <2>1, <2>4 DEF ArchiveInv
<1>5. ASSUME NEW r \in Requests, StartFill(r)  PROVE ArchiveInv'
  <2>1. StoreAsked(r) /\ UNCHANGED runs /\ r \in Fillers /\ requests[r].pc = "idle"
    BY <1>5, FillAsks DEF StartFill
  <2>2. /\ PatchInv' /\ OnlyPopulated' /\ ReplacedOnce' /\ UNCHANGED files
        /\ \A p \in Requests \ {r} : requests'[p] = requests[p]
    BY <1>1, <2>1, AskedKeeps
  <2>3. \A p \in Mails : requests'[p] = requests[p]
    BY <1>1, <2>1, <2>2
  <2>4. AttachInv'
    BY <1>3, <2>1, <2>2, <2>3
  <2> QED  BY <2>2, <2>4 DEF ArchiveInv
<1>6. ASSUME NEW r \in Requests, DriveSteps(r), UNCHANGED runs  PROVE ArchiveInv'
  BY <1>1, <1>6, PatchMoves, PopulatedMoves, ReplacedMoves, AttachMoves DEF ArchiveInv
<1>7. ASSUME UNCHANGED <<driveVars, runs>>  PROVE ArchiveInv'
  <2>1. AttachInv'
    BY <1>3, <1>7 DEF driveVars
  <2> QED  BY <1>2, <1>7, <2>1 DEF ArchiveInv
<1> QED
  BY <1>4, <1>5, <1>6, <1>7 DEF Next, ToolSteps, vars

LEMMA TogetherHolds ==
    ASSUME FoldersInv
    PROVE  FilesTogether
<1>1. PICK a \in [0 .. Len(folders) -> Seq(Names)] : Chart(a)
  BY DEF FoldersInv
<1> SUFFICES ASSUME NEW g \in homes, NEW h \in homes, g[1] = h[1],
                    \A k \in DOMAIN g[1] : g[1][k] \notin raced
             PROVE  g[2] = h[2]
  BY DEF FilesTogether
<1>2. /\ g[2] \in DOMAIN a /\ h[2] \in DOMAIN a /\ g[1] = a[g[2]] /\ h[1] = a[h[2]]
  BY <1>1 DEF Chart
<1>3. Calm(a[g[2]])
  BY <1>2 DEF Calm
<1> QED  BY <1>1, <1>2, <1>3 DEF Chart

LEMMA OneHolds ==
    ASSUME ReplacedOnce
    PROVE  OneCorrespondence
<1> SUFFICES ASSUME NEW name \in Replaced \ raced, NEW folder \in 0 .. Len(folders)
             PROVE  Cardinality(FilesNamed(name, folder)) <= 1
  BY DEF OneCorrespondence
<1>1. CASE FilesNamed(name, folder) = {}
  BY <1>1, FS_EmptySet
<1>2. CASE FilesNamed(name, folder) # {}
  <2>1. PICK k : k \in FilesNamed(name, folder)
    BY <1>2
  <2>2. FilesNamed(name, folder) = {k}
    BY <2>1 DEF FilesNamed, ReplacedOnce
  <2>3. Cardinality({k}) = 1
    BY FS_Singleton
  <2> QED  BY <2>2, <2>3
<1> QED  BY <1>1, <1>2

LEMMA NothingHolds ==
    ASSUME OnlyPopulated
    PROVE  NothingWithoutTemplate
<1> SUFFICES ASSUME NEW r \in Fillers, requests[r].content = ""
             PROVE  /\ \A k \in DOMAIN folders :
                          \/ folders[k].name \in RunFolders
                          \/ \E q \in Fillers \ {r} : folders[k].name \in Range(Fill[q].path)
                    /\ \A f \in DOMAIN files \ DOMAIN Shelf :
                          files[f].name = Fill[r].name =>
                              \E q \in Fillers \ {r} : requests[q].content = Populated
  BY DEF NothingWithoutTemplate
<1>1. ~HasPopulated(r)
  BY DriveAssumption DEF HasPopulated
<1>2. Fill[r].name \in Documents
  BY DEF Documents
<1> QED  BY <1>1, <1>2 DEF OnlyPopulated, HasPopulated

\* ensureFolderPath (src/lib/integrations/google-drive/client.ts and sharepoint/
\* client.ts): however many calls make folders at once, a path whose names no two
\* of them were about to make together leads every call to one folder.
THEOREM FilesAlwaysTogether == Spec => []FilesTogether
<1>1. PipelinesInv /\ WalksInv => FilesTogether
  BY TogetherHolds DEF WalksInv
<1> QED
  BY <1>1, PipelinesStart, PipelinesNext, WalksStart, WalksNext, PTL DEF Spec

\* save_file, populate_template and the archive of e-mails, where the names they
\* are given are apart: a name that is replaced has one file in a folder unless
\* two calls raced to make it, every attachment of an e-mail whose run completed
\* is there as that e-mail had it, whatever was saved since, and nothing is made
\* for a document whose template could not be read and populated.
THEOREM FilesAlwaysKept == ASSUME NamesApart PROVE Spec => []FilesKept
<1>1. PipelinesInv /\ WalksInv /\ ArchiveInv => FilesKept
  <2> SUFFICES ASSUME PipelinesInv, WalksInv, ArchiveInv  PROVE FilesKept
    OBVIOUS
  <2>1. AttachmentsKept
    BY DEF ArchiveInv, AttachInv, AttachmentsKept, Archived, Range
  <2> QED
    BY <2>1, TogetherHolds, OneHolds, NothingHolds DEF FilesKept, WalksInv, ArchiveInv
<1>2. Init => ArchiveInv
  BY ArchiveStart
<1>3. PipelinesInv /\ WalksInv /\ ArchiveInv /\ [Next]_vars => ArchiveInv'
  BY ArchiveNext
<1> QED
  BY <1>1, <1>2, <1>3, PipelinesStart, PipelinesNext, WalksStart, WalksNext, PTL DEF Spec

-----------------------------------------------------------------------------
(* The keys.                                                                *)

KeyIn(data) == IF KeyField \in DOMAIN data THEN data[KeyField] ELSE Blank

\* A record of the type that no page has saved.
Ours(i) == i \notin byHand /\ records[i].type = RecordType

\* It has the key, or a page has saved it.
HasKey(i, v) ==
    /\ i \in Ids /\ records[i].state # "free"
    /\ i \in byHand \/ (records[i].type = RecordType /\ KeyIn(records[i].data) = v)

\* What a call has to do with the key.
KeyCall(c, k) ==
    /\ c \in Agents =>
          /\ k.op = "create" => k.type # RecordType
          /\ k.op = "update" => KeyField \notin DOMAIN k.patch \cup DOMAIN k.values
    /\ c \in Mails => k.op = "find"
    /\ c \in Signals =>
          /\ k.pc # "search"
          /\ k.op # "find" =>
                /\ runs[c].pc = "save" /\ k.patch = Signal[c]
                /\ k.pc \notin {"idle", "done", "failed"} /\ k.op \in {"create", "update"}
                /\ k.pc \in {"refs", "insert", "read", "write"}
                      => KeyField \in DOMAIN k.values /\ k.values[KeyField] = KeyOf(c)
                /\ k.op = "create" => k.type = RecordType
                /\ k.op = "update" => HasKey(k.id, KeyOf(c))
          /\ k.op = "find" /\ k.pc \in {"resolve", "find"} =>
                k.type = RecordType /\ k.patch = [f \in {KeyField} |-> KeyOf(c)]
          /\ runs[c].pc = "lookup" /\ k.pc = "done" /\ k.id # "" => HasKey(k.id, KeyOf(c))
          /\ runs[c].pc \in {"lookup", "save"} =>
                KeyField \in DOMAIN Signal[c] /\ KeyOf(c) # Blank
    /\ c \notin Pages /\ k.pc = "write" /\ Ours(k.id)
          => KeyIn(k.seen) = KeyIn(records[k.id].data)

\* It has found no record, and is to create one.
Creating(r) ==
    \/ runs[r].pc = "lookup" /\ calls[r].pc = "done" /\ calls[r].id = ""
    \/ calls[r].op = "create"

NoneOf(text) ==
    \A i \in Ids : Live(i) /\ Ours(i) => KeyIn(records[i].data).text # text

InFlight(r) == runs[r].pc \in {"lookup", "save"}
Contested ==
    \A p, r \in Signals :
        p # r /\ InFlight(p) /\ InFlight(r) /\ KeyOf(p).text = KeyOf(r).text
            => KeyOf(r).text \in contested

\* A signal that is to create a record is alone with its key.
KeysInv ==
    /\ \A c \in Callers : KeyCall(c, calls[c])
    /\ \A i \in Ids : Live(i) /\ Ours(i) =>
          KeyIn(records[i].data).text = "" \/ KeyIn(records[i].data).neat
    /\ \A r \in Signals : Creating(r) => KeyOf(r).text \in contested \/ NoneOf(KeyOf(r).text)
    /\ Contested
    /\ OneRecordUnlessContested

\* Of the records that are there none gets another key but by a page, and none
\* that is gone returns.
KeysStay ==
    /\ byHand \subseteq byHand' /\ contested \subseteq contested'
    /\ \A i \in Ids : records[i].state # "free" =>
          /\ records'[i].state # "free" /\ records'[i].type = records[i].type
          /\ records'[i].state = "live" => records[i].state = "live"
          /\ \/ i \in byHand' \/ records[i].type # RecordType
             \/ KeyIn(records'[i].data) = KeyIn(records[i].data)

\* No record of the type is made but by a page.
NoneMade ==
    \A i \in Ids : records[i].state = "free" /\ records'[i].state # "free" =>
        i \in byHand' \/ records'[i].type # RecordType

LEMMA KeyText ==
    ASSUME NEW data
    PROVE  TextOf(data, KeyField) = KeyIn(data).text
BY DEF TextOf, KeyIn, Blank

LEMMA KeyMerged ==
    ASSUME NEW data \in Data, NEW patch \in Partial(Fields, Value)
    PROVE  /\ KeyField \notin DOMAIN patch => KeyIn(Merged(data, patch)) = KeyIn(data)
           /\ KeyField \in DOMAIN patch /\ patch[KeyField] # Undefined
                 => KeyIn(Merged(data, patch)) = patch[KeyField]
<1>1. \A f \in DOMAIN data : data[f] # Undefined
  BY PartialElim DEF Data
<1>2. ASSUME KeyField \notin DOMAIN patch  PROVE KeyIn(Merged(data, patch)) = KeyIn(data)
  BY <1>1, <1>2 DEF Merged, KeyIn
<1>3. ASSUME KeyField \in DOMAIN patch, patch[KeyField] # Undefined
      PROVE  KeyIn(Merged(data, patch)) = patch[KeyField]
  BY <1>3 DEF Merged, KeyIn
<1> QED  BY <1>2, <1>3

\* A signal's key has a text, and is as its field stores it.
LEMMA KeyTyped ==
    ASSUME KeysBySignals, NEW r \in Signals, KeyField \in DOMAIN Signal[r], KeyOf(r) # Blank
    PROVE  /\ KeyOf(r) \in Value \ {Undefined} /\ KeyOf(r).text # "" /\ KeyOf(r).neat
           /\ KeyOf(r).text \in Texts /\ KeyOf(r) = Neat(KeyOf(r).text)
           /\ [f \in {KeyField} |-> KeyOf(r)] \in Data
<1>1. Signal[r] \in Data /\ KeyField \in Fields
  BY PipelineAssumption
<1>2. KeyOf(r) \in Value \ {Undefined}
  BY <1>1, PartialElim DEF Data, KeyOf
<1>3. KeyOf(r).neat /\ KeyOf(r).text # ""
  BY <1>2, Values DEF KeysBySignals
<1>4. KeyOf(r) = Neat(KeyOf(r).text) /\ KeyOf(r).text \in Texts
  BY <1>2, <1>3 DEF Value, Neat
<1>5. [f \in {KeyField} |-> KeyOf(r)] \in [{KeyField} -> Value \ {Undefined}]
  BY <1>2
<1>6. [f \in {KeyField} |-> KeyOf(r)] \in Data
  BY <1>1, <1>5, PartialIntro DEF Data
<1> QED  BY <1>2, <1>3, <1>4, <1>6

\* Another's step leaves a call what it has to do with the key.
LEMMA KeyCallStays ==
    ASSUME RecordsInv, KeysStay, NEW d \in Callers, NEW k \in Call, KeyCall(d, k), CallFits(d, k),
           d \in Signals => runs'[d].pc = runs[d].pc
    PROVE  KeyCall(d, k)'
<1>1. ASSUME NEW i, NEW v, HasKey(i, v)  PROVE HasKey(i, v)'
  BY <1>1 DEF HasKey, KeysStay
<1>2. ASSUME d \notin Pages, k.pc = "write", Ours(k.id)'
      PROVE  KeyIn(k.seen) = KeyIn(records'[k.id].data)
  <2>1. k.id \in Ids /\ records[k.id].state # "free"
    BY <1>2 DEF CallFits, Kept
  <2> QED  BY <1>2, <2>1 DEF KeysStay, Ours, KeyCall
<1> QED  BY <1>1, <1>2 DEF KeyCall, KeyOf

\* No record of the type is made.
LEMMA KeysHold ==
    ASSUME KeysInv, KeysStay, NoneMade, \A c \in Callers : KeyCall(c, calls[c])',
           \A r \in Signals : Creating(r)' => Creating(r) \/ NoneOf(KeyOf(r).text), Contested'
    PROVE  KeysInv'
<1>1. ASSUME NEW i \in Ids, Live(i)', Ours(i)'
      PROVE  Live(i) /\ Ours(i) /\ KeyIn(records'[i].data) = KeyIn(records[i].data)
  BY <1>1 DEF Live, Ours, KeysStay, NoneMade
<1>2. \A i \in Ids : (Live(i) /\ Ours(i))' =>
          KeyIn(records'[i].data).text = "" \/ KeyIn(records'[i].data).neat
  BY <1>1 DEF KeysInv
<1>3. ASSUME NEW text, NoneOf(text)  PROVE NoneOf(text)'
  BY <1>1, <1>3 DEF NoneOf
<1>4. ASSUME NEW r \in Signals, Creating(r)'
      PROVE  KeyOf(r).text \in contested' \/ NoneOf(KeyOf(r).text)'
  BY <1>3, <1>4 DEF KeysInv, KeysStay
<1>5. ASSUME NEW i \in Ids \ byHand', NEW j \in Ids \ byHand', i # j, Live(i)', Live(j)',
             records'[i].type = RecordType, records'[j].type = RecordType,
             TextOf(records'[i].data, KeyField) \notin contested' \cup {""}
      PROVE  TextOf(records'[i].data, KeyField) # TextOf(records'[j].data, KeyField)
  <2>1. /\ Live(i) /\ Ours(i) /\ KeyIn(records'[i].data) = KeyIn(records[i].data)
        /\ Live(j) /\ Ours(j) /\ KeyIn(records'[j].data) = KeyIn(records[j].data)
    BY <1>1, <1>5 DEF Ours
  <2>2. TextOf(records[i].data, KeyField) \notin contested \cup {""}
    BY <1>5, <2>1, KeyText DEF KeysStay
  <2>3. TextOf(records[i].data, KeyField) # TextOf(records[j].data, KeyField)
    BY <1>5, <2>1, <2>2 DEF KeysInv, OneRecordUnlessContested, Ours
  <2> QED  BY <2>1, <2>3, KeyText
<1>6. OneRecordUnlessContested'
  BY <1>5 DEF OneRecordUnlessContested
<1> QED  BY <1>2, <1>4, <1>6 DEF KeysInv, KeyOf

LEMMA RecordsStayKeys ==
    ASSUME UNCHANGED <<records, byHand>>, contested \subseteq contested'
    PROVE  KeysStay /\ NoneMade
BY DEF KeysStay, NoneMade

\* One caller goes on, or its run does.
LEMMA KeysMove ==
    ASSUME RecordsInv, KeysInv, KeysStay, NoneMade, Contested', NEW c \in Callers,
           \A q \in Signals \ {c} : runs'[q].pc = runs[q].pc,
           \A d \in Callers \ {c} : calls'[d] = calls[d],
           KeyCall(c, calls[c])',
           c \in Signals /\ Creating(c)' => Creating(c) \/ NoneOf(KeyOf(c).text)
    PROVE  KeysInv'
<1>1. ASSUME NEW d \in Callers  PROVE KeyCall(d, calls[d])'
  <2>1. CASE d = c
    BY <2>1
  <2>2. CASE d # c
    <3>1. PICK k \in Call : k = calls[d]
      BY CallOf
    <3>2. KeyCall(d, k) /\ CallFits(d, k) /\ calls'[d] = k
      BY <2>2, <3>1, CallOf DEF KeysInv
    <3>3. KeyCall(d, k)'
      BY <2>2, <3>2, KeyCallStays
    <3> QED  BY <3>2, <3>3
  <2> QED  BY <2>1, <2>2
<1>2. ASSUME NEW r \in Signals, Creating(r)'  PROVE Creating(r) \/ NoneOf(KeyOf(r).text)
  <2>1. CASE r = c
    BY <1>2, <2>1
  <2>2. CASE r # c
    <3>1. r \in Callers /\ calls'[r] = calls[r] /\ runs'[r].pc = runs[r].pc
      BY <2>2, Actors
    <3> QED  BY <1>2, <3>1 DEF Creating
  <2> QED  BY <2>1, <2>2
<1> QED  BY <1>1, <1>2, KeysHold

LEMMA GoesTo ==
    ASSUME RecordsInv, NEW c \in Callers, NEW k, Goes(c, k)
    PROVE  calls'[c] = k /\ \A d \in Callers \ {c} : calls'[d] = calls[d]
BY DEF Goes, RecordsInv, RecordsTypeOK

LEMMA ContestedStays ==
    ASSUME Contested, UNCHANGED <<runs, contested>>
    PROVE  Contested'
BY DEF Contested, InFlight, KeyOf

\* A call goes on and its caller's run does not.
LEMMA KeysGo ==
    ASSUME RecordsInv, KeysInv, KeysStay, NoneMade, UNCHANGED <<runs, contested>>,
           NEW c \in Callers, NEW k, Goes(c, k), KeyCall(c, k)',
           c \in Signals => \/ /\ k.op # "create"
                               /\ ~(runs[c].pc = "lookup" /\ k.pc = "done" /\ k.id = "")
                            \/ Creating(c) \/ NoneOf(KeyOf(c).text)
    PROVE  KeysInv'
<1>1. calls'[c] = k /\ \A d \in Callers \ {c} : calls'[d] = calls[d]
  BY GoesTo
<1>2. Contested'
  BY ContestedStays DEF KeysInv
<1>3. KeyCall(c, calls[c])'
  BY <1>1
<1>4. c \in Signals /\ Creating(c)' => Creating(c) \/ NoneOf(KeyOf(c).text)
  BY <1>1 DEF Creating
<1> QED  BY <1>1, <1>2, <1>3, <1>4, KeysMove

LEMMA EndedFind ==
    ASSUME NEW c, NEW how, NEW id, NEW data
    PROVE  /\ Ended(c, how, id, data).op = "find"
           /\ Ended(c, how, id, data).pc = how \/ Ended(c, how, id, data).pc = "done"
           /\ c \in Pipelines => /\ Ended(c, how, id, data).pc = how
                                 /\ Ended(c, how, id, data).id = id
<1>1. [NoCall EXCEPT !.pc = how, !.id = id, !.values = data].op = "find"
  BY DEF NoCall
<1>2. [NoCall EXCEPT !.pc = how, !.id = id, !.values = data].pc = how
  BY DEF NoCall
<1>3. [NoCall EXCEPT !.pc = how, !.id = id, !.values = data].id = id
  BY DEF NoCall
<1>4. /\ [NoCall EXCEPT !.pc = "done"].op = "find"
      /\ [NoCall EXCEPT !.pc = "done"].pc = "done"
  BY DEF NoCall
<1> QED  BY <1>1, <1>2, <1>3, <1>4 DEF Ended

\* A call ends: a find that is done has found a record with the key, or there is
\* none.
LEMMA EndsKeys ==
    ASSUME RecordsInv, KeysInv, KeysStay, NoneMade, UNCHANGED <<runs, contested>>,
           NEW c \in Callers, NEW how \in {"done", "failed"}, NEW id, NEW data,
           Ends(c, how, id, data),
           c \in Signals /\ runs[c].pc = "lookup" /\ how = "done"
               => IF id = "" THEN NoneOf(KeyOf(c).text) ELSE HasKey(id, KeyOf(c))'
    PROVE  KeysInv'
<1>1. PICK k : k = Ended(c, how, id, data)
  OBVIOUS
<1>2. Goes(c, k)
  BY <1>1 DEF Ends, Ended
<1>3. /\ k.op = "find" /\ k.pc \in {"done", "failed"}
      /\ c \in Signals => k.pc = how /\ k.id = id
  <2>1. c \in Signals => c \in Pipelines
    BY Actors
  <2>2. /\ k.op = "find" /\ k.pc \in {how, "done"}
        /\ c \in Pipelines => k.pc = how /\ k.id = id
    <3>1. /\ Ended(c, how, id, data).op = "find"
          /\ Ended(c, how, id, data).pc = how \/ Ended(c, how, id, data).pc = "done"
          /\ c \in Pipelines => /\ Ended(c, how, id, data).pc = how
                                /\ Ended(c, how, id, data).id = id
      BY ONLY EndedFind
    <3> QED  BY <1>1, <3>1
  <2> QED  BY <2>1, <2>2
<1>4. KeyCall(c, calls[c])
  BY DEF KeysInv
<1>5. ASSUME c \in Signals, runs'[c].pc = "lookup", k.pc = "done", k.id # ""
      PROVE  HasKey(k.id, KeyOf(c))'
  BY <1>3, <1>5
<1>6. c \in Signals /\ runs'[c].pc \in {"lookup", "save"} =>
          KeyField \in DOMAIN Signal[c] /\ KeyOf(c) # Blank
  BY <1>4 DEF KeyCall
<1>7. KeyCall(c, k)'
  BY <1>3, <1>5, <1>6 DEF KeyCall, KeyOf
<1>8. c \in Signals => \/ /\ k.op # "create"
                          /\ ~(runs[c].pc = "lookup" /\ k.pc = "done" /\ k.id = "")
                       \/ Creating(c) \/ NoneOf(KeyOf(c).text)
  BY <1>3
<1> QED  BY <1>2, <1>7, <1>8, KeysGo

\* A call goes on with what it was called with.
LEMMA KeysGoOn ==
    ASSUME RecordsInv, KeysInv, UNCHANGED <<records, byHand, runs, contested>>,
           NEW c \in Callers, NEW k, Goes(c, k),
           k.op = calls[c].op, k.patch = calls[c].patch, k.id = calls[c].id,
           k.op \in {"find", "create"} => k.type = calls[c].type,
           k.pc \notin {"idle", "done", "failed"},
           k.pc = "write" => k.seen = records[k.id].data,
           k.op = "find" /\ k.pc \in {"resolve", "find"} => calls[c].pc \in {"resolve", "find"},
           c \in Agents /\ k.op = "update" => KeyField \notin DOMAIN k.values,
           c \in Signals => k.pc # "search",
           c \in Signals /\ k.op # "find" /\ k.pc \in {"refs", "insert", "read", "write"}
               => KeyField \in DOMAIN k.values /\ k.values[KeyField] = KeyOf(c)
    PROVE  KeysInv'
<1>1. KeysStay /\ NoneMade
  BY RecordsStayKeys
<1>2. KeyCall(c, calls[c])
  BY DEF KeysInv
<1>3. ASSUME c \in Signals, k.op # "find"
      PROVE  /\ runs'[c].pc = "save" /\ k.patch = Signal[c] /\ k.op \in {"create", "update"}
             /\ k.op = "create" => k.type = RecordType
             /\ k.op = "update" => HasKey(k.id, KeyOf(c))'
  BY <1>1, <1>2, <1>3 DEF KeyCall, HasKey, KeyOf
<1>4. /\ c \in Agents =>
            /\ k.op = "create" => k.type # RecordType
            /\ k.op = "update" => KeyField \notin DOMAIN k.patch \cup DOMAIN k.values
      /\ c \in Mails => k.op = "find"
  BY <1>2 DEF KeyCall
<1>5. c \in Signals =>
          /\ k.op = "find" /\ k.pc \in {"resolve", "find"} =>
                k.type = RecordType /\ k.patch = [f \in {KeyField} |-> KeyOf(c)]
          /\ runs'[c].pc \in {"lookup", "save"} =>
                KeyField \in DOMAIN Signal[c] /\ KeyOf(c) # Blank
  BY <1>2 DEF KeyCall
<1>6. KeyCall(c, k)'
  BY <1>1, <1>3, <1>4, <1>5 DEF KeyCall, KeyOf
<1>7. c \in Signals => \/ /\ k.op # "create"
                          /\ ~(runs[c].pc = "lookup" /\ k.pc = "done" /\ k.id = "")
                       \/ Creating(c) \/ NoneOf(KeyOf(c).text)
  BY DEF Creating
<1> QED  BY <1>1, <1>6, <1>7, KeysGo

LEMMA FailsKeys ==
    ASSUME RecordsInv, KeysInv, UNCHANGED <<records, byHand, runs, contested>>,
           NEW c \in Callers, Fails(c)
    PROVE  KeysInv'
<1>1. KeysStay /\ NoneMade
  BY RecordsStayKeys
<1> QED  BY <1>1, EndsKeys DEF Fails

LEMMA ResolveKeys ==
    ASSUME RecordsInv, KeysInv, NEW c \in Callers, Resolve(c), UNCHANGED <<runs, contested>>
    PROVE  KeysInv'
<1>1. CASE calls[c].type \notin DOMAIN types
  BY <1>1, FailsKeys DEF Resolve, Reading
<1>2. CASE calls[c].type \in DOMAIN types
  <2> DEFINE next == CASE calls[c].op \in {"find", "search"} -> calls[c].op
                       [] calls[c].op = "create" -> "fields"
                       [] calls[c].op = "update" -> "existing"
             m == [calls[c] EXCEPT !.pc = next]
  <2>1. Goes(c, m) /\ Reading /\ calls[c].pc = "resolve"
    BY <1>2 DEF Resolve
  <2>2. \/ calls[c].op \in {"find", "search"} /\ next = calls[c].op
        \/ calls[c].op = "create" /\ next = "fields"
        \/ calls[c].op = "update" /\ next = "existing"
    BY CallOf DEF Call
  <2> HIDE DEF next
  <2>3. /\ m.pc = next /\ m.op = calls[c].op /\ m.type = calls[c].type /\ m.id = calls[c].id
        /\ m.patch = calls[c].patch /\ m.values = calls[c].values
    BY CallOf DEF Call
  <2> HIDE DEF m
  <2>4. PICK k : k = m
    OBVIOUS
  <2>5. KeyCall(c, calls[c])
    BY DEF KeysInv
  <2>6. c \in Agents /\ k.op = "update" => KeyField \notin DOMAIN k.values
    BY <2>3, <2>4, <2>5 DEF KeyCall
  <2>7. /\ Goes(c, k) /\ k.op = calls[c].op /\ k.patch = calls[c].patch /\ k.id = calls[c].id
        /\ k.type = calls[c].type
        /\ k.pc \notin {"idle", "done", "failed", "write", "refs", "insert", "read"}
    BY <2>1, <2>2, <2>3, <2>4
  <2>8. c \in Signals => k.pc # "search"
    <3>1. c \in Signals => calls[c].op # "search"
      BY <2>5 DEF KeyCall
    <3> QED  BY <2>2, <2>3, <2>4, <3>1
  <2> QED  BY <2>1, <2>6, <2>7, <2>8, KeysGoOn DEF Reading
<1> QED  BY <1>1, <1>2

LEMMA FindByValueKeys ==
    ASSUME KeysBySignals, RecordsInv, KeysInv, NEW c \in Callers, FindByValue(c),
           UNCHANGED <<runs, contested>>
    PROVE  KeysInv'
<1>1. PICK f \in DOMAIN calls[c].patch :
          AnswersOne(c, Holding(calls[c].type, f, calls[c].patch[f]))
  BY DEF FindByValue
<1>2. Reading /\ KeysStay /\ NoneMade /\ calls[c].pc = "find"
  BY RecordsStayKeys DEF FindByValue, Reading
<1>3. KeyCall(c, calls[c])
  BY DEF KeysInv
<1> DEFINE Asking == c \in Signals /\ runs[c].pc = "lookup"
<1>4. ASSUME Asking
      PROVE  /\ calls[c].type = RecordType /\ f = KeyField /\ calls[c].patch[f] = KeyOf(c)
             /\ KeyOf(c).text # "" /\ KeyOf(c).neat
             /\ KeyOf(c) = Neat(KeyOf(c).text)
  <2>1. /\ calls[c].type = RecordType /\ calls[c].patch = [g \in {KeyField} |-> KeyOf(c)]
        /\ KeyField \in DOMAIN Signal[c] /\ KeyOf(c) # Blank
    BY <1>2, <1>3, <1>4 DEF KeyCall
  <2> QED  BY <1>1, <1>4, <2>1, KeyTyped
<1>5. CASE Ends(c, "done", "", Empty) /\ Holding(calls[c].type, f, calls[c].patch[f]) = {}
  <2>1. ASSUME Asking, NEW i \in Ids, Live(i), Ours(i)
        PROVE  KeyIn(records[i].data).text # KeyOf(c).text
    <3>1. SUFFICES ASSUME KeyIn(records[i].data).text = KeyOf(c).text  PROVE FALSE
      OBVIOUS
    <3>2. KeyIn(records[i].data).text # "" /\ KeyIn(records[i].data).neat
      BY <1>4, <2>1, <3>1 DEF KeysInv
    <3>3. KeyField \in DOMAIN records[i].data
             /\ KeyIn(records[i].data) = records[i].data[KeyField]
      BY <3>2 DEF KeyIn, Blank
    <3>4. records[i].data \in Data
      BY DEF RecordsInv, RecordsTypeOK
    <3>5. records[i].data[KeyField] \in Value
      BY <3>3, <3>4, PartialElim DEF Data
    <3>6. records[i].data[KeyField] = KeyOf(c)
      BY <1>4, <2>1, <3>1, <3>2, <3>3, <3>5 DEF Value, Neat
    <3>7. i \in Holding(RecordType, KeyField, KeyOf(c))
      BY <2>1, <3>3, <3>6 DEF Holding, Ours
    <3> QED  BY <1>4, <1>5, <2>1, <3>7
  <2>2. Asking => NoneOf(KeyOf(c).text)
    BY <2>1 DEF NoneOf
  <2> QED  BY <1>2, <1>5, <2>2, EndsKeys
<1>6. CASE \E i \in Holding(calls[c].type, f, calls[c].patch[f]) :
              Ends(c, "done", i, records[i].data)
  <2>1. PICK i \in Holding(calls[c].type, f, calls[c].patch[f]) :
            Ends(c, "done", i, records[i].data)
    BY <1>6
  <2>2. PICK data : data = records[i].data
    OBVIOUS
  <2>3. Ends(c, "done", i, data) /\ i \in Ids /\ i # "" /\ records[i].state = "live"
    BY <2>1, <2>2, ConstantsAssumption DEF Holding, Live
  <2>4. ASSUME Asking  PROVE HasKey(i, KeyOf(c))'
    <3>1. KeyField \in DOMAIN records[i].data /\ records[i].data[KeyField] = KeyOf(c)
             /\ records[i].type = RecordType
      BY <1>4, <2>1, <2>4 DEF Holding
    <3>2. UNCHANGED <<records, byHand>>
      BY <1>2 DEF Reading
    <3> QED  BY <2>3, <3>1, <3>2 DEF HasKey, KeyIn, KeyOf
  <2> QED  BY <1>2, <2>3, <2>4, EndsKeys
<1> QED  BY <1>1, <1>5, <1>6 DEF AnswersOne

LEMMA SearchByTextKeys ==
    ASSUME RecordsInv, KeysInv, NEW c \in Callers, SearchByText(c), UNCHANGED <<runs, contested>>
    PROVE  KeysInv'
<1>1. KeysStay /\ NoneMade /\ calls[c].pc = "search" /\ Ends(c, "done", "", Empty)
  BY RecordsStayKeys DEF SearchByText, Reading
<1>2. c \notin Signals
  BY <1>1 DEF KeysInv, KeyCall
<1> QED  BY <1>1, <1>2, EndsKeys

LEMMA FindExistingKeys ==
    ASSUME RecordsInv, KeysInv, NEW c \in Callers, FindExisting(c), UNCHANGED <<runs, contested>>
    PROVE  KeysInv'
<1>1. CASE ~Live(calls[c].id)
  BY <1>1, FailsKeys DEF FindExisting, Reading
<1>2. CASE Live(calls[c].id)
  <2>1. PICK k : k = [calls[c] EXCEPT !.pc = "fields", !.type = records[calls[c].id].type]
    OBVIOUS
  <2>2. Goes(c, k) /\ Reading /\ calls[c].op = "update"
    BY <1>2, <2>1, CallOf DEF FindExisting, CallFits
  <2>3. /\ k.pc = "fields" /\ k.op = calls[c].op /\ k.id = calls[c].id
        /\ k.patch = calls[c].patch /\ k.values = calls[c].values
    BY <2>1, CallOf DEF Call
  <2>4. c \in Agents => KeyField \notin DOMAIN k.values
    BY <2>2, <2>3 DEF KeysInv, KeyCall
  <2> QED  BY <2>2, <2>3, <2>4, KeysGoOn DEF Reading
<1> QED  BY <1>1, <1>2

\* What the fields make of a signal's key is that key.
LEMMA KeyCoerced ==
    ASSUME KeysBySignals, NEW r \in Signals, KeyField \in DOMAIN Signal[r], KeyOf(r) # Blank,
           NEW fields
    PROVE  /\ KeyField \in DOMAIN Coerced(fields, Signal[r])
           /\ Coerced(fields, Signal[r])[KeyField] = KeyOf(r)
<1>1. KeyOf(r) = Neat(KeyOf(r).text) /\ Signal[r][KeyField] = KeyOf(r)
  BY KeyTyped DEF KeyOf
<1> QED  BY <1>1 DEF Coerced

LEMMA CheckedKeys ==
    ASSUME RecordsInv, KeysInv, Reading, UNCHANGED <<runs, contested>>,
           NEW c \in Callers, NEW m \in Call, Goes(c, AfterChecks(m)),
           m.op = calls[c].op, m.patch = calls[c].patch, m.id = calls[c].id,
           m.type = calls[c].type, m.op \in {"create", "update"},
           c \in Agents /\ m.op = "update" => KeyField \notin DOMAIN m.values,
           c \in Signals => KeyField \in DOMAIN m.values /\ m.values[KeyField] = KeyOf(c)
    PROVE  KeysInv'
<1>1. PICK k : k = AfterChecks(m)
  OBVIOUS
<1>2. /\ k.pc \in {"insert", "read"} /\ k.op = m.op /\ k.patch = m.patch /\ k.id = m.id
      /\ k.type = m.type /\ k.values = m.values
  BY <1>1 DEF AfterChecks, Call
<1>3. Goes(c, k)
  BY <1>1
<1> QED  BY <1>2, <1>3, KeysGoOn DEF Reading

LEMMA LoadFieldsKeys ==
    ASSUME KeysBySignals, RecordsInv, KeysInv, NEW c \in Callers, LoadFields(c),
           UNCHANGED <<runs, contested>>
    PROVE  KeysInv'
<1> DEFINE t == calls[c].type
<1>1. /\ calls[c] \in Call /\ calls[c].op \in {"create", "update"} /\ calls[c].pc = "fields"
      /\ calls[c].patch \in Data /\ Reading
  BY CallOf DEF Call, CallFits, LoadFields
<1>2. KeyCall(c, calls[c])
  BY DEF KeysInv
<1>3. c \in Agents /\ calls[c].op = "update" => KeyField \notin DOMAIN calls[c].patch
  BY <1>2 DEF KeyCall
<1>4. c \in Signals => /\ calls[c].patch = Signal[c] /\ KeyField \in DOMAIN Signal[c]
                       /\ KeyOf(c) # Blank
  BY <1>1, <1>2 DEF KeyCall
<1>5. CASE t \notin DOMAIN types
  <2>1. PICK m : m = [calls[c] EXCEPT !.values = calls[c].patch]
    OBVIOUS
  <2>2. Goes(c, AfterChecks(m))
    BY <1>5, <2>1 DEF LoadFields
  <2>3. /\ m \in Call /\ m.op = calls[c].op /\ m.patch = calls[c].patch /\ m.type = t
        /\ m.id = calls[c].id /\ m.values = calls[c].patch
    BY <1>1, <2>1, DataWide DEF Call
  <2>4. c \in Signals => KeyField \in DOMAIN m.values /\ m.values[KeyField] = KeyOf(c)
    BY <1>4, <2>3 DEF KeyOf
  <2> QED  BY <1>1, <1>3, <2>2, <2>3, <2>4, CheckedKeys
<1>6. CASE t \in DOMAIN types /\ ~Valid(types[t], calls[c].patch, TRUE)
  BY <1>1, <1>6, FailsKeys DEF LoadFields, Reading
<1>7. CASE t \in DOMAIN types /\ Valid(types[t], calls[c].patch, TRUE)
  <2> DEFINE values == Coerced(types[t], calls[c].patch)
             refs == ReferencesIn(types[t], values)
  <2>1. PICK k : k = [calls[c] EXCEPT !.pc = "refs", !.values = values, !.refs = refs]
    OBVIOUS
  <2>2. Goes(c, k)
    BY <1>7, <2>1 DEF LoadFields
  <2>3. DOMAIN values = DOMAIN calls[c].patch
    BY DEF Coerced
  <2>4. c \in Signals => KeyField \in DOMAIN values /\ values[KeyField] = KeyOf(c)
    BY <1>4, KeyCoerced
  <2> HIDE DEF values, refs
  <2>5. /\ k.pc = "refs" /\ k.op = calls[c].op /\ k.patch = calls[c].patch /\ k.type = t
        /\ k.id = calls[c].id /\ k.values = values
    BY <1>1, <2>1 DEF Call
  <2>6. /\ c \in Agents /\ k.op = "update" => KeyField \notin DOMAIN k.values
        /\ c \in Signals => KeyField \in DOMAIN k.values /\ k.values[KeyField] = KeyOf(c)
    BY <1>3, <2>3, <2>4, <2>5
  <2> QED  BY <1>1, <2>2, <2>5, <2>6, KeysGoOn DEF Reading
<1> QED  BY <1>5, <1>6, <1>7

LEMMA CheckReferenceKeys ==
    ASSUME RecordsInv, KeysInv, NEW c \in Callers, CheckReference(c), UNCHANGED <<runs, contested>>
    PROVE  KeysInv'
<1> DEFINE refs == calls[c].refs
<1>1. /\ calls[c] \in Call /\ calls[c].op \in {"create", "update"} /\ calls[c].pc = "refs"
      /\ Reading
  BY CallOf DEF Call, CallFits, CheckReference
<1>2. KeyCall(c, calls[c])
  BY DEF KeysInv
<1>3. /\ c \in Agents /\ calls[c].op = "update" => KeyField \notin DOMAIN calls[c].values
      /\ c \in Signals => /\ KeyField \in DOMAIN calls[c].values
                          /\ calls[c].values[KeyField] = KeyOf(c)
  BY <1>1, <1>2 DEF KeyCall
<1>4. CASE refs = NoRefs
  <2>1. Goes(c, AfterChecks(calls[c]))
    BY <1>4 DEF CheckReference
  <2> QED  BY <1>1, <1>3, <2>1, CheckedKeys
<1>5. CASE refs # NoRefs
  <2>1. PICK f \in DOMAIN refs :
          \/ Goes(c, [calls[c] EXCEPT !.refs = [g \in DOMAIN refs \ {f} |-> refs[g]]])
          \/ Fails(c)
    BY <1>5 DEF CheckReference
  <2>2. CASE Fails(c)
    BY <1>1, <2>2, FailsKeys DEF Reading
  <2>3. CASE Goes(c, [calls[c] EXCEPT !.refs = [g \in DOMAIN refs \ {f} |-> refs[g]]])
    <3> DEFINE rest == [g \in DOMAIN refs \ {f} |-> refs[g]]
    <3>1. PICK k : k = [calls[c] EXCEPT !.refs = rest]
      OBVIOUS
    <3>2. Goes(c, k)
      BY <2>3, <3>1
    <3> HIDE DEF rest
    <3>3. /\ k.pc = "refs" /\ k.op = calls[c].op /\ k.type = calls[c].type
          /\ k.id = calls[c].id /\ k.patch = calls[c].patch /\ k.values = calls[c].values
      BY <1>1, <3>1 DEF Call
    <3> QED  BY <1>1, <1>3, <3>2, <3>3, KeysGoOn DEF Reading
  <2> QED  BY <2>1, <2>2, <2>3
<1> QED  BY <1>4, <1>5

LEMMA ReadForMergeKeys ==
    ASSUME RecordsInv, KeysInv, NEW c \in Callers, ReadForMerge(c), UNCHANGED <<runs, contested>>
    PROVE  KeysInv'
<1>1. UNCHANGED <<types, redefined, records, sent, byHand>> /\ calls[c].pc = "read"
  BY DEF ReadForMerge, Unmoved
<1>2. CASE ~Live(calls[c].id)
  BY <1>1, <1>2, FailsKeys DEF ReadForMerge
<1>3. CASE Live(calls[c].id)
  <2>1. PICK k : k = [calls[c] EXCEPT !.pc = "write", !.seen = records[calls[c].id].data]
    OBVIOUS
  <2>2. Goes(c, k)
    BY <1>3, <2>1 DEF ReadForMerge
  <2>3. /\ k.pc = "write" /\ k.op = calls[c].op /\ k.id = calls[c].id /\ k.type = calls[c].type
        /\ k.patch = calls[c].patch /\ k.values = calls[c].values
        /\ k.seen = records[k.id].data /\ k.op = "update"
    BY <1>1, <2>1, CallOf DEF Call, CallFits
  <2>4. KeyCall(c, calls[c])
    BY DEF KeysInv
  <2>5. /\ c \in Agents => KeyField \notin DOMAIN k.values
        /\ c \in Signals => KeyField \in DOMAIN k.values /\ k.values[KeyField] = KeyOf(c)
    BY <1>1, <2>3, <2>4 DEF KeyCall
  <2> QED  BY <1>1, <2>2, <2>3, <2>5, KeysGoOn
<1> QED  BY <1>2, <1>3

LEMMA WriteMergedKeys ==
    ASSUME KeysBySignals, RecordsInv, KeysInv, NEW c \in Callers, WriteMerged(c),
           UNCHANGED <<runs, contested>>
    PROVE  KeysInv'
<1> DEFINE i == calls[c].id
           values == calls[c].values
           seen == calls[c].seen
<1>1. calls[c].pc = "write" /\ KeyCall(c, calls[c])
  BY DEF WriteMerged, KeysInv
<1>2. /\ calls[c].op = "update" /\ values \in Partial(Fields, Value) /\ seen \in Data
      /\ i \in Ids /\ i # ""
  BY <1>1, CallOf, ConstantsAssumption DEF Call, CallFits, Kept
<1>3. CASE ~Live(i)
  BY <1>3, FailsKeys DEF WriteMerged
<1>4. CASE Live(i)
  <2>1. PICK j \in Ids : j = i
    BY <1>2
  <2>2. PICK data : data = Merged(seen, values)
    OBVIOUS
  <2>3. /\ records' = [records EXCEPT ![j] = [state |-> "live", type |-> records[j].type,
                                              data |-> data]]
        /\ Ends(c, "done", j, data) /\ byHand' = byHand \cup (IF c \in Pages THEN {j} ELSE {})
    BY <1>4, <2>1, <2>2 DEF WriteMerged, Writes, Patched
  <2>4. /\ records'[j].state = "live" /\ records'[j].type = records[j].type
        /\ records'[j].data = data /\ records[j].state = "live"
        /\ \A h \in Ids \ {j} : records'[h] = records[h]
    BY <1>4, <2>1, <2>3 DEF RecordsInv, RecordsTypeOK, Live
  <2>5. ASSUME c \notin Pages, Ours(j)
        PROVE  KeyIn(data) = KeyIn(records[j].data)
    <3>1. KeyIn(seen) = KeyIn(records[j].data)
      BY <1>1, <2>1, <2>5 DEF KeyCall
    <3>2. CASE c \in Agents
      <4>1. KeyField \notin DOMAIN values
        BY <1>1, <1>2, <3>2 DEF KeyCall
      <4> QED  BY <1>2, <2>2, <3>1, <4>1, KeyMerged
    <3>3. CASE c \in Signals
      <4>1. /\ KeyField \in DOMAIN values /\ values[KeyField] = KeyOf(c)
            /\ HasKey(j, KeyOf(c)) /\ runs[c].pc = "save"
        BY <1>1, <1>2, <2>1, <3>3 DEF KeyCall
      <4>2. KeyField \in DOMAIN Signal[c] /\ KeyOf(c) # Blank
        BY <1>1, <3>3, <4>1 DEF KeyCall
      <4>3. values[KeyField] # Undefined
        BY <3>3, <4>1, <4>2, KeyTyped
      <4>4. KeyIn(data) = KeyOf(c)
        BY <1>2, <2>2, <4>1, <4>3, KeyMerged
      <4> QED  BY <2>5, <4>1, <4>4 DEF HasKey, Ours
    <3>4. c \notin Mails
      BY <1>1, <1>2 DEF KeyCall
    <3> QED  BY <2>5, <3>2, <3>3, <3>4, PipelineAssumption DEF Callers, Runs
  <2>6. KeysStay
    BY <2>3, <2>4, <2>5 DEF KeysStay, Ours
  <2>7. NoneMade
    BY <2>4 DEF NoneMade
  <2>8. ~(c \in Signals /\ runs[c].pc = "lookup")
    BY <1>1, <1>2 DEF KeyCall
  <2> QED  BY <2>3, <2>6, <2>7, <2>8, EndsKeys
<1> QED  BY <1>3, <1>4

\* A signal creates a record: it is the only one with its key, or the key is
\* contested.
LEMMA SignalCreates ==
    ASSUME KeysBySignals, RecordsInv, KeysInv, NEW c \in Signals, calls[c].op = "create",
           UNCHANGED <<runs, contested, byHand>>, NEW i \in Ids, NEW data,
           records[i].state = "free", KeyIn(data) = KeyOf(c),
           records' = [records EXCEPT ![i] = [state |-> "live", type |-> RecordType,
                                              data |-> data]],
           NEW k, Goes(c, k), k.op = "find", k.pc = "done"
    PROVE  KeysInv'
<1>1. /\ records'[i].state = "live" /\ records'[i].type = RecordType /\ records'[i].data = data
      /\ \A j \in Ids \ {i} : records'[j] = records[j]
  BY DEF RecordsInv, RecordsTypeOK
<1>2. c \in Callers /\ KeyCall(c, calls[c])
  BY Actors DEF KeysInv
<1>3. /\ runs[c].pc = "save" /\ KeyField \in DOMAIN Signal[c] /\ KeyOf(c) # Blank
  BY <1>2 DEF KeyCall
<1>4. KeyOf(c).neat /\ KeyOf(c).text # ""
  BY <1>3, KeyTyped
<1>5. calls'[c] = k /\ \A d \in Callers \ {c} : calls'[d] = calls[d]
  BY <1>2, GoesTo
<1>6. KeysStay
  BY <1>1 DEF KeysStay
<1>7. ASSUME NEW d \in Callers  PROVE KeyCall(d, calls[d])'
  <2>1. CASE d = c
    <3>1. KeyCall(c, k)'
      BY <1>3, PipelineAssumption DEF KeyCall, KeyOf, Runs
    <3> QED  BY <1>5, <2>1, <3>1
  <2>2. CASE d # c
    <3>1. PICK m \in Call : m = calls[d]
      BY CallOf
    <3>2. KeyCall(d, m) /\ CallFits(d, m) /\ calls'[d] = m
      BY <1>5, <2>2, <3>1, CallOf DEF KeysInv
    <3>3. KeyCall(d, m)'
      BY <1>6, <3>2, KeyCallStays
    <3> QED  BY <3>2, <3>3
  <2> QED  BY <2>1, <2>2
<1>8. \A j \in Ids : (Live(j) /\ Ours(j))' =>
          KeyIn(records'[j].data).text = "" \/ KeyIn(records'[j].data).neat
  <2>1. ASSUME NEW j \in Ids, (Live(j) /\ Ours(j))'
        PROVE  KeyIn(records'[j].data).text = "" \/ KeyIn(records'[j].data).neat
    <3>1. CASE j = i
      BY <1>1, <1>4, <3>1
    <3>2. CASE j # i
      <4>1. records'[j] = records[j] /\ Live(j) /\ Ours(j)
        BY <1>1, <2>1, <3>2 DEF Live, Ours
      <4> QED  BY <4>1 DEF KeysInv
    <3> QED  BY <3>1, <3>2
  <2> QED  BY <2>1
<1>9. KeyOf(c).text \in contested \/ NoneOf(KeyOf(c).text)
  BY DEF KeysInv, Creating
<1>10. ASSUME NEW r \in Signals, Creating(r)'
       PROVE  KeyOf(r).text \in contested' \/ NoneOf(KeyOf(r).text)'
  <2>1. r # c
    BY <1>3, <1>5, <1>10 DEF Creating
  <2>2. r \in Callers /\ calls'[r] = calls[r] /\ runs'[r].pc = runs[r].pc
    BY <1>5, <2>1, Actors
  <2>3. Creating(r)
    BY <1>10, <2>2 DEF Creating
  <2>4. KeyCall(r, calls[r])
    BY <2>2 DEF KeysInv
  <2>5. InFlight(r) /\ InFlight(c)
    BY <1>3, <2>3, <2>4 DEF Creating, KeyCall, InFlight
  <2>6. CASE KeyOf(r).text = KeyOf(c).text
    BY <2>1, <2>5, <2>6 DEF KeysInv, Contested
  <2>7. CASE KeyOf(r).text # KeyOf(c).text /\ NoneOf(KeyOf(r).text)
    BY <1>1, <2>7 DEF NoneOf, Live, Ours, KeyOf
  <2> QED  BY <2>3, <2>6, <2>7 DEF KeysInv
<1>11. Contested'
  BY ContestedStays DEF KeysInv
<1>12. ASSUME NEW j \in Ids, j # i, Live(j)', Ours(j)',
              TextOf(data, KeyField) \notin contested'
       PROVE  TextOf(records'[j].data, KeyField) # TextOf(data, KeyField)
  <2>1. KeyIn(records'[j].data).text # KeyOf(c).text
    <3>1. NoneOf(KeyOf(c).text)
      BY <1>9, <1>12, KeyText
    <3> QED  BY <1>1, <1>12, <3>1 DEF NoneOf, Live, Ours
  <2> QED  BY <2>1, KeyText
<1>13. ASSUME NEW j \in Ids \ byHand', NEW h \in Ids \ byHand', j # h, Live(j)', Live(h)',
              records'[j].type = RecordType, records'[h].type = RecordType,
              TextOf(records'[j].data, KeyField) \notin contested' \cup {""}
       PROVE  TextOf(records'[j].data, KeyField) # TextOf(records'[h].data, KeyField)
  <2>1. CASE j = i
    <3>1. Ours(h)'
      BY <1>13 DEF Ours
    <3> QED  BY <1>1, <1>12, <1>13, <2>1, <3>1
  <2>2. CASE h = i
    <3>1. Ours(j)'
      BY <1>13 DEF Ours
    <3>2. SUFFICES ASSUME TextOf(records'[j].data, KeyField) = TextOf(data, KeyField)
                   PROVE  FALSE
      BY <1>1, <2>2
    <3> QED  BY <1>12, <1>13, <2>2, <3>1, <3>2
  <2>3. CASE j # i /\ h # i
    <3>1. records'[j] = records[j] /\ records'[h] = records[h] /\ Live(j) /\ Live(h)
      BY <1>1, <1>13, <2>3 DEF Live
    <3> QED  BY <1>13, <3>1 DEF KeysInv, OneRecordUnlessContested
  <2> QED  BY <2>1, <2>2, <2>3
<1>14. OneRecordUnlessContested'
  BY <1>13 DEF OneRecordUnlessContested
<1> QED  BY <1>7, <1>8, <1>10, <1>11, <1>14 DEF KeysInv, KeyOf

LEMMA Apart ==
    /\ Agents \cap Pages = {} /\ Agents \cap Pipelines = {}
    /\ \A c \in Agents \cup Pages : c \in Callers /\ c \notin Signals /\ c \notin Mails
<1>1. /\ Agents \cap Pipelines = {} /\ Pages \cap Pipelines = {} /\ Agents \cap Pages = {}
  BY ConstantsAssumption
<1> QED  BY <1>1, Actors DEF Callers

LEMMA InsertKeys ==
    ASSUME KeysBySignals, RecordsInv, KeysInv, NEW c \in Callers, Insert(c),
           UNCHANGED <<runs, contested>>
    PROVE  KeysInv'
<1> DEFINE t == calls[c].type
           values == calls[c].values
<1>1. /\ calls[c].pc = "insert" /\ KeyCall(c, calls[c]) /\ calls[c].op = "create"
      /\ values \in Partial(Fields, Value) /\ "" \notin Ids
  BY CallOf, ConstantsAssumption DEF Insert, KeysInv, Call, CallFits
<1>2. CASE t \notin DOMAIN types
  BY <1>2, FailsKeys DEF Insert
<1>3. CASE t \in DOMAIN types
  <2>1. PICK i \in Ids : records[i].state = "free" /\ i = CHOOSE j \in Ids : records[j].state = "free"
    BY <1>3 DEF Insert
  <2>2. PICK data : data = Merged(Empty, values)
    OBVIOUS
  <2>3. /\ records' = [records EXCEPT ![i] = [state |-> "live", type |-> t, data |-> data]]
        /\ Ends(c, "done", i, data) /\ byHand' = byHand \cup (IF c \in Pages THEN {i} ELSE {})
    BY <1>3, <2>1, <2>2 DEF Insert, Writes
  <2>4. CASE c \in Agents \cup Pages
    <3>1. /\ records'[i].type = t /\ \A j \in Ids \ {i} : records'[j] = records[j]
      BY <2>3 DEF RecordsInv, RecordsTypeOK
    <3>2. c \in Agents => t # RecordType
      BY <1>1 DEF KeyCall
    <3>3. KeysStay
      BY <2>1, <2>3, <3>1 DEF KeysStay
    <3>4. NoneMade
      BY <2>3, <2>4, <3>1, <3>2 DEF NoneMade
    <3>5. c \notin Signals
      BY <2>4, Apart
    <3> QED  BY <2>3, <3>3, <3>4, <3>5, EndsKeys
  <2>5. CASE c \in Signals
    <3>1. PICK k : k = Ended(c, "done", i, data)
      OBVIOUS
    <3>2. Goes(c, k)
      BY <2>3, <3>1 DEF Ends, Ended
    <3>3. c \in Pipelines /\ c \notin Pages
      BY <2>5, Apart, Actors
    <3>4. k.op = "find" /\ k.pc = "done"
      <4>1. Ended(c, "done", i, data).op = "find" /\ Ended(c, "done", i, data).pc = "done"
        BY <3>3, EndedFind
      <4> QED  BY <3>1, <4>1
    <3>5. /\ runs[c].pc = "save" /\ t = RecordType
          /\ KeyField \in DOMAIN values /\ values[KeyField] = KeyOf(c)
      BY <1>1, <2>5 DEF KeyCall
    <3>6. KeyField \in DOMAIN Signal[c] /\ KeyOf(c) # Blank
      BY <1>1, <2>5, <3>5 DEF KeyCall
    <3>7. values[KeyField] # Undefined
      BY <2>5, <3>5, <3>6, KeyTyped
    <3>8. KeyIn(data) = KeyOf(c)
      BY <1>1, <2>2, <3>5, <3>7, KeyMerged, EmptyTyped
    <3>9. UNCHANGED byHand
      BY <2>3, <3>3
    <3> QED  BY <1>1, <2>1, <2>3, <2>5, <3>2, <3>4, <3>5, <3>8, <3>9, SignalCreates
  <2>6. c \notin Mails
    BY <1>1 DEF KeyCall
  <2> QED  BY <2>4, <2>5, <2>6, PipelineAssumption DEF Callers, Runs
<1> QED  BY <1>2, <1>3

LEMMA CallStepsKeys ==
    ASSUME KeysBySignals, RecordsInv, KeysInv, NEW c \in Callers, CallSteps(c),
           UNCHANGED <<runs, contested>>
    PROVE  KeysInv'
<1>1. CASE QueryFails(c)
  BY <1>1, FailsKeys DEF QueryFails, Reading
<1> QED
  BY <1>1, ResolveKeys, FindByValueKeys, SearchByTextKeys, FindExistingKeys, LoadFieldsKeys,
     CheckReferenceKeys, InsertKeys, ReadForMergeKeys, WriteMergedKeys DEF CallSteps

-----------------------------------------------------------------------------
(* The keys and what is done beside the calls of runs.                      *)

\* The calls stay as they are, and records go at most.
LEMMA KeysStill ==
    ASSUME RecordsInv, KeysInv, KeysStay, NoneMade, UNCHANGED <<runs, contested, calls>>
    PROVE  KeysInv'
<1>1. ASSUME NEW c \in Callers  PROVE KeyCall(c, calls[c])'
  <2>1. PICK k \in Call : k = calls[c]
    BY <1>1, CallOf
  <2>2. KeyCall(c, k) /\ CallFits(c, k) /\ calls'[c] = k
    BY <1>1, <2>1, CallOf DEF KeysInv
  <2>3. KeyCall(c, k)'
    BY <2>2, KeyCallStays
  <2> QED  BY <2>2, <2>3
<1>2. ASSUME NEW r \in Signals, Creating(r)'  PROVE Creating(r) \/ NoneOf(KeyOf(r).text)
  BY <1>2 DEF Creating
<1>3. Contested'
  BY ContestedStays DEF KeysInv
<1> QED  BY <1>1, <1>2, <1>3, KeysHold

LEMMA CallToolKeys ==
    ASSUME KeysBySignals, RecordsInv, KeysInv, NEW c \in Agents, CallTool(c),
           UNCHANGED <<runs, contested>>
    PROVE  KeysInv'
<1>1. PICK ask \in Asks : Invoke(c, ask.op, ask.type, ask.id, ask.patch)
  BY DEF CallTool
<1>2. KeysStay /\ NoneMade
  BY RecordsStayKeys DEF CallTool, Reading
<1>3. /\ ask.op = "create" => ask.type # RecordType
      /\ ask.op = "update" => KeyField \notin DOMAIN ask.patch
  BY DEF KeysBySignals
<1>4. PICK k : k = [NoCall EXCEPT !.pc = "resolve", !.op = ask.op, !.type = ask.type,
                                  !.id = ask.id, !.patch = ask.patch]
  OBVIOUS
<1>5. Goes(c, k)
  BY <1>1, <1>4 DEF Invoke
<1>6. /\ k.pc = "resolve" /\ k.op = ask.op /\ k.type = ask.type /\ k.patch = ask.patch
      /\ DOMAIN k.values = {}
  BY <1>4, EmptyTyped DEF NoCall
<1>7. c \in Callers /\ c \notin Signals /\ c \notin Mails
  BY Apart
<1>8. KeyCall(c, k)'
  BY <1>3, <1>6, <1>7 DEF KeyCall
<1> QED  BY <1>2, <1>5, <1>7, <1>8, KeysGo

\* A page's own call says nothing of the key.
LEMMA PageKeys ==
    ASSUME RecordsInv, KeysInv, NEW c \in Pages, UNCHANGED <<records, byHand, runs, contested>>,
           NEW k, Goes(c, k)
    PROVE  KeysInv'
<1>1. KeysStay /\ NoneMade
  BY RecordsStayKeys
<1>2. c \in Callers /\ c \notin Agents /\ c \notin Signals /\ c \notin Mails
  BY Apart
<1>3. KeyCall(c, k)'
  BY <1>2 DEF KeyCall
<1> QED  BY <1>1, <1>2, <1>3, KeysGo

LEMMA CatalogKeys ==
    ASSUME KeysBySignals, RecordsInv, KeysInv, CatalogSteps, UNCHANGED <<runs, contested>>
    PROVE  KeysInv'
<1>1. records \in [Ids -> [state : {"free", "live", "gone"}, type : Types, data : Data]]
  BY DEF RecordsInv, RecordsTypeOK
<1>2. Agents \subseteq Callers /\ Pages \subseteq Callers
  BY DEF Callers
<1>3. ASSUME UNCHANGED <<calls, byHand>>,
             \A i \in Ids : \/ records'[i] = records[i]
                            \/ /\ records[i].state = "live" /\ records'[i].state = "gone"
                               /\ records'[i].type = records[i].type
                               /\ records'[i].data = records[i].data
      PROVE  KeysInv'
  <2>1. KeysStay
    BY <1>3 DEF KeysStay
  <2>2. NoneMade
    BY <1>3 DEF NoneMade
  <2> QED  BY <1>3, <2>1, <2>2, KeysStill
<1>4. CASE \E c \in Agents \cup Pages : CallSteps(c)
  BY <1>2, <1>4, CallStepsKeys
<1>5. CASE \E c \in Agents : CallTool(c)
  BY <1>5, CallToolKeys
<1>6. CASE \E c \in Pages : OpenForm(c) \/ Submit(c)
  BY <1>6, PageKeys DEF OpenForm, Submit, Reading
<1>7. CASE \E c \in Pages : ParseForm(c)
  BY <1>7, PageKeys DEF ParseForm, Fails, Ends, Reading
<1>8. CASE \E i \in Ids : DeleteRecord(i)
  <2>1. PICK i \in Ids : DeleteRecord(i)
    BY <1>8
  <2>2. /\ records'[i].state = "gone" /\ records'[i].type = records[i].type
        /\ records'[i].data = records[i].data /\ records[i].state = "live"
        /\ \A j \in Ids \ {i} : records'[j] = records[j]
    BY <1>1, <2>1 DEF DeleteRecord, Live
  <2> QED  BY <1>3, <2>1, <2>2 DEF DeleteRecord
<1>9. CASE \E t \in Types : CreateType(t) \/ Redefine(t)
  BY <1>3, <1>9 DEF CreateType, Redefine
<1>10. CASE \E t \in Types : DropType(t)
  <2>1. PICK t \in Types : DropType(t)
    BY <1>10
  <2>2. ASSUME NEW i \in Ids
        PROVE  \/ records'[i] = records[i]
               \/ /\ records[i].state = "live" /\ records'[i].state = "gone"
                  /\ records'[i].type = records[i].type /\ records'[i].data = records[i].data
    <3>1. records'[i] = IF Live(i) /\ records[i].type = t
                        THEN [records[i] EXCEPT !.state = "gone"] ELSE records[i]
      BY <2>1 DEF DropType
    <3>2. /\ [records[i] EXCEPT !.state = "gone"].state = "gone"
          /\ [records[i] EXCEPT !.state = "gone"].type = records[i].type
          /\ [records[i] EXCEPT !.state = "gone"].data = records[i].data
      BY <1>1
    <3> QED  BY <3>1, <3>2 DEF Live
  <2> QED  BY <1>3, <2>1, <2>2 DEF DropType
<1> QED
  BY <1>4, <1>5, <1>6, <1>7, <1>8, <1>9, <1>10 DEF CatalogSteps

-----------------------------------------------------------------------------
(* The keys and the steps of runs.                                          *)

\* A run goes on that is no longer about its key.
LEMMA RunKeys ==
    ASSUME RecordsInv, KeysInv, UNCHANGED <<records, byHand, calls, contested>>, NEW r \in Runs,
           NEW run, run.pc \notin {"lookup", "save"}, Becomes(r, run),
           runs[r].pc # "save", RunsInv
    PROVE  KeysInv'
<1>1. runs'[r] = run /\ \A q \in Runs \ {r} : runs'[q] = runs[q]
  BY DEF Becomes, RunsInv
<1>2. KeysStay /\ NoneMade /\ r \in Callers /\ KeyCall(r, calls[r])
  BY RecordsStayKeys, Actors DEF KeysInv
<1>3. PICK k : k = calls[r]
  OBVIOUS
<1>4. /\ calls'[r] = k
      /\ r \in Signals => k.op = "find"
      /\ runs'[r].pc \notin {"lookup", "save"}
  BY <1>1, <1>2, <1>3 DEF KeyCall
<1>5. KeyCall(r, k)'
  BY <1>2, <1>3, <1>4 DEF KeyCall, KeyOf, Ours
<1>6. KeyCall(r, calls[r])'
  BY <1>3, <1>5
<1>7. Contested'
  <2>1. \A q \in Signals : InFlight(q)' => InFlight(q)
    BY <1>1, <1>4, Actors DEF InFlight
  <2> QED  BY <2>1 DEF KeysInv, Contested, KeyOf
<1>8. ~(r \in Signals /\ Creating(r)')
  BY <1>4 DEF Creating
<1>9. \A q \in Signals \ {r} : runs'[q].pc = runs[q].pc
  BY <1>1, Actors
<1> QED  BY <1>2, <1>6, <1>7, <1>8, <1>9, KeysMove

\* A run asks for the record with a key.
LEMMA FindKeys ==
    ASSUME RecordsInv, RunsInv, KeysInv, NEW r \in Runs, NEW v, Find(r, v),
           contested \subseteq contested', Contested',
           r \in Signals => v = KeyOf(r) /\ KeyField \in DOMAIN Signal[r] /\ KeyOf(r) # Blank
    PROVE  KeysInv'
<1>1. KeysStay /\ NoneMade
  BY RecordsStayKeys DEF Find, Reading
<1>2. PICK patch : patch = [f \in {KeyField} |-> v]
  OBVIOUS
<1>3. PICK k : k = [NoCall EXCEPT !.pc = "resolve", !.op = "find", !.type = RecordType,
                                  !.id = "", !.patch = patch]
  OBVIOUS
<1>4. Goes(r, k)
  BY <1>2, <1>3 DEF Find, Invoke
<1>5. k.pc = "resolve" /\ k.op = "find" /\ k.type = RecordType /\ k.patch = patch
  BY <1>3 DEF NoCall
<1>6. r \in Callers /\ r \in Pipelines /\ r \notin Agents
  BY Apart, Actors
<1>7. calls'[r] = k /\ \A d \in Callers \ {r} : calls'[d] = calls[d]
  BY <1>4, <1>6, GoesTo
<1>8. runs'[r] = [runs[r] EXCEPT !.pc = "lookup"] /\ \A q \in Runs \ {r} : runs'[q] = runs[q]
  BY DEF Find, Becomes, RunsInv
<1>9. KeyCall(r, k)'
  BY <1>2, <1>5, <1>6 DEF KeyCall, KeyOf
<1>10. KeyCall(r, calls[r])'
  BY <1>7, <1>9
<1>11. ~Creating(r)'
  BY <1>5, <1>7 DEF Creating
<1>12. \A q \in Signals \ {r} : runs'[q].pc = runs[q].pc
  BY <1>8, Actors
<1> QED  BY <1>1, <1>6, <1>7, <1>10, <1>11, <1>12, KeysMove

LEMMA StartSignalKeys ==
    ASSUME PipelinesInv, KeysInv, NEW r \in Runs, StartSignal(r)
    PROVE  KeysInv'
<1>1. RecordsInv /\ RunsInv /\ r \in Signals /\ runs[r].pc = "new" /\ r \in Callers
  BY Actors DEF PipelinesInv, StartSignal
<1>2. CASE {KeyField, StatusField} \subseteq DOMAIN Signal[r] /\ KeyOf(r) # Blank
  <2>1. /\ Find(r, KeyOf(r))
        /\ contested' = contested \cup
              {t \in {KeyOf(r).text} : \E q \in Signals \ {r} :
                  runs[q].pc \in {"lookup", "save"} /\ KeyOf(q).text = t}
    BY <1>2 DEF StartSignal
  <2>2. /\ \A q \in Runs \ {r} : runs'[q] = runs[q]
        /\ \A q \in Signals \ {r} : runs'[q] = runs[q]
    <3>1. \A q \in Runs \ {r} : runs'[q] = runs[q]
      BY <1>1, <2>1 DEF Find, Becomes, RunsInv
    <3> QED  BY <3>1, Actors
  <2>3. ASSUME NEW q \in Signals \ {r}, InFlight(q)', KeyOf(q).text = KeyOf(r).text
        PROVE  KeyOf(r).text \in contested'
    BY <2>1, <2>2, <2>3 DEF InFlight
  <2>4. ASSUME NEW p \in Signals, NEW q \in Signals, p # q, InFlight(p)', InFlight(q)',
               KeyOf(p).text = KeyOf(q).text
        PROVE  KeyOf(q).text \in contested'
    <3>1. CASE p = r \/ q = r
      BY <2>3, <2>4, <3>1
    <3>2. CASE p # r /\ q # r
      <4>1. InFlight(p) /\ InFlight(q)
        BY <2>2, <2>4, <3>2 DEF InFlight
      <4>2. KeyOf(q).text \in contested
        BY <2>4, <4>1 DEF KeysInv, Contested
      <4> QED  BY <2>1, <4>2
    <3> QED  BY <3>1, <3>2
  <2>5. Contested'
    BY <2>4 DEF Contested, KeyOf
  <2>6. PICK v : v = KeyOf(r)
    OBVIOUS
  <2>7. Find(r, v) /\ contested \subseteq contested'
    BY <2>1, <2>6
  <2> QED  BY <1>1, <1>2, <2>5, <2>6, <2>7, FindKeys
<1>3. CASE ~({KeyField, StatusField} \subseteq DOMAIN Signal[r] /\ KeyOf(r) # Blank)
  <2>1. Fail(r) /\ UNCHANGED contested
    BY <1>3 DEF StartSignal
  <2>2. PICK run : run = [runs[r] EXCEPT !.pc = "over", !.status = "FAILED"]
    OBVIOUS
  <2>3. runs[r] \in Run
    BY <1>1, RunOf
  <2>4. run.pc = "over"
    BY <2>2, <2>3 DEF Run
  <2>5. Becomes(r, run) /\ UNCHANGED <<records, byHand, calls>>
    BY <2>1, <2>2 DEF Fail, Settles, NoRecordStep, recordVars
  <2> QED  BY <1>1, <2>1, <2>4, <2>5, RunKeys
<1> QED  BY <1>2, <1>3

LEMMA StartMailKeys ==
    ASSUME PipelinesInv, KeysInv, NEW r \in Runs, StartMail(r)
    PROVE  KeysInv'
<1>1. /\ RecordsInv /\ RunsInv /\ r \in Mails /\ r \notin Signals /\ runs[r].pc = "new"
      /\ UNCHANGED contested
  BY Actors DEF PipelinesInv, StartMail, Effects
<1>2. CASE Mail[r].token # ""
  <2>1. Find(r, Neat(Mail[r].token))
    BY <1>2 DEF StartMail
  <2>2. \A q \in Runs \ {r} : runs'[q] = runs[q]
    BY <1>1, <2>1 DEF Find, Becomes, RunsInv
  <2>3. \A q \in Signals : runs'[q] = runs[q]
    BY <1>1, <2>2, Actors
  <2>4. Contested'
    BY <1>1, <2>3 DEF KeysInv, Contested, InFlight, KeyOf
  <2> QED  BY <1>1, <2>1, <2>4, FindKeys
<1>3. CASE Mail[r].token = ""
  <2>1. Fail(r)
    BY <1>3 DEF StartMail
  <2>2. PICK run : run = [runs[r] EXCEPT !.pc = "over", !.status = "FAILED"]
    OBVIOUS
  <2>3. runs[r] \in Run
    BY <1>1, RunOf
  <2>4. run.pc = "over"
    BY <2>2, <2>3 DEF Run
  <2>5. Becomes(r, run) /\ UNCHANGED <<records, byHand, calls>>
    BY <2>1, <2>2 DEF Fail, Settles, NoRecordStep, recordVars
  <2> QED  BY <1>1, <2>4, <2>5, RunKeys
<1> QED  BY <1>2, <1>3

LEMMA SaveSignalKeys ==
    ASSUME PipelinesInv, KeysInv, NEW r \in Runs, SaveSignal(r)
    PROVE  KeysInv'
<1>1. /\ RecordsInv /\ RunsInv /\ r \in Signals /\ runs[r].pc = "lookup" /\ UNCHANGED contested
      /\ r \in Callers /\ runs[r] \in Run
  BY Actors, RunOf DEF PipelinesInv, SaveSignal, Effects
<1>2. KeyCall(r, calls[r])
  BY <1>1 DEF KeysInv
<1>3. CASE Fail(r)
  <2>1. PICK run : run = [runs[r] EXCEPT !.pc = "over", !.status = "FAILED"]
    OBVIOUS
  <2>2. run.pc = "over"
    BY <1>1, <2>1 DEF Run
  <2>3. Becomes(r, run) /\ UNCHANGED <<records, byHand, calls>>
    BY <1>3, <2>1 DEF Fail, Settles, NoRecordStep, recordVars
  <2> QED  BY <1>1, <2>2, <2>3, RunKeys
<1>4. CASE ~Fail(r)
  <2>1. /\ calls[r].pc = "done" /\ Reading
        /\ Invoke(r, WriteTool(calls[r].id), RecordType, calls[r].id, Signal[r])
        /\ Becomes(r, [runs[r] EXCEPT !.pc = "save"])
    BY <1>4 DEF SaveSignal
  <2>2. KeysStay /\ NoneMade /\ UNCHANGED <<records, byHand>>
    BY <1>1, <2>1, RecordsStayKeys DEF Reading
  <2>3. PICK id : id = calls[r].id
    OBVIOUS
  <2>4. PICK k : k = [NoCall EXCEPT !.pc = "resolve", !.op = WriteTool(id), !.type = RecordType,
                                    !.id = id, !.patch = Signal[r]]
    OBVIOUS
  <2>5. Goes(r, k)
    BY <2>1, <2>3, <2>4 DEF Invoke
  <2>6. /\ k.pc = "resolve" /\ k.op = (IF id = "" THEN "create" ELSE "update")
        /\ k.type = RecordType /\ k.id = id /\ k.patch = Signal[r]
    BY <2>4 DEF NoCall, WriteTool
  <2>7. calls'[r] = k /\ \A d \in Callers \ {r} : calls'[d] = calls[d]
    BY <1>1, <2>5, GoesTo
  <2>8. runs'[r].pc = "save" /\ \A q \in Runs \ {r} : runs'[q] = runs[q]
    BY <1>1, <2>1 DEF Becomes, RunsInv, Run
  <2>9. k.op = "update" => HasKey(k.id, KeyOf(r))'
    <3>1. k.op = "update" => HasKey(k.id, KeyOf(r))
      BY <1>1, <1>2, <2>1, <2>3, <2>6 DEF KeyCall
    <3> QED  BY <2>2, <3>1 DEF HasKey, KeyOf
  <2>10. KeyField \in DOMAIN Signal[r] /\ KeyOf(r) # Blank
    BY <1>1, <1>2 DEF KeyCall
  <2>11. r \notin Agents /\ r \notin Mails
    BY <1>1, Apart, Actors
  <2>12. KeyCall(r, k)'
    BY <2>6, <2>8, <2>9, <2>10, <2>11 DEF KeyCall, KeyOf
  <2>13. KeyCall(r, calls[r])'
    BY <2>7, <2>12
  <2>14. Creating(r)' => Creating(r)
    BY <1>1, <2>1, <2>3, <2>6, <2>7, <2>8 DEF Creating
  <2>15. \A q \in Signals : InFlight(q)' => InFlight(q)
    BY <1>1, <2>8, Actors DEF InFlight
  <2>16. Contested'
    BY <1>1, <2>15 DEF KeysInv, Contested, KeyOf
  <2>17. \A q \in Signals \ {r} : runs'[q].pc = runs[q].pc
    BY <2>8, Actors
  <2> QED  BY <1>1, <2>2, <2>7, <2>13, <2>14, <2>16, <2>17, KeysMove
<1> QED  BY <1>3, <1>4

LEMMA ApplyTransitionKeys ==
    ASSUME PipelinesInv, KeysInv, NEW r \in Runs, ApplyTransition(r)
    PROVE  KeysInv'
<1>1. /\ RecordsInv /\ RunsInv /\ UNCHANGED contested /\ Reading /\ Goes(r, NoCall)
      /\ r \in Callers /\ runs[r] \in Run /\ r \in Signals
  BY Actors, RunOf DEF PipelinesInv, ApplyTransition, Effects, RunFits
<1>2. KeysStay /\ NoneMade
  BY <1>1, RecordsStayKeys DEF Reading
<1>3. PICK run : Becomes(r, run) /\ run.pc \in {"over", "folder"}
  <2>1. ASSUME NEW status, Settles(r, status)  PROVE \E run : Becomes(r, run) /\ run.pc = "over"
    <3>1. [runs[r] EXCEPT !.pc = "over", !.status = status].pc = "over"
      BY <1>1 DEF Run
    <3> QED  BY <2>1, <3>1 DEF Settles
  <2>2. ASSUME NEW id, NEW data, NEW paths,
               Becomes(r, [runs[r] EXCEPT !.pc = "folder", !.id = id, !.data = data,
                                          !.paths = paths])
        PROVE  \E run : Becomes(r, run) /\ run.pc = "folder"
    <3>1. [runs[r] EXCEPT !.pc = "folder", !.id = id, !.data = data, !.paths = paths].pc
             = "folder"
      BY <1>1 DEF Run
    <3> QED  BY <2>2, <3>1
  <2> QED  BY <2>1, <2>2 DEF ApplyTransition
<1>4. /\ runs'[r].pc \in {"over", "folder"} /\ \A q \in Runs \ {r} : runs'[q] = runs[q]
  BY <1>1, <1>3 DEF Becomes, RunsInv
<1>5. calls'[r] = NoCall /\ \A d \in Callers \ {r} : calls'[d] = calls[d]
  BY <1>1, GoesTo
<1>6. PICK k : k = NoCall
  OBVIOUS
<1>7. k.pc = "idle" /\ k.op = "find"
  BY <1>6 DEF NoCall
<1>8. r \notin Agents /\ r \notin Mails
  BY <1>1, Apart, Actors
<1>9. KeyCall(r, k)'
  BY <1>4, <1>7, <1>8 DEF KeyCall
<1>10. KeyCall(r, calls[r])'
  BY <1>5, <1>6, <1>9
<1>11. ~Creating(r)'
  BY <1>4, <1>5, <1>6, <1>7 DEF Creating
<1>12. \A q \in Signals : InFlight(q)' => InFlight(q)
  BY <1>4, Actors DEF InFlight
<1>13. Contested'
  BY <1>1, <1>12 DEF KeysInv, Contested, KeyOf
<1>14. \A q \in Signals \ {r} : runs'[q].pc = runs[q].pc
  BY <1>4, Actors
<1> QED  BY <1>1, <1>2, <1>5, <1>10, <1>11, <1>13, <1>14, KeysMove

\* The steps that neither call a tool of the records nor end on the answer of one.
LEMMA OtherRunKeys ==
    ASSUME PipelinesInv, KeysInv, NEW r \in Runs,
           \/ CreateFolder(r) \/ StoreRefused(r) \/ Notify(r) \/ ProposeMail(r)
           \/ SaveBody(r) \/ SaveAttachment(r)
    PROVE  KeysInv'
<1>1. RecordsInv /\ RunsInv /\ runs[r] \in Run
  BY RunOf DEF PipelinesInv
<1>2. UNCHANGED <<records, byHand, calls, contested>> /\ runs[r].pc # "save"
  <2>1. UNCHANGED contested /\ NoRecordStep
    BY DEF CreateFolder, StoreRefused, Notify, ProposeMail, SaveBody, SaveAttachment, Effects
  <2>2. runs[r].pc # "save"
    BY DEF CreateFolder, StoreRefused, Notify, ProposeMail, SaveBody, SaveAttachment
  <2> QED  BY <2>1, <2>2 DEF NoRecordStep, recordVars
<1>3. ASSUME NEW status, Settles(r, status)  PROVE KeysInv'
  <2>1. PICK run : run = [runs[r] EXCEPT !.pc = "over", !.status = status]
    OBVIOUS
  <2>2. run.pc = "over"
    BY <1>1, <2>1 DEF Run
  <2>3. Becomes(r, run)
    BY <1>3, <2>1 DEF Settles
  <2> QED  BY <1>1, <1>2, <2>2, <2>3, RunKeys
<1>4. ASSUME NEW run, Becomes(r, run), run.pc \notin {"lookup", "save"}  PROVE KeysInv'
  BY <1>1, <1>2, <1>4, RunKeys
<1>5. ASSUME NEW pc, pc \notin {"lookup", "save"}, Becomes(r, [runs[r] EXCEPT !.pc = pc])
      PROVE  KeysInv'
  <2>1. [runs[r] EXCEPT !.pc = pc].pc = pc
    BY <1>1 DEF Run
  <2> QED  BY <1>4, <1>5, <2>1
<1>6. CASE CreateFolder(r)
  <2>1. [runs[r] EXCEPT !.paths = Tail(@)].pc = runs[r].pc
    BY <1>1 DEF Run
  <2>2. CASE Becomes(r, [runs[r] EXCEPT !.pc = "notify"])
    BY <1>5, <2>2
  <2>3. CASE Becomes(r, [runs[r] EXCEPT !.paths = Tail(@)]) /\ runs[r].pc = "folder"
    BY <1>4, <2>1, <2>3
  <2> QED  BY <1>6, <2>2, <2>3 DEF CreateFolder
<1>7. CASE StoreRefused(r)
  BY <1>3, <1>7 DEF StoreRefused
<1>8. CASE Notify(r)
  BY <1>3, <1>5, <1>8 DEF Notify
<1>9. CASE ProposeMail(r)
  BY <1>3, <1>9 DEF ProposeMail, WithoutAddress
<1>10. CASE SaveBody(r)
  <2>1. CASE Settles(r, "FAILED")
    BY <1>3, <2>1
  <2>2. CASE Becomes(r, [runs[r] EXCEPT !.pc = "attach", !.data = calls[r].values,
                                        !.files = Mail[r].attachments])
    <3>1. [runs[r] EXCEPT !.pc = "attach", !.data = calls[r].values,
                          !.files = Mail[r].attachments].pc = "attach"
      BY <1>1 DEF Run
    <3> QED  BY <1>4, <2>2, <3>1
  <2> QED  BY <1>10, <2>1, <2>2 DEF SaveBody
<1>11. CASE SaveAttachment(r)
  <2>1. [runs[r] EXCEPT !.files = Tail(@)].pc = runs[r].pc
    BY <1>1 DEF Run
  <2>2. CASE Becomes(r, [runs[r] EXCEPT !.files = Tail(@)]) /\ runs[r].pc = "attach"
    BY <1>4, <2>1, <2>2
  <2> QED  BY <1>3, <1>11, <2>2 DEF SaveAttachment
<1> QED
  BY <1>6, <1>7, <1>8, <1>9, <1>10, <1>11

LEMMA KeysNext ==
    ASSUME KeysBySignals
    PROVE  PipelinesInv /\ KeysInv /\ [Next]_vars => KeysInv'
<1> SUFFICES ASSUME PipelinesInv, KeysInv, [Next]_vars  PROVE KeysInv'
  OBVIOUS
<1>1. RecordsInv
  BY DEF PipelinesInv
<1>2. ASSUME NEW r \in Runs, RunSteps(r)  PROVE KeysInv'
  BY <1>2, StartSignalKeys, SaveSignalKeys, ApplyTransitionKeys, StartMailKeys, OtherRunKeys
     DEF RunSteps
<1>3. ASSUME UNCHANGED <<recordVars, runs, contested>>  PROVE KeysInv'
  <2>1. UNCHANGED <<records, byHand, calls, runs, contested>>
    BY <1>3 DEF recordVars
  <2>2. KeysStay /\ NoneMade
    BY <2>1, RecordsStayKeys
  <2> QED  BY <1>1, <2>1, <2>2, KeysStill
<1>4. ASSUME NEW r \in Requests, StartFill(r) \/ ToolSteps(r)  PROVE KeysInv'
  <2>1. CASE r \in Runs /\ CallSteps(r) /\ UNCHANGED <<runs, contested>>
    <3>1. r \in Callers
      BY <2>1, Actors
    <3> QED  BY <1>1, <2>1, <3>1, CallStepsKeys
  <2> QED  BY <1>3, <1>4, <2>1 DEF StartFill, ToolSteps, NoRecordStep, Effects
<1>5. ASSUME CatalogSteps, UNCHANGED <<runs, contested>>  PROVE KeysInv'
  BY <1>1, <1>5, CatalogKeys
<1>6. CASE UNCHANGED vars
  BY <1>3, <1>6 DEF vars
<1> QED
  BY <1>2, <1>4, <1>5, <1>6 DEF Next

LEMMA KeysStart ==
    ASSUME KeysBySignals
    PROVE  Init => KeysInv
<1> SUFFICES ASSUME Init  PROVE KeysInv
  OBVIOUS
<1>1. /\ \A c \in Callers : calls[c] = NoCall
      /\ \A r \in Runs : runs[r].pc = "new"
      /\ \A i \in Ids : Live(i) => /\ i \in DOMAIN Stored /\ records[i].type = Stored[i].type
                                   /\ records[i].data = Stored[i].data
  BY NoCallTyped DEF Init, RecordsInit, NewRun, Live
<1>2. ASSUME NEW c \in Callers  PROVE KeyCall(c, calls[c])
  <2>1. calls[c].pc = "idle" /\ calls[c].op = "find"
    <3>1. NoCall.pc = "idle" /\ NoCall.op = "find"
      BY DEF NoCall
    <3> QED  BY <1>1, <3>1
  <2>2. c \in Signals => runs[c].pc = "new"
    BY <1>1, Actors
  <2> QED  BY <2>1, <2>2 DEF KeyCall
<1> DEFINE Keyed == {k \in DOMAIN Stored : /\ Stored[k].type = RecordType
                                           /\ TextOf(Stored[k].data, KeyField) # ""}
<1>3. \A i, j \in Keyed :
          /\ Stored[i].data[KeyField].neat
          /\ TextOf(Stored[i].data, KeyField) = TextOf(Stored[j].data, KeyField) => i = j
  BY DEF KeysBySignals
<1>4. ASSUME NEW i \in Ids, Live(i), records[i].type = RecordType,
             TextOf(records[i].data, KeyField) # ""
      PROVE  i \in Keyed
  BY <1>1, <1>4
<1> HIDE DEF Keyed
<1>5. ASSUME NEW i \in Ids, Live(i), Ours(i), KeyIn(records[i].data).text # ""
      PROVE  KeyIn(records[i].data).neat
  <2>1. TextOf(records[i].data, KeyField) # ""
    BY <1>5, KeyText
  <2>2. i \in Keyed
    BY <1>4, <1>5, <2>1 DEF Ours
  <2>3. Stored[i].data[KeyField].neat /\ records[i].data = Stored[i].data
    BY <1>1, <1>3, <1>5, <2>2
  <2>4. KeyField \in DOMAIN records[i].data
    BY <2>1 DEF TextOf
  <2> QED  BY <2>3, <2>4 DEF KeyIn
<1>6. \A r \in Signals : ~Creating(r) /\ ~InFlight(r)
  <2>1. NoCall.op = "find"
    BY DEF NoCall
  <2> QED  BY <1>1, <2>1, Actors DEF Creating, InFlight
<1>7. OneRecordUnlessContested
  <2> SUFFICES ASSUME NEW i \in Ids \ byHand, NEW j \in Ids \ byHand, i # j, Live(i), Live(j),
                      records[i].type = RecordType, records[j].type = RecordType,
                      TextOf(records[i].data, KeyField) # "",
                      TextOf(records[i].data, KeyField) = TextOf(records[j].data, KeyField)
               PROVE  FALSE
    BY DEF OneRecordUnlessContested
  <2>1. i \in Keyed /\ j \in Keyed
    BY <1>4
  <2>2. TextOf(Stored[i].data, KeyField) = TextOf(Stored[j].data, KeyField)
    BY <1>1
  <2> QED  BY <1>3, <2>1, <2>2
<1>8. Contested
  BY <1>6 DEF Contested
<1> QED  BY <1>2, <1>5, <1>6, <1>7, <1>8 DEF KeysInv

\* runEntityStatusSignalPipeline finds or creates: where the keys signals carry
\* are as their field stores them and agents leave the type's keys alone, no two
\* records that no catalog page saved have one key, however runs, agents, pages
\* and deletions interleave - but for a key that two signals at once were about
\* before either had stored its record.
THEOREM OneRecordKept == ASSUME KeysBySignals PROVE Spec => []OneRecordUnlessContested
<1>1. KeysInv => OneRecordUnlessContested
  BY DEF KeysInv
<1>2. Init => KeysInv
  BY KeysStart
<1>3. PipelinesInv /\ KeysInv /\ [Next]_vars => KeysInv'
  BY KeysNext
<1> QED
  BY <1>1, <1>2, <1>3, PipelinesStart, PipelinesNext, PTL DEF Spec
=============================================================================
