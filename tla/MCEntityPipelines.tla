------------------------- MODULE MCEntityPipelines -------------------------
(* Small instances of EntityPipelines: Jobs, each of a Client.              *)
EXTENDS EntityPipelines, TLC

CONSTANTS s1, s2, s3, a1, a2, a3, p1, g1, f1, f2, f3, form, filled

Text(required) == [kind |-> "text", required |-> required, target |-> "Job"]
Client == [kind |-> "reference", required |-> FALSE, target |-> "Client"]
Status == [kind |-> "select", required |-> TRUE, target |-> "Job"]

JobFields ==
    [f \in {"key", "status", "client"} |->
        CASE f = "key" -> Text(TRUE) [] f = "status" -> Status [] OTHER -> Client]

\* A Job without its client: the field was taken out.
Reduced == [f \in {"key", "status"} |-> JobFields[f]]

MCDefinitions ==
    [t \in Types |-> IF t = "Job" THEN {JobFields} ELSE {[f \in {"key"} |-> Text(TRUE)]}]
MoreDefinitions ==
    [t \in Types |-> IF t = "Job" THEN {JobFields, Reduced} ELSE MCDefinitions[t]]

MCDefined == [t \in Types |-> CHOOSE d \in MCDefinitions[t] : TRUE]
ClientsOnly == [t \in {"Client"} |-> MCDefined[t]]

\* A client, and a job of theirs that is new.
Fixture == [i \in {"r1"} |-> [type |-> "Client", data |-> [f \in {"key"} |-> Neat("k2")]]]
OneJob ==
    [i \in {"r1", "r2"} |->
        IF i = "r1" THEN Fixture[i]
        ELSE [type |-> "Job",
              data |-> [f \in {"key", "status"} |->
                           IF f = "key" THEN Neat("k1") ELSE Neat("new")]]]

Payload(key, status) ==
    [f \in {"key", "status"} |-> IF f = "key" THEN key ELSE Neat(status)]
Raw(text) == [text |-> text, neat |-> FALSE]

\* What agents ask for: a client without its spaces, a job with a name for a
\* client, the job of a key, and the jobs some text is found in.
Update(patch) == [op |-> "update", type |-> "Job", id |-> "r2", patch |-> patch]
MCAsks ==
    {Update([f \in {"client"} |-> Raw("r1")]),
     [op |-> "create", type |-> "Job", id |-> "",
      patch |-> [f \in {"key", "client"} |->
                    IF f = "key" THEN Raw("k3") ELSE Neat("k1")]],
     [op |-> "find", type |-> "Job", id |-> "", patch |-> [f \in {"key"} |-> Neat("k1")]],
     [op |-> "search", type |-> "Job", id |-> "", patch |-> Empty]}

\* ready: a folder and a notice; new: an e-mail to the job's client.
MCTransitions ==
    [t \in {"ready", "new"} |->
        [subfolders |-> IF t = "ready" THEN <<"letters">> ELSE <<>>,
         folders |-> t = "ready", notify |-> t = "ready", mail |-> t = "new"]]

NoticeOnly ==
    [t \in {"ready"} |-> [subfolders |-> <<>>, folders |-> FALSE, notify |-> TRUE,
                         mail |-> FALSE]]

NoMail == [r \in {} |-> [token |-> "", attachments |-> <<>>]]
ForClient(payload) ==
    [f \in DOMAIN payload \cup {"client"} |->
        IF f = "client" THEN Neat("r1") ELSE payload[f]]
OneSignal == [r \in {s1} |-> ForClient(Payload(Neat("k1"), "ready"))]

\* s3 is a delivery that is no JSON object, a3 an e-mail without a token.
AllSignals ==
    [r \in {s1, s2, s3} |->
        CASE r = s1 -> OneSignal[s1] [] r = s2 -> Payload(Neat("k1"), "new")
          [] OTHER -> Empty]
AllMails ==
    [r \in {a1, a2, a3} |->
        [token |-> IF r = a3 THEN "" ELSE "k1", attachments |-> <<"photo">>]]

\* The root of the store holds a template.  f1 and f3 make one document of it;
\* f2 takes an attachment for a template, which it is not.
OneTemplate == <<[name |-> "form", folder |-> 0, content |-> form]>>
FillWith(source, path) ==
    [NoRequest EXCEPT !.op = "template", !.source = source, !.path = path,
                      !.name = "offer", !.replace = TRUE]
ThreeFills ==
    [r \in {f1, f2, f3} |->
        IF r = f2 THEN FillWith(<<"k1", "letters", "photo">>, <<"k1", "offers">>)
        ELSE FillWith(<<"form">>, <<"k1", "letters">>)]
NoFill == [r \in {} |-> NoRequest]
NoShelf == <<>>
OnlySignal == {{s1}}
MCCasts == {{s1, s2, a1}, {s1, a1, a2}, {s1, a1, f1}, {s1, a1, f2}, {f1, f3},
            {s3, a3, f1}}

\* The names of the runs are those FilesAlwaysKept is about.
ASSUME NamesAssumption == NamesApart

\* Without agents, their keys are those OneRecordKept is about.
ASSUME KeysAssumption == Agents = {} => KeysBySignals
=============================================================================
