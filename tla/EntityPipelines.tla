--------------------------- MODULE EntityPipelines ---------------------------
(***************************************************************************)
(* The two pipelines that keep a business's records and files together:    *)
(* entity-status-signal (a webhook says an item's status changed: store    *)
(* it, make its folders, post a notice, propose an e-mail) and             *)
(* entity-correspondence-archive (an e-mail about an item: save it and its *)
(* attachments in the item's folder).  Both work only through the tools of *)
(* Records and Drive; several runs, agents that populate a template and    *)
(* the catalog's pages are at work at once.                                *)
(***************************************************************************)
EXTENDS Records, Drive, Functions

CONSTANTS
    RecordType, KeyField, StatusField, RootField, ToField, \* the configuration
    Transitions,    \* what a status triggers, by its text
    Signal,         \* the payload of each signal, by run; a delivery that is no
                    \* JSON object has the empty one
    Mail,           \* of each archiving run, the token in the subject ("" if
                    \* none) and the attachments' names
    Subfolder, Correspondence,
    Fill,           \* the calls of populate_template, by run
    Casts           \* who is at work together

Signals == DOMAIN Signal
Mails == DOMAIN Mail
Runs == Signals \cup Mails
Fillers == DOMAIN Fill
Transition == [subfolders : Seq(Names), folders : BOOLEAN, notify : BOOLEAN,
               mail : BOOLEAN]

ASSUME PipelineAssumption ==
    /\ Pipelines = Runs /\ Requests = Runs \cup Fillers
    /\ Signals \cap Mails = {} /\ Fillers \cap Runs = {}
    /\ RecordType \in Types /\ KeyField \in Fields
    /\ Texts \subseteq Names /\ {Subfolder, Correspondence} \subseteq Names
    /\ \A r \in Signals : Signal[r] \in Data
    /\ \A r \in Mails :
          Mail[r] \in [token : Texts \cup {""}, attachments : Seq(Names)]
    /\ Runs \subseteq Contents /\ Casts \subseteq SUBSET Requests
    /\ \A r \in Fillers : /\ Fill[r] \in Request /\ Fill[r].op = "template"
                          /\ Fill[r].source # <<>> /\ Fill[r].name # ""
                          /\ Fill[r].at = 0 /\ Fill[r].content = ""
    /\ DOMAIN Transitions \subseteq Texts
    /\ \A t \in DOMAIN Transitions : Transitions[t] \in Transition

VARIABLES
    cast,       \* the runs and calls of this behaviour
    runs,       \* the local state of each run
    posted,     \* the runs whose notice Teams has
    proposed,   \* the runs that left an e-mail for approval
    contested   \* the keys two signals at once were about (for the properties)

vars == <<cast, recordVars, driveVars, runs, posted, proposed, contested>>

Run == [pc : {"new", "lookup", "save", "folder", "notify", "mail", "body",
              "attach", "over"},
        status : {"RUNNING", "COMPLETED", "FAILED", "WAITING_FOR_APPROVAL"},
        id : Ids \cup {""}, data : Data, paths : Seq(Seq(Names \cup {""})),
        files : Seq(Names)]
NewRun == [pc |-> "new", status |-> "RUNNING", id |-> "", data |-> Empty,
           paths |-> <<>>, files |-> <<>>]

TypeOK ==
    /\ cast \in Casts
    /\ RecordsTypeOK /\ DriveTypeOK
    /\ runs \in [Runs -> Run]
    /\ posted \subseteq Runs /\ proposed \subseteq Runs
    /\ contested \subseteq Texts

Init ==
    /\ cast \in Casts
    /\ RecordsInit /\ DriveInit
    /\ runs = [r \in Runs |-> NewRun]
    /\ posted = {} /\ proposed = {} /\ contested = {}

Becomes(r, run) == runs' = [runs EXCEPT ![r] = run]
Settles(r, status) ==
    Becomes(r, [runs[r] EXCEPT !.pc = "over", !.status = status])
Effects == UNCHANGED <<posted, proposed, contested>>
NoRecordStep == UNCHANGED recordVars
NoDriveStep == UNCHANGED driveVars

\* The runs and calls at work; AtOnce bounds them.
AtWork ==
    Busy \cup {r \in Runs : runs[r].pc \notin {"new", "over"}}
         \cup {r \in Fillers : requests[r].pc \notin {"idle", "saved", "refused"}}
MayStart(r) == r \in cast /\ Cardinality(AtWork) < AtOnce
KeyOf(r) == Signal[r][KeyField]

\* The status, as the signal spells it, names a transition or none.
TransitionOf(r) ==
    IF /\ StatusField \in DOMAIN Signal[r] /\ Signal[r][StatusField].neat
       /\ Signal[r][StatusField].text \in DOMAIN Transitions
    THEN {Transitions[Signal[r][StatusField].text]} ELSE {}

\* interpolate: the text of a field, "" when the record has none.
TextOf(data, field) == IF field \in DOMAIN data THEN data[field].text ELSE ""
Root(data, otherwise) ==
    IF TextOf(data, RootField) # "" THEN TextOf(data, RootField) ELSE otherwise

PathsFor(t, data) ==
    LET root == Root(data, "") IN
    IF ~t.folders THEN <<>>
    ELSE IF t.subfolders = <<>> THEN <<<<root>>>>
    ELSE [k \in DOMAIN t.subfolders |-> <<root, t.subfolders[k]>>]

\* The input, the configuration, and the call of find_record (whose input
\* schema refuses an empty value).
Find(r, v) ==
    /\ Invoke(r, "find", RecordType, "", [f \in {KeyField} |-> v])
    /\ Becomes(r, [runs[r] EXCEPT !.pc = "lookup"])
    /\ Reading

Fail(r) == Settles(r, "FAILED") /\ NoRecordStep

StartSignal(r) ==
    /\ r \in Signals /\ runs[r].pc = "new"
    /\ MayStart(r)
    /\ IF {KeyField, StatusField} \subseteq DOMAIN Signal[r] /\ KeyOf(r) # Blank
       THEN /\ Find(r, KeyOf(r))
            /\ contested' = contested \cup
                 {t \in {KeyOf(r).text} : \E q \in Signals \ {r} :
                     runs[q].pc \in {"lookup", "save"} /\ KeyOf(q).text = t}
       ELSE Fail(r) /\ UNCHANGED contested
    /\ NoDriveStep /\ UNCHANGED <<posted, proposed>>

WriteTool_creates(id) == "create"
WriteTool(id) == IF id = "" THEN "create" ELSE "update"

\* Update the record that was found, create one when there is none.
SaveSignal(r) ==
    /\ r \in Signals /\ runs[r].pc = "lookup"
    /\ \/ calls[r].pc = "failed" /\ Fail(r)
       \/ /\ calls[r].pc = "done"
          /\ Invoke(r, WriteTool(calls[r].id), RecordType, calls[r].id, Signal[r])
          /\ Becomes(r, [runs[r] EXCEPT !.pc = "save"]) /\ Reading
    /\ NoDriveStep /\ Effects

ApplyTransition(r) ==
    /\ runs[r].pc = "save"
    /\ \/ calls[r].pc = "failed" /\ Settles(r, "FAILED")
       \/ calls[r].pc = "done" /\ TransitionOf(r) = {} /\ Settles(r, "COMPLETED")
       \/ /\ calls[r].pc = "done"
          /\ \E t \in TransitionOf(r) :
               Becomes(r, [runs[r] EXCEPT !.pc = "folder", !.id = calls[r].id,
                              !.data = calls[r].values,
                              !.paths = PathsFor(t, calls[r].values)])
    /\ Goes(r, NoCall) /\ Reading /\ NoDriveStep /\ Effects

Done_anyway == {"idle", "saved", "refused"}
Done == {"idle", "saved"}

\* create_folder for each path, the first failure ending the run.
CreateFolder(r) ==
    /\ runs[r].pc = "folder" /\ requests[r].pc \in Done
    /\ IF runs[r].paths = <<>>
       THEN Becomes(r, [runs[r] EXCEPT !.pc = "notify"]) /\ NoDriveStep
       ELSE /\ Ask(r, [NoRequest EXCEPT !.path = Head(runs[r].paths)])
            /\ Becomes(r, [runs[r] EXCEPT !.paths = Tail(@)])
            /\ UNCHANGED <<folders, files, homes, raced>>
    /\ NoRecordStep /\ Effects

\* A tool call of the run came back with an error.
StoreRefused(r) ==
    /\ runs[r].pc \in {"folder", "body", "attach"} /\ requests[r].pc = "refused"
    /\ Settles(r, "FAILED")
    /\ NoRecordStep /\ NoDriveStep /\ Effects

\* notify_channel; an answer that is lost fails the run though the notice is there.
Notify(r) ==
    /\ runs[r].pc = "notify"
    /\ \E t \in TransitionOf(r) :
         \/ ~t.notify /\ Becomes(r, [runs[r] EXCEPT !.pc = "mail"]) /\ UNCHANGED posted
         \/ /\ t.notify /\ posted' = posted \cup {r}
            /\ Becomes(r, [runs[r] EXCEPT !.pc = "mail"])
         \/ /\ t.notify /\ Faults /\ Settles(r, "FAILED")
            /\ posted' \in {posted, posted \cup {r}}
    /\ NoRecordStep /\ NoDriveStep /\ UNCHANGED <<proposed, contested>>

WithoutAddress_completes(r) == Settles(r, "COMPLETED")
WithoutAddress(r) == Settles(r, "FAILED")

\* proposeAction leaves the e-mail for approval.
ProposeMail(r) ==
    /\ runs[r].pc = "mail"
    /\ \E t \in TransitionOf(r) :
         \/ ~t.mail /\ Settles(r, "COMPLETED") /\ UNCHANGED proposed
         \/ /\ t.mail /\ TextOf(runs[r].data, ToField) = ""
            /\ WithoutAddress(r) /\ UNCHANGED proposed
         \/ /\ t.mail /\ TextOf(runs[r].data, ToField) # ""
            /\ Settles(r, "WAITING_FOR_APPROVAL") /\ proposed' = proposed \cup {r}
    /\ NoRecordStep /\ NoDriveStep /\ UNCHANGED <<posted, contested>>

StartMail(r) ==
    /\ r \in Mails /\ runs[r].pc = "new"
    /\ MayStart(r)
    /\ IF Mail[r].token # "" THEN Find(r, Neat(Mail[r].token)) ELSE Fail(r)
    /\ NoDriveStep /\ Effects

SaveFile(r, root, name, replace) ==
    /\ Ask(r, [NoRequest EXCEPT !.op = "file", !.path = <<root, Subfolder>>,
                                !.name = name, !.content = r, !.replace = replace])
    /\ UNCHANGED <<folders, files, homes, raced>>

\* The body replaces what was archived before.
SaveBody(r) ==
    /\ r \in Mails /\ runs[r].pc = "lookup"
    /\ \/ /\ calls[r].pc = "failed" \/ (calls[r].pc = "done" /\ calls[r].id = "")
          /\ Settles(r, "FAILED") /\ NoDriveStep
       \/ /\ calls[r].pc = "done" /\ calls[r].id # ""
          /\ SaveFile(r, Root(calls[r].values, Mail[r].token), Correspondence, TRUE)
          /\ Becomes(r, [runs[r] EXCEPT !.pc = "attach", !.data = calls[r].values,
                                        !.files = Mail[r].attachments])
    /\ NoRecordStep /\ Effects

AttachmentReplaces_always == TRUE
AttachmentReplaces == FALSE

\* Then the attachments, one after the other.
SaveAttachment(r) ==
    /\ runs[r].pc = "attach" /\ requests[r].pc = "saved"
    /\ IF runs[r].files = <<>> THEN Settles(r, "COMPLETED") /\ NoDriveStep
       ELSE /\ SaveFile(r, Root(runs[r].data, Mail[r].token), Head(runs[r].files),
                        AttachmentReplaces)
            /\ Becomes(r, [runs[r] EXCEPT !.files = Tail(@)])
    /\ NoRecordStep /\ Effects

\* A run of another agent calls populate_template.
StartFill(r) ==
    /\ r \in Fillers /\ requests[r].pc = "idle"
    /\ MayStart(r)
    /\ Ask(r, Fill[r])
    /\ UNCHANGED <<folders, files, homes, raced, runs>>
    /\ NoRecordStep /\ Effects

RunSteps(r) ==
    \/ StartSignal(r) \/ SaveSignal(r) \/ ApplyTransition(r) \/ CreateFolder(r)
    \/ StoreRefused(r) \/ Notify(r) \/ ProposeMail(r)
    \/ StartMail(r) \/ SaveBody(r) \/ SaveAttachment(r)

ToolSteps(r) ==
    \/ r \in Runs /\ CallSteps(r)
       /\ UNCHANGED <<driveVars, runs, posted, proposed, contested>>
    \/ DriveSteps(r) /\ UNCHANGED <<recordVars, runs, posted, proposed, contested>>

Next ==
    /\ \/ \E r \in Runs : RunSteps(r)
       \/ \E r \in Requests : StartFill(r) \/ ToolSteps(r)
       \/ CatalogSteps /\ UNCHANGED <<driveVars, runs, posted, proposed, contested>>
    /\ UNCHANGED cast

Spec == Init /\ [][Next]_vars

(***************************************************************************)
(* Properties.                                                             *)
(***************************************************************************)

\* keyField is "used to find-or-create rather than always creating a new
\* record": an item has one record, where no two signals about it were in
\* flight at once before either had stored its record.  A catalog page may add
\* another.
OneRecordUnlessContested ==
    \A i, j \in Ids \ byHand :
        /\ i # j /\ Live(i) /\ Live(j)
        /\ records[i].type = RecordType /\ records[j].type = RecordType
        /\ TextOf(records[i].data, KeyField) \notin contested \cup {""}
        => TextOf(records[i].data, KeyField) # TextOf(records[j].data, KeyField)

\* Where this can be said: the keys that signals carry are as their field stores
\* them, of the records at the start no two have one key, and no agent creates a
\* record of the type or changes a key.
KeysBySignals ==
    /\ \A r \in Signals :
          KeyField \in DOMAIN Signal[r] => KeyOf(r) = Blank \/ KeyOf(r).neat
    /\ \A ask \in Asks : /\ ask.op = "create" => ask.type # RecordType
                         /\ ask.op = "update" => KeyField \notin DOMAIN ask.patch
    /\ \A i, j \in {k \in DOMAIN Stored : /\ Stored[k].type = RecordType
                                         /\ TextOf(Stored[k].data, KeyField) # ""} :
          /\ Stored[i].data[KeyField].neat
          /\ TextOf(Stored[i].data, KeyField) = TextOf(Stored[j].data, KeyField) => i = j

Made(path) == \E h \in homes : h[1] = path

\* runEntityStatusSignalPipeline does its effects in order: when the notice is
\* posted or the e-mail proposed the record is stored and every folder of the
\* transition is there; when the e-mail is proposed the notice is posted.
EffectsInOrder ==
    \A r \in posted \cup proposed : \A t \in TransitionOf(r) :
        /\ runs[r].id # "" /\ records[runs[r].id].state # "free"
        /\ \A k \in DOMAIN PathsFor(t, runs[r].data) : Made(PathsFor(t, runs[r].data)[k])
        /\ r \in proposed /\ t.notify => r \in posted

\* A run says it ended well only when all its status triggers was done, and it
\* waits for approval only with an e-mail to approve.
EndedMeansDone ==
    \A r \in Signals :
        /\ runs[r].status = "COMPLETED" => \A t \in TransitionOf(r) :
              /\ t.notify => r \in posted
              /\ \A k \in DOMAIN PathsFor(t, runs[r].data) :
                     Made(PathsFor(t, runs[r].data)[k])
              /\ ~t.mail
        /\ runs[r].status = "WAITING_FOR_APPROVAL" <=> r \in proposed

\* resolveOrCreateFolder: "two runs archiving into the same folder under the
\* same parent land in the same folder", unless both were about to make it.
FilesTogether ==
    \A g, h \in homes :
        g[1] = h[1] /\ (\A k \in DOMAIN g[1] : g[1][k] \notin raced) => g[2] = h[2]

\* save_file and populate_template with replace: a folder holds one file of the
\* name, unless two calls were about to make it at once.
Replaced == {Correspondence} \cup {Fill[r].name : r \in {q \in Fillers : Fill[q].replace}}
OneCorrespondence ==
    \A name \in Replaced \ raced : \A folder \in 0 .. Len(folders) :
        Cardinality(FilesNamed(name, folder)) <= 1

\* The names under which this can be said: what is made of a template, an
\* e-mail's text and its attachments are called differently, a document is
\* replaced always or never, the root holds no two files of a name that is
\* replaced, and a SharePoint, which keeps one file of a name, has no two e-mails
\* with an attachment of one name.
Documents == {Fill[r].name : r \in Fillers}
Attached == UNION {Range(Mail[r].attachments) : r \in Mails}
NamesApart ==
    /\ Correspondence \notin Documents \cup Attached
    /\ Attached \cap Documents = {}
    /\ \A r, q \in Fillers : Fill[r].name = Fill[q].name => Fill[r].replace = Fill[q].replace
    /\ \A i, j \in DOMAIN Shelf :
          Shelf[i].name = Shelf[j].name /\ Shelf[i].name \in Replaced => i = j
    /\ Provider # "google-drive" => \A r, q \in Mails :
          r # q => Range(Mail[r].attachments) \cap Range(Mail[q].attachments) = {}

RunFolders ==
    Texts \cup {Subfolder}
    \cup UNION {Range(Transitions[t].subfolders) : t \in DOMAIN Transitions}

\* resolveAndDownloadFile: a template "should fail clearly on a wrong path, not
\* silently create it".  A folder only populate_template was asked for is there
\* only when one of its calls has read and populated a template, and so is a
\* document.
NothingWithoutTemplate ==
    \A r \in Fillers : requests[r].content = "" =>
        /\ \A k \in DOMAIN folders :
              \/ folders[k].name \in RunFolders
              \/ \E q \in Fillers \ {r} : folders[k].name \in Range(Fill[q].path)
        /\ \A f \in DOMAIN files \ DOMAIN Shelf :
              files[f].name = Fill[r].name =>
                  \E q \in Fillers \ {r} : requests[q].content = Populated

\* "Attachments accumulate: each one is a real file in its own right, not
\* superseded by a later message."
AttachmentsKept ==
    \A r \in Mails : runs[r].status = "COMPLETED" =>
        \A k \in DOMAIN Mail[r].attachments :
            \E f \in DOMAIN files : /\ files[f].name = Mail[r].attachments[k]
                                    /\ files[f].content = r

\* What is stored is of its type, whoever wrote it: the references of records,
\* their values, and every caller's own state.
WellTyped == TypeOK /\ ReferencesHold /\ StoredTyped

\* The effects of a signal come in order, and all of them before it ends well.
EffectsAccounted == EffectsInOrder /\ EndedMeansDone

\* One folder per path, one file of a name that is replaced, every attachment,
\* and nothing for a template that is not there.
FilesKept ==
    FilesTogether /\ OneCorrespondence /\ AttachmentsKept /\ NothingWithoutTemplate
=============================================================================
