------------------------------ MODULE Templates ------------------------------
(***************************************************************************)
(* The agent templates: the built-in ones, seeded into the table the first *)
(* time anybody lists templates, and those a business saves of its own.    *)
(***************************************************************************)
EXTENDS Naturals, Sequences, FiniteSets

CONSTANTS
    BuiltIns,       \* BUILT_IN_TEMPLATES: the names, in order
    Readers,        \* the requests that list templates
    Businesses,     \* the organisations, "ours" among them
    MaxTemplates,   \* bound: rows ever created
    Casts,          \* who and what is at work together
    Faults          \* may queries fail?

Names == {BuiltIns[i] : i \in DOMAIN BuiltIns}

ASSUME TemplatesAssumption ==
    /\ BuiltIns \in Seq(STRING) /\ BuiltIns # <<>>
    /\ \A i, j \in DOMAIN BuiltIns : BuiltIns[i] = BuiltIns[j] => i = j
    /\ MaxTemplates \in Nat
    /\ "ours" \in Businesses /\ "all" \notin Businesses

VARIABLES
    cast,           \* the actors and events of this behaviour
    templates,      \* the AgentTemplate rows
    lastTemplate,   \* the id of the newest row
    reader,         \* the local state of each listTemplates
    contested       \* ghost: names two seedings looked for at once

templateVars == <<templates, lastTemplate, reader, contested>>

\* owner "all" stands for a null organisationId.
Template == [id : 1 .. MaxTemplates, owner : Businesses \cup {"all"},
             name : Names \cup {"own"}]

\* at is the built-in being seeded, found its row.
Reader == [pc : {"idle", "count", "find", "write", "list", "listed"},
           owner : Businesses, at : 0 .. Len(BuiltIns),
           found : 0 .. MaxTemplates, rows : SUBSET Template]
NoReader == [pc |-> "idle", owner |-> "ours", at |-> 0, found |-> 0, rows |-> {}]

TemplatesInit ==
    /\ cast \in Casts
    /\ templates = {}
    /\ lastTemplate = 0
    /\ reader = [l \in Readers |-> NoReader]
    /\ contested = {}

OfBuiltIn(name) == {t \in templates : t.owner = "all" /\ t.name = name}

Created(owner, name) ==
    /\ lastTemplate < MaxTemplates
    /\ lastTemplate' = lastTemplate + 1
    /\ templates' = templates \cup
           {[id |-> lastTemplate + 1, owner |-> owner, name |-> name]}

StartList(l) ==
    /\ l \in cast
    /\ reader[l].pc \in {"idle", "listed"}
    /\ \E b \in Businesses :
          reader' = [reader EXCEPT ![l] = [NoReader EXCEPT !.pc = "count", !.owner = b]]
    /\ UNCHANGED <<templates, lastTemplate, contested>>

\* Fewer built-in rows than built-ins: they are seeded.
Count(l) ==
    /\ reader[l].pc = "count"
    /\ reader' = [reader EXCEPT
           ![l].pc = IF Cardinality({t \in templates : t.owner = "all"}) < Len(BuiltIns)
                     THEN "find" ELSE "list",
           ![l].at = 1]
    /\ UNCHANGED <<templates, lastTemplate, contested>>

\* Mutant: the row is looked up among those of the organisations.
Existing_owned(name) == {t \in templates : t.name = name /\ t.owner # "all"}

\* findFirst, among the rows of no organisation.
Existing(name) == OfBuiltIn(name)

FindBuiltIn(l) ==
    LET name == BuiltIns[reader[l].at]
        rivals == {k \in Readers \ {l} : reader[k].pc = "write"
                                         /\ reader[k].at = reader[l].at
                                         /\ reader[k].found = 0}
    IN  /\ reader[l].pc = "find"
        /\ \/ /\ Existing(name) = {}
              /\ reader' = [reader EXCEPT ![l].pc = "write"]
           \/ \E t \in Existing(name) :
                 reader' = [reader EXCEPT ![l].pc = "write", ![l].found = t.id]
        /\ contested' = IF rivals = {} THEN contested ELSE contested \cup {name}
        /\ UNCHANGED <<templates, lastTemplate>>

\* The row is updated in place, or created; then comes the next built-in.
WriteBuiltIn(l) ==
    LET k == reader[l]
    IN  /\ k.pc = "write"
        /\ IF k.found # 0 THEN UNCHANGED <<templates, lastTemplate>>
           ELSE Created("all", BuiltIns[k.at])
        /\ reader' = [reader EXCEPT ![l] =
               IF k.at < Len(BuiltIns)
               THEN [k EXCEPT !.pc = "find", !.at = k.at + 1, !.found = 0]
               ELSE [k EXCEPT !.pc = "list", !.found = 0]]
        /\ UNCHANGED contested

ListTemplates(l) ==
    /\ reader[l].pc = "list"
    /\ reader' = [reader EXCEPT ![l].pc = "listed", ![l].at = 0,
           ![l].rows = {t \in templates : t.owner \in {"all", reader[l].owner}}]
    /\ UNCHANGED <<templates, lastTemplate, contested>>

\* Any query may fail, or the process die.
ReadFails(l) ==
    /\ Faults
    /\ reader[l].pc \notin {"idle", "listed"}
    /\ reader' = [reader EXCEPT ![l] = NoReader]
    /\ UNCHANGED <<templates, lastTemplate, contested>>

\* saveTemplate.
SaveTemplate(b) ==
    /\ "templates" \in cast
    /\ Created(b, "own")
    /\ UNCHANGED <<reader, contested>>

\* Mutant: the id alone decides.
Deletable_any(b, id) == {t \in templates : t.id = id}

\* deleteMany by id and organisation.
Deletable(b, id) == {t \in templates : t.id = id /\ t.owner = b}

\* deleteTemplate, for whatever id the request names.
DeleteTemplate(b) ==
    /\ "templates" \in cast
    /\ \E id \in 1 .. lastTemplate :
          /\ Deletable(b, id) # {}
          /\ templates' = templates \ Deletable(b, id)
    /\ UNCHANGED <<lastTemplate, reader, contested>>

TemplatesNext ==
    \/ \E l \in Readers :
          \/ StartList(l) \/ Count(l) \/ FindBuiltIn(l) \/ WriteBuiltIn(l)
          \/ ListTemplates(l) \/ ReadFails(l)
    \/ \E b \in Businesses : SaveTemplate(b) \/ DeleteTemplate(b)

-----------------------------------------------------------------------------

\* A built-in template is never there twice, unless two first lists looked for
\* it at once: there is no constraint on its name to keep them apart.
BuiltInsOnce ==
    \A name \in Names : Cardinality(OfBuiltIn(name)) > 1 => name \in contested

\* A list that is returned has every built-in template, also when an earlier
\* seeding failed half-way, unless one is there twice: then their count no
\* longer tells that another is missing.
BuiltInsListed ==
    \A l \in Readers :
        reader[l].pc = "listed"
            => \/ \A name \in Names : \E t \in reader[l].rows :
                     t.owner = "all" /\ t.name = name
               \/ contested # {}

\* The built-in templates are seeded once, and listed in full.
BuiltInsSeeded == BuiltInsOnce /\ BuiltInsListed
=============================================================================
