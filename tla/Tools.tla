-------------------------------- MODULE Tools --------------------------------
(***************************************************************************)
(* The MCP tools that act through a connected account: send_email,         *)
(* notify_channel, check_calendar_availability and create_calendar_event,  *)
(* in the server that is built for one run and forwards the account the    *)
(* run's agent is pinned to.  The attachments of an e-mail are fetched     *)
(* from the business's storage at once.  Each awaited query or request is  *)
(* a step; the accounts and their tokens are those of Accounts.            *)
(***************************************************************************)
EXTENDS Accounts

CONSTANTS
    Callers,        \* the runs that call a tool
    Calls,          \* the tools each may call
    Pins,           \* the account each of their agents is pinned to, or None
    Attachments,    \* the attachments there are
    AttachedTo,     \* the run whose e-mail each belongs to
    StorageOf       \* the provider each is stored with

ToolNames == {"send_email", "notify_slack", "notify_teams",
              "check_calendar_availability", "create_calendar_event"}

ASSUME ToolsAssumption ==
    /\ Callers \cup Attachments \subseteq Users
    /\ Callers \cap Attachments = {}
    /\ Calls \in [Callers -> SUBSET ToolNames]
    /\ Pins \in [Callers -> Names \cup {None}]
    /\ \A c \in Callers : Pins[c] # None => Rows[Pins[c]] # 0
    /\ AttachedTo \in [Attachments -> Callers]
    /\ StorageOf \in [Attachments -> {"google-drive", "sharepoint"}]

VARIABLES
    pin,            \* Agent.actionIntegrationId of each run's agent
    call,           \* the local state of each run's tool call
    file            \* the local state of each attachment

toolVars == <<pin, call, file>>

\* pinned is the row of the pin as the run read it; provider that of the
\* account the row was when the server was built, or None; name and row are the
\* account the call acted through.
Call == [pc : {"idle", "build", "serving", "attach", "resolve", "token", "done",
               "refused"},
         pinned : Numbers, provider : {ProviderOf[n] : n \in Names} \cup {None},
         tool : ToolNames \cup {None}, name : Names \cup {None}, row : Numbers]
NoCall == [pc |-> "idle", pinned |-> 0, provider |-> None, tool |-> None,
           name |-> None, row |-> 0]

Fetching == {"seek", "token", "site", "download"}

ToolsTypeOK ==
    /\ \A c \in Callers : pin[c] \in Names \cup {None} /\ call[c] \in Call
    /\ file \in [Attachments -> {"none", "fetched", "failed"} \cup Fetching]

ToolsInit ==
    /\ pin = Pins
    /\ call = [c \in Callers |-> NoCall]
    /\ file = [a \in Attachments |-> "none"]

\* The accounts a step changes, and a step that changes none.
NoAccountStep ==
    UNCHANGED <<integrations, lastRow, issued, cookie, tab, creator, removing,
                crossed>>

Goes(c, k) == call' = [call EXCEPT ![c] = k]
Refuses(c) == Goes(c, [call[c] EXCEPT !.pc = "refused"])

\* A deleted row is no longer any agent's: Agent.actionIntegration is ON
\* DELETE SET NULL.
PinsKept ==
    pin' = [c \in Callers |->
        IF pin[c] # None /\ integrations[pin[c]].row # 0
                         /\ integrations'[pin[c]].row # integrations[pin[c]].row
        THEN None ELSE pin[c]]

-----------------------------------------------------------------------------
(* The server of a run.                                                     *)

\* The run loads its agent.
Load(c) ==
    /\ c \in cast
    /\ call[c].pc = "idle"
    /\ Goes(c, [NoCall EXCEPT !.pc = "build",
                    !.pinned = IF pin[c] = None THEN 0 ELSE integrations[pin[c]].row])
    /\ NoAccountStep
    /\ UNCHANGED <<user, pin, file>>

\* createMcpServer asks for the provider of the pinned account.
BuildServer(c) ==
    LET owner == {n \in Names : integrations[n].row = call[c].pinned
                                /\ call[c].pinned # 0}
    IN  /\ call[c].pc = "build"
        /\ \/ \E n \in owner : Goes(c, [call[c] EXCEPT !.pc = "serving",
                                                       !.provider = ProviderOf[n]])
           \/ owner = {} /\ Goes(c, [call[c] EXCEPT !.pc = "serving"])
        /\ NoAccountStep
        /\ UNCHANGED <<user, pin, file>>

\* The providers each tool is registered for.
ProvidersFor(tool) ==
    CASE tool = "send_email" -> EmailProviders
      [] tool = "notify_slack" -> {"slack"}
      [] tool = "notify_teams" -> {"teams"}
      [] OTHER -> {"outlook-calendar"}

\* Mutant: the pin is forwarded to every tool.
PinnedFor_always(k) == k.pinned

\* pinnedFor: the pin, for a tool of its provider.
PinnedFor(k) == IF k.provider \in ProvidersFor(k.tool) THEN k.pinned ELSE 0

-----------------------------------------------------------------------------
(* The account a tool acts through.                                         *)

\* The organisation's default account for a tool.
DefaultFor(tool) ==
    IF tool = "send_email" THEN DefaultEmail
    ELSE UNION {DefaultOf(p) : p \in ProvidersFor(tool)}

\* findIntegrationById, of an account of the tool's providers, or the default.
Candidates(k) ==
    IF PinnedFor(k) = 0 THEN DefaultFor(k.tool)
    ELSE {n \in Names : /\ integrations[n].row = PinnedFor(k)
                        /\ ProviderOf[n] \in ProvidersFor(k.tool)}

\* The call goes on with an account, whose token is the user record h.
With(c, h) ==
    /\ user' = [user EXCEPT ![c] = h]
    /\ Goes(c, [call[c] EXCEPT !.pc = "token"])

\* Mutant: the account is resolved anew, without its id.
TokenForEmail_default(n) ==
    LET m == CHOOSE m \in DefaultEmail : TRUE
    IN  [NoUser EXCEPT !.pc = "find", !.name = m, !.row = integrations[m].row]

\* getValidEmailAccessToken has found an account and hands its id to the
\* function of its provider, which looks it up again.
TokenForEmail(n) ==
    [NoUser EXCEPT !.pc = "find", !.name = n, !.row = integrations[n].row]

ResolveEmail(c) ==
    /\ call[c].tool = "send_email"
    /\ \E n \in Candidates(call[c]) : With(c, TokenForEmail(n))

\* getSlackBotToken: no bot token is refreshed.
ResolveSlack(c) ==
    /\ call[c].tool = "notify_slack"
    /\ \E n \in Candidates(call[c]) :
          With(c, [NoUser EXCEPT !.pc = "ready", !.name = n,
                                 !.row = integrations[n].row])

\* getValidTeamsAccessToken and getValidOutlookCalendarAccessToken.
ResolveMicrosoft(c) ==
    /\ call[c].tool \notin {"send_email", "notify_slack"}
    /\ \E n \in Candidates(call[c]) : With(c, TokenOf(n))

\* No such account is connected: the tool answers with an error.
ResolveNone(c) ==
    /\ Candidates(call[c]) = {}
    /\ Refuses(c)
    /\ UNCHANGED user

Resolve(c) ==
    /\ call[c].pc = "resolve"
    /\ ResolveEmail(c) \/ ResolveSlack(c) \/ ResolveMicrosoft(c) \/ ResolveNone(c)
    /\ NoAccountStep
    /\ UNCHANGED <<pin, file>>

\* The token could not be had.
NoToken(c) ==
    /\ call[c].pc = "token"
    /\ user[c].pc = "failed"
    /\ Refuses(c)
    /\ NoAccountStep
    /\ UNCHANGED <<user, pin, file>>

-----------------------------------------------------------------------------
(* The tools' handlers.                                                     *)

Attached(c) == {a \in Attachments : AttachedTo[a] = c}

StartMail(c) ==
    /\ Goes(c, [call[c] EXCEPT !.tool = "send_email", !.pc = "attach"])
    /\ file' = [a \in Attachments |-> IF a \in Attached(c) THEN "seek" ELSE file[a]]

StartSlack(c) ==
    /\ Goes(c, [call[c] EXCEPT !.tool = "notify_slack", !.pc = "resolve"])
    /\ UNCHANGED file

\* A message to Teams needs a team.
StartTeams(c) ==
    /\ \E pc \in {"resolve", "refused"} :
          Goes(c, [call[c] EXCEPT !.tool = "notify_teams", !.pc = pc])
    /\ UNCHANGED file

StartAvailability(c) ==
    /\ Goes(c, [call[c] EXCEPT !.tool = "check_calendar_availability",
                               !.pc = "resolve"])
    /\ UNCHANGED file

StartEvent(c) ==
    /\ Goes(c, [call[c] EXCEPT !.tool = "create_calendar_event", !.pc = "resolve"])
    /\ UNCHANGED file

\* The run calls a tool.
Start(c) ==
    /\ call[c].pc = "serving"
    /\ StartMail(c) \/ StartSlack(c) \/ StartTeams(c) \/ StartAvailability(c)
       \/ StartEvent(c)
    /\ call'[c].tool \in Calls[c]
    /\ NoAccountStep
    /\ UNCHANGED <<user, pin>>

\* The request with the token, which fails or is answered.  Slack tells by the
\* body of its answer, the others by its status.
Answered(c, tools) ==
    /\ call[c].tool \in tools
    /\ \/ Goes(c, [call[c] EXCEPT !.pc = "done", !.name = user[c].name,
                                   !.row = user[c].row])
       \/ Faults /\ Refuses(c)

SendMessage(c) == Answered(c, {"send_email"})
PostSlack(c) == Answered(c, {"notify_slack"})
PostTeams(c) == Answered(c, {"notify_teams"})
FindTimes(c) == Answered(c, {"check_calendar_availability"})
CreateEvent(c) == Answered(c, {"create_calendar_event"})

Act(c) ==
    /\ call[c].pc = "token"
    /\ user[c].pc = "ready"
    /\ SendMessage(c) \/ PostSlack(c) \/ PostTeams(c) \/ FindTimes(c) \/ CreateEvent(c)
    /\ user' = [user EXCEPT ![c] = NoUser]
    /\ NoAccountStep
    /\ UNCHANGED <<pin, file>>

-----------------------------------------------------------------------------
(* The attachments of an e-mail.                                            *)

Fetches(a, how) == file' = [file EXCEPT ![a] = how]

\* getValidGoogleDriveAccessToken or getValidSharePointAccessToken, of the
\* organisation's default account; for SharePoint the e-mail must name a site.
Seek(a) ==
    /\ file[a] = "seek"
    /\ \/ \E n \in DefaultOf(StorageOf[a]) :
             Fetches(a, "token") /\ user' = [user EXCEPT ![a] = TokenOf(n)]
       \/ /\ DefaultOf(StorageOf[a]) = {} \/ StorageOf[a] = "sharepoint"
          /\ Fetches(a, "failed") /\ UNCHANGED user
    /\ NoAccountStep
    /\ UNCHANGED <<pin, call>>

\* The token is there, or not.
Reach(a) ==
    /\ file[a] = "token"
    /\ \/ /\ user[a].pc = "ready"
          /\ Fetches(a, IF StorageOf[a] = "sharepoint" THEN "site" ELSE "download")
       \/ user[a].pc = "failed" /\ Fetches(a, "failed")
    /\ user' = [user EXCEPT ![a] = IF user[a].pc = "ready" THEN NoUser ELSE @]
    /\ NoAccountStep
    /\ UNCHANGED <<pin, call>>

\* resolveSite and its drive: the name may match no site.
FindSite(a) ==
    /\ file[a] = "site"
    /\ Fetches(a, "download") \/ Fetches(a, "failed")
    /\ NoAccountStep
    /\ UNCHANGED <<user, pin, call>>

\* resolveAndDownloadFile only reads: the path may name no file.
Download(a) ==
    /\ file[a] = "download"
    /\ Fetches(a, "fetched") \/ Fetches(a, "failed")
    /\ NoAccountStep
    /\ UNCHANGED <<user, pin, call>>

\* Mutant: what cannot be fetched is left out.
Complete_settled(c) == \A a \in Attached(c) : file[a] \in {"fetched", "failed"}

\* Every attachment is there.
Complete(c) == \A a \in Attached(c) : file[a] = "fetched"

\* Promise.all of the attachments: the first failure is the tool's error, the
\* others are fetched all the same.
JoinAttachments(c) ==
    /\ call[c].pc = "attach"
    /\ \/ Complete(c) /\ Goes(c, [call[c] EXCEPT !.pc = "resolve"])
       \/ /\ ~Complete(c) /\ \E a \in Attached(c) : file[a] = "failed"
          /\ Refuses(c)
    /\ NoAccountStep
    /\ UNCHANGED <<user, pin, file>>

ToolsNext ==
    \/ \E c \in Callers :
          Load(c) \/ BuildServer(c) \/ Start(c) \/ JoinAttachments(c) \/ Resolve(c)
          \/ NoToken(c) \/ Act(c)
    \/ \E a \in Attachments : Seek(a) \/ Reach(a) \/ FindSite(a) \/ Download(a)

-----------------------------------------------------------------------------
(* Properties.                                                              *)

Acted(c) == call[c].pc = "done"

\* A tool of an agent that is pinned to an account of the tool's provider acts
\* through that account, unless it has been disconnected: only then is there a
\* default to fall back on.
ActsAsPinned ==
    \A c \in Callers :
        Acted(c) /\ Pins[c] # None /\ ProviderOf[Pins[c]] \in ProvidersFor(call[c].tool)
            => call[c].name = Pins[c] \/ pin[c] = None

\* Any other tool acts through the account of its own providers that was
\* connected first: no account of theirs that is connected is older.
ActsAsDefault ==
    \A c \in Callers :
        Acted(c)
            => /\ ProviderOf[call[c].name] \in ProvidersFor(call[c].tool)
               /\ \/ call[c].row = call[c].pinned
                  \/ \A n \in UNION {OfProvider(p) : p \in ProvidersFor(call[c].tool)} :
                        integrations[n].row >= call[c].row

\* The pin to an account of another provider never fails a tool: one that finds
\* no account to act through lost the account it is pinned to, or none of its
\* providers is connected.
PinNeverBlocks ==
    [][\A c \in Callers :
          call[c].pc = "resolve" /\ call'[c].pc = "refused"
              => \/ /\ Pins[c] # None
                    /\ ProviderOf[Pins[c]] \in ProvidersFor(call[c].tool)
                    /\ pin[c] = None
                 \/ \A p \in ProvidersFor(call[c].tool) : OfProvider(p) = {}]_toolVars

\* An e-mail leaves with every attachment it names, or not at all.
SentWhole ==
    \A c \in Callers :
        call[c].tool = "send_email" /\ call[c].pc = "done"
            => \A a \in Attachments : AttachedTo[a] = c => file[a] = "fetched"

\* A tool acts through the account its run is pinned to, or else the default.
ActsAsChosen == ActsAsPinned /\ ActsAsDefault
=============================================================================
