------------------------------- MODULE Inbound -------------------------------
(***************************************************************************)
(* What reaches the workflows of an organisation: the inbox checks         *)
(* (checkInboxAction), the webhook deliveries                              *)
(* (POST /api/webhooks/[integrationId]) and the routing they share         *)
(* (dispatchInboundMessage), at work with the tools of Tools over the      *)
(* accounts of Accounts.  Each awaited call is a step.                     *)
(*                                                                         *)
(* Which workflow is found and which of its agents are ACTIVE is the       *)
(* module Workflows' matter: here it is the set of handlers found.         *)
(***************************************************************************)
EXTENDS Tools, TLC

CONSTANTS
    Mails,          \* the unread e-mails: numbers, the newest the greatest
    BoxOf,          \* the account of each
    Posts,          \* what the sender of a webhook wants to deliver
    Deliveries,     \* its attempts
    PostOf,         \* what each attempt delivers
    After,          \* the attempts each attempt repeats
    Checks,         \* the clicks on "Check inbox"
    Agents,         \* the agents that may handle a message
    Mentions,       \* the agents whose keywords each message contains
    Servings,       \* the sets of ACTIVE handlers a workflow may have
    PageSize        \* maxResults

Messages == Mails \cup Posts
Handlers == Checks \cup Deliveries

ASSUME InboundAssumption ==
    /\ Mails \subseteq Nat \ {0} /\ PageSize \in Nat \ {0}
    /\ \A some \in SUBSET Mails \ {{}} : \E m \in some : \A n \in some : n <= m
    /\ Mails \cap Posts = {}
    /\ BoxOf \in [Mails -> Names]
    /\ PostOf \in [Deliveries -> Posts]
    /\ After \in [Deliveries -> SUBSET Deliveries]
    /\ \A d, e \in Deliveries : PostOf[d] = PostOf[e] /\ d # e
                                  => d \in After[e] \/ e \in After[d]
    /\ Users = Checks \cup Callers \cup Attachments
    /\ Checks \cap (Callers \cup Attachments \cup Deliveries) = {}
    /\ IsFiniteSet(Agents)
    /\ Mentions \in [Messages -> SUBSET Agents]
    /\ Servings \subseteq SUBSET Agents

VARIABLES
    unread,         \* the e-mails the mailboxes hold unread
    serving,        \* the ACTIVE handlers of the workflow messages find now
    check,          \* the local state of each inbox check
    delivery,       \* the local state of each attempt to deliver
    route,          \* each handler's dispatchInboundMessage
    ran,            \* ghost: how often an agent ran on each message
    excused         \* ghost: messages in two hands, or whose handler failed

inboundVars == <<unread, serving, check, delivery, route, ran, excused>>
vars == <<cast, accountVars, toolVars, inboundVars>>

\* An account as a check has read it: by its row.
Account == Names \X Numbers

\* accounts are still to be checked, account is being checked, queue are its
\* messages still to be handled, mail the one being handled; due (a ghost) are
\* those a check that ends well has to have settled.
Check == [pc : {"idle", "start", "token", "list", "get", "dispatch", "ended", "error"},
          accounts : SUBSET Account, account : Account \cup {None},
          queue : SUBSET Mails, mail : Mails \cup {0},
          processed : SUBSET Mails, skipped : SUBSET Mails, due : SUBSET Mails]
NoCheck == [pc |-> "idle", accounts |-> {}, account |-> None, queue |-> {},
            mail |-> 0, processed |-> {}, skipped |-> {}, due |-> {}]

\* lost: its sender no longer waits for the answer.
Delivery == [pc : {"idle", "dispatch", "answered"}, lost : BOOLEAN,
             answer : {"none", "matched", "unmatched", "refused", "error"}]
NoDelivery == [pc |-> "idle", lost |-> FALSE, answer |-> "none"]

\* asked: the classifier was asked.
Route == [pc : {"none", "workflow", "provider", "choose", "classify", "run",
                "matched", "no_workflow", "no_match", "threw"},
          handlers : SUBSET Agents, agent : Agents \cup {None}, asked : BOOLEAN]
NoRoute == [pc |-> "none", handlers |-> {}, agent |-> None, asked |-> FALSE]

TypeOK ==
    /\ cast \in Casts
    /\ integrations \in [Names -> Row]
    /\ \A m, n \in Names : integrations[m].row = integrations[n].row
                              => m = n \/ integrations[m].row = 0
    /\ \A n \in Names : /\ integrations[n].row <= lastRow
                        /\ integrations[n].credential <= issued[n]
                        /\ IsConnected(n) => integrations[n].credential # 0
    /\ issued \in [Names -> 0 .. MaxIssued]
    /\ cookie \in [OAuthProviders -> Tabs \cup {None}]
    /\ tab \in [Tabs -> Tab]
    /\ creator \in [Creators -> Creator]
    /\ user \in [Users -> User]
    /\ removing \subseteq Numbers /\ crossed \subseteq Names
    /\ unread \subseteq Mails /\ serving \subseteq Agents
    /\ \A c \in Checks : check[c] \in Check
    /\ delivery \in [Deliveries -> Delivery]
    /\ route \in [Handlers -> Route]
    /\ ToolsTypeOK

Init ==
    /\ AccountsInit /\ ToolsInit
    /\ unread = Mails
    /\ serving = Agents
    /\ check = [c \in Checks |-> NoCheck]
    /\ delivery = [d \in Deliveries |-> NoDelivery]
    /\ route = [h \in Handlers |-> NoRoute]
    /\ ran = [m \in Messages |-> 0]
    /\ excused = {}

-----------------------------------------------------------------------------
(* Routing: dispatchInboundMessage.                                         *)

MessageOf(h) == IF h \in Checks THEN check[h].mail ELSE PostOf[h]

Routing(h, r) == route' = [route EXCEPT ![h] = r]

\* findActiveWorkflowForDispatch and its ACTIVE handlers.
FindWorkflow(h) ==
    /\ route[h].pc = "workflow"
    /\ Routing(h, [NoRoute EXCEPT
           !.pc = IF serving = {} THEN "no_workflow" ELSE "provider",
           !.handlers = serving])
    /\ UNCHANGED <<ran, excused>>

\* getAIProvider throws when none is configured.
GetProvider(h) ==
    /\ route[h].pc = "provider"
    /\ \/ Routing(h, [route[h] EXCEPT !.pc = "choose"])
       \/ Faults /\ Routing(h, [NoRoute EXCEPT !.pc = "threw"])
    /\ UNCHANGED <<ran, excused>>

\* Mutant: the first agent with a keyword in the text.
KeywordMatch_any(h) ==
    LET matches == route[h].handlers \cap Mentions[MessageOf(h)]
    IN  IF matches # {} THEN {CHOOSE a \in matches : TRUE} ELSE {}

\* deterministicClassify: the one handler whose keywords the text contains.
KeywordMatch(h) ==
    LET matches == route[h].handlers \cap Mentions[MessageOf(h)]
    IN  IF Cardinality(matches) = 1 THEN matches ELSE {}

\* A single handler, or the keywords, decide without the classifier.
Choose(h) ==
    LET certain == IF Cardinality(route[h].handlers) = 1 THEN route[h].handlers
                   ELSE KeywordMatch(h)
    IN  /\ route[h].pc = "choose"
        /\ \/ \E a \in certain :
                 Routing(h, [route[h] EXCEPT !.pc = "run", !.agent = a])
           \/ /\ certain = {}
              /\ Routing(h, [route[h] EXCEPT !.pc = "classify", !.asked = TRUE])
        /\ UNCHANGED <<ran, excused>>

\* classifyIntent: any answer that is no candidate's id counts as none.
Classify(h) ==
    /\ route[h].pc = "classify"
    /\ \/ \E a \in route[h].handlers :
             Routing(h, [route[h] EXCEPT !.pc = "run", !.agent = a])
       \/ Routing(h, [route[h] EXCEPT !.pc = "no_match"])
       \/ Faults /\ Routing(h, [NoRoute EXCEPT !.pc = "threw"])
    /\ UNCHANGED <<ran, excused>>

\* runAgentByExecutionMode returns whatever the run's own outcome; what it
\* throws may come before the agent acted, or after.
Run(h) ==
    LET m == MessageOf(h)
    IN  /\ route[h].pc = "run"
        /\ ran[m] < 3
        /\ \/ /\ ran' = [ran EXCEPT ![m] = @ + 1]
              /\ Routing(h, [route[h] EXCEPT !.pc = "matched"])
              /\ UNCHANGED excused
           \/ /\ Faults
              /\ Routing(h, [NoRoute EXCEPT !.pc = "threw"])
              /\ UNCHANGED <<ran, excused>>
           \/ /\ Faults
              /\ ran' = [ran EXCEPT ![m] = @ + 1]
              /\ excused' = excused \cup {m}
              /\ Routing(h, [NoRoute EXCEPT !.pc = "threw"])

Dispatch(h) ==
    /\ \/ FindWorkflow(h) \/ GetProvider(h) \/ Choose(h) \/ Classify(h) \/ Run(h)
    /\ UNCHANGED <<accountVars, unread, serving, check, delivery, toolVars>>

\* A workflow is activated or deactivated, its members are edited.
Reconfigure ==
    /\ "workflows" \in cast
    /\ \E s \in Servings \ {serving} : serving' = s
    /\ UNCHANGED <<accountVars, toolVars, unread, check, delivery, route, ran,
                   excused>>

-----------------------------------------------------------------------------
(* The inbox checks: checkInboxAction.                                      *)

First(accounts) ==
    CHOOSE a \in accounts :
        ProviderOf[a[1]] = "gmail" \/ \A b \in accounts : ProviderOf[b[1]] # "gmail"

Newest(mails) == CHOOSE m \in mails : \A n \in mails : n <= m

\* The next message, the next account, or the end.
Onward(k) ==
    CASE k.queue # {} ->
            [k EXCEPT !.pc = "get", !.mail = Newest(k.queue),
                      !.queue = k.queue \ {Newest(k.queue)}]
      [] k.queue = {} /\ k.accounts # {} ->
            [k EXCEPT !.pc = "token", !.mail = 0, !.account = First(k.accounts),
                      !.accounts = k.accounts \ {First(k.accounts)}]
      [] OTHER -> [k EXCEPT !.pc = "ended", !.mail = 0, !.account = None]

\* Whatever throws ends the check.
Thrown(k) ==
    [k EXCEPT !.pc = "error", !.mail = 0, !.queue = {}, !.account = None,
              !.accounts = {}]

\* The check goes on with k; with an account it first wants its token.
Go(c, k) ==
    /\ check' = [check EXCEPT ![c] = k]
    /\ user' = [user EXCEPT ![c] =
           IF k.pc = "token"
           THEN [NoUser EXCEPT !.pc = "find", !.name = k.account[1],
                               !.row = k.account[2]]
           ELSE NoUser]
    /\ UNCHANGED <<integrations, lastRow, issued, cookie, tab, creator, removing,
                   crossed, serving, delivery, toolVars, ran>>

\* The access token is the one a check took before its first message: a
\* request with it fails once it has expired.
MayFail(c) ==
    Faults \/ \E n \in Names : <<n, integrations[n].row>> = check[c].account
                              /\ ~integrations[n].fresh

StartCheck(c) ==
    /\ c \in cast
    /\ check[c].pc = "idle"
    /\ Go(c, [NoCheck EXCEPT !.pc = "start"])
    /\ UNCHANGED <<unread, route, excused>>

\* getConnectedEmailIntegrations: the default account of each provider.
FindAccounts(c) ==
    LET found == {<<n, integrations[n].row>> :
                     n \in UNION {DefaultOf(p) : p \in EmailProviders}}
    IN  /\ check[c].pc = "start"
        /\ Go(c, IF found = {} THEN Thrown(check[c])
                 ELSE Onward([check[c] EXCEPT !.accounts = found]))
        /\ UNCHANGED <<unread, route, excused>>

\* getAccessToken threw.
WithoutToken(c) ==
    /\ check[c].pc = "token"
    /\ user[c].pc = "failed"
    /\ Go(c, Thrown(check[c]))
    /\ UNCHANGED <<unread, route, excused>>

\* The e-mails another check has in hand.
InOtherHands(c) ==
    UNION {check[d].queue \cup ({check[d].mail} \ {0}) : d \in Checks \ {c}}

\* An Outlook mailbox is asked for its folder first: there may be none.
FindFolder(c) ==
    /\ check[c].pc = "token"
    /\ user[c].pc = "ready"
    /\ ProviderOf[check[c].account[1]] = "outlook"
    /\ \/ Go(c, [check[c] EXCEPT !.pc = "list"])
       \/ Go(c, Thrown(check[c]))
    /\ UNCHANGED <<unread, route, excused>>

\* The unread messages of an account's inbox, and its newest page, as both
\* providers list them.
Inbox(n) == {m \in unread : BoxOf[m] = n}
Page(n) == {m \in Inbox(n) : Cardinality({k \in Inbox(n) : k > m}) < PageSize}

\* listUnread.
ListUnread(c) ==
    LET n == check[c].account[1]
        box == Inbox(n)
        page == Page(n)
    IN  /\ check[c].pc \in {"token", "list"}
        /\ check[c].pc = "token" => ProviderOf[n] = "gmail" /\ user[c].pc = "ready"
        /\ \/ /\ Go(c, Onward([check[c] EXCEPT
                     !.queue = page,
                     !.due = @ \cup (IF page = box THEN box ELSE {})]))
              /\ excused' = excused \cup (page \cap InOtherHands(c))
           \/ /\ MayFail(c)
              /\ Go(c, Thrown(check[c]))
              /\ UNCHANGED excused
        /\ UNCHANGED <<unread, route>>

\* getMessage, and the message is dispatched.
GetMessage(c) ==
    /\ check[c].pc = "get"
    /\ \/ /\ Go(c, [check[c] EXCEPT !.pc = "dispatch"])
          /\ Routing(c, [NoRoute EXCEPT !.pc = "workflow"])
       \/ /\ MayFail(c)
          /\ Go(c, Thrown(check[c]))
          /\ UNCHANGED route
    /\ UNCHANGED <<unread, excused>>

\* Mutant: a message no agent fits is marked read too.
ToMark_any == {"matched", "no_match"}

\* The outcomes of dispatch after which a message is marked read.
ToMark == {"matched"}

\* Mutant: nothing is marked.
Marked_not(m) == unread

Marked(m) == unread \ {m}

\* markRead.
MarkRead(c) ==
    LET k == check[c]
    IN  /\ k.pc = "dispatch"
        /\ route[c].pc \in ToMark
        /\ \/ /\ unread' = Marked(k.mail)
              /\ Go(c, Onward([k EXCEPT !.processed = @ \cup {k.mail}]))
              /\ UNCHANGED excused
           \/ /\ MayFail(c)
              /\ excused' = excused \cup {k.mail}
              /\ Go(c, Thrown(k))
              /\ UNCHANGED unread
        /\ Routing(c, NoRoute)

\* No agent fits: the message is left unread.
Skip(c) ==
    LET k == check[c]
    IN  /\ k.pc = "dispatch"
        /\ route[c].pc = "no_match"
        /\ Go(c, Onward([k EXCEPT !.skipped = @ \cup {k.mail}]))
        /\ Routing(c, NoRoute)
        /\ UNCHANGED <<unread, excused>>

\* Mutant: the other messages are passed over.
NoWorkflow_passedOver(k) == Onward([k EXCEPT !.queue = {}])

\* "No active email workflow is configured": the check stops.
NoWorkflow(k) == Thrown(k)

Stop(c) ==
    /\ check[c].pc = "dispatch"
    /\ \/ route[c].pc = "no_workflow" /\ Go(c, NoWorkflow(check[c]))
       \/ route[c].pc = "threw" /\ Go(c, Thrown(check[c]))
    /\ Routing(c, NoRoute)
    /\ UNCHANGED <<unread, excused>>

CheckNext(c) ==
    \/ StartCheck(c) \/ FindAccounts(c) \/ WithoutToken(c) \/ FindFolder(c)
    \/ ListUnread(c)
    \/ GetMessage(c) \/ MarkRead(c) \/ Skip(c) \/ Stop(c)

-----------------------------------------------------------------------------
(* The webhook deliveries: POST.                                            *)

DeliveryStep(d, k) ==
    /\ delivery' = [delivery EXCEPT ![d] = k]
    /\ UNCHANGED <<accountVars, unread, serving, check, toolVars, ran>>

\* A sender tries once, and again when it got no answer or was turned down.
MayTry(d) ==
    \A e \in After[d] :
        delivery[e].lost \/ delivery[e].answer \in {"refused", "error"}

\* The secret is verified for the row in the URL, and the body parsed; the
\* second attempt at what may have been handled is not recognised.
Deliver(d) ==
    /\ d \in cast
    /\ delivery[d].pc = "idle"
    /\ MayTry(d)
    /\ \/ /\ \E row \in Numbers, secret \in 0 .. MaxIssued : Verified(row, secret) # {}
          /\ DeliveryStep(d, [NoDelivery EXCEPT !.pc = "dispatch"])
          /\ Routing(d, [NoRoute EXCEPT !.pc = "workflow"])
          /\ excused' = IF \E e \in After[d] : delivery[e].lost
                        THEN excused \cup {PostOf[d]} ELSE excused
       \/ /\ DeliveryStep(d, [NoDelivery EXCEPT !.pc = "answered",
                                                !.answer = "refused"])
          /\ UNCHANGED <<route, excused>>

\* Mutant: a message that was handled is answered with an error.
AnswerTo_error(outcome) == IF outcome = "no_match" THEN "unmatched" ELSE "error"

\* The status the sender gets.
AnswerTo(outcome) ==
    CASE outcome = "matched" -> "matched"
      [] outcome \in {"no_workflow", "no_match"} -> "unmatched"
      [] outcome = "threw" -> "error"

Answer(d) ==
    /\ delivery[d].pc = "dispatch"
    /\ route[d].pc \in {"matched", "no_workflow", "no_match", "threw"}
    /\ DeliveryStep(d, [delivery[d] EXCEPT !.pc = "answered",
                                           !.answer = AnswerTo(route[d].pc)])
    /\ Routing(d, NoRoute)
    /\ UNCHANGED excused

\* The sender stops waiting.
GiveUp(d) ==
    /\ "timeout" \in cast
    /\ delivery[d].pc # "idle"
    /\ ~delivery[d].lost
    /\ DeliveryStep(d, [delivery[d] EXCEPT !.lost = TRUE])
    /\ UNCHANGED <<route, excused>>

-----------------------------------------------------------------------------

AccountStep ==
    /\ AccountsNext /\ PinsKept
    /\ UNCHANGED <<call, file, inboundVars>>

Next ==
    /\ \/ AccountStep
       \/ \E h \in Handlers : Dispatch(h)
       \/ Reconfigure
       \/ \E c \in Checks : CheckNext(c)
       \/ \E d \in Deliveries : Deliver(d) \/ Answer(d) \/ GiveUp(d)
       \/ ToolsNext /\ UNCHANGED inboundVars
    /\ UNCHANGED cast

Spec == Init /\ [][Next]_vars

-----------------------------------------------------------------------------
(* Properties.                                                              *)

\* The stored credential of an account is the newest its provider issued
\* ("a new refresh_token here that should replace the stored one"), unless a
\* refresh or a connection is about to store it or crossed another one.
LatestStored ==
    \A n \in Names :
        \/ ~IsConnected(n) \/ n \in crossed
        \/ \E u \in Users : user[u].pc = "store" /\ user[u].name = n
        \/ \E t \in Tabs : tab[t].pc \in {"profile", "upsert"} /\ tab[t].name = n
        \/ integrations[n].credential = issued[n]

\* Only its disconnection takes an account its place as the default of its
\* provider: connecting another, or the same again, never does.
DefaultStays ==
    [][\A p \in EmailProviders : \A n \in DefaultOf(p) :
          n \in DefaultOf(p)' \/ ~IsConnected(n)']_vars

\* An attempt to connect an account is only refused for its state when another
\* attempt for the same provider was under way: two providers "can't clobber
\* each other's state".
OwnProviderOnly == \A t \in Tabs : tab[t].pc = "refused" => tab[t].rival

\* The secret shown for a webhook account verifies as long as the account is
\* there: no other creation regenerates it, unless it was under way already.
SecretsKept ==
    \A c \in Creators :
        LET k == creator[c]
        IN  k.pc = "shown" /\ ~k.rival /\ integrations[k.name].row = k.row
                => k.name \in Verified(k.row, k.secret)

\* No two agents run on one message, unless two checks had it in hand at once,
\* its handler failed after the run, or its sender gave up waiting.
RunOnce == \A m \in Messages : ran[m] > 1 => m \in excused

\* An e-mail is not marked read unless an agent ran on it: what no agent fits
\* stays in the inbox for a human.
ReadMeansRun == \A m \in Mails \ unread : ran[m] > 0

\* A check that ends well has run an agent on, or skipped, every e-mail the
\* accounts it listed held unread, unless they filled a page.
EndedMeansSettled ==
    \A c \in Checks :
        check[c].pc = "ended"
            => /\ check[c].due \subseteq check[c].processed \cup check[c].skipped
               /\ check[c].processed \cap check[c].skipped = {}

\* A handler taken without asking the classifier is the only one, or the only
\* one whose keywords the text contains: "any ambiguity falls through".
UnambiguousOrAsked ==
    \A h \in Handlers :
        LET r == route[h]
        IN  r.agent # None /\ ~r.asked
                => \/ r.handlers = {r.agent}
                   \/ r.handlers \cap Mentions[MessageOf(h)] = {r.agent}

\* Connecting, disconnecting and creating accounts at once leaves each of them
\* well-formed, and undisturbed by those of other providers and names.
AccountsSound == TypeOK /\ OwnProviderOnly /\ SecretsKept

\* Which account is the default, and which one a pin names, only changes by a
\* disconnection, and a tool with an account to act through is never refused.
DefaultsHold == DefaultStays /\ PinNeverBlocks

\* A message is run once, marked read only when it was, and given to an agent
\* without asking only when no other could have it.
Handled == RunOnce /\ ReadMeansRun /\ UnambiguousOrAsked
=============================================================================
