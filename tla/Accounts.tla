------------------------------ MODULE Accounts ------------------------------
(***************************************************************************)
(* The connected accounts of an organisation: the rows of Integration, the *)
(* OAuth round trips that create or renew them, the handlers that ask for  *)
(* a valid access token (and refresh it), the webhook accounts and their   *)
(* secrets, and disconnection.  Each awaited query or request is a step.   *)
(*                                                                         *)
(* A credential is the number of its issue: of the refresh token a         *)
(* provider hands out for an account, or of the secret of a webhook.       *)
(***************************************************************************)
EXTENDS Naturals, FiniteSets

CONSTANTS
    Names,          \* the accounts there are at the providers
    ProviderOf,     \* the provider of each
    Rotating,       \* the providers that issue a new refresh token at a refresh
    Rows,           \* the rows at the start: the number of each account's, or 0
    Tabs,           \* the browser tabs that connect accounts
    Creators,       \* the requests that create webhook accounts
    Users,          \* the handlers that need an access token
    None,           \* no tab, no account
    Casts,          \* who and what is at work together; the providers in a cast
                    \* are those whose accounts are connected, expire or go
    MaxRows,        \* bound: rows created
    MaxIssued,      \* bound: credentials issued per account
    Faults          \* may requests and queries fail?

EmailProviders == {"gmail", "outlook"}
GoogleProviders == {"gmail", "google-drive"}
MicrosoftProviders == {"outlook", "teams", "outlook-calendar", "sharepoint"}
OAuthProviders == {ProviderOf[n] : n \in Names} \ {"webhook"}
Numbers == 0 .. MaxRows

ASSUME AccountsAssumption ==
    /\ None \notin Names \cup Tabs
    /\ None \notin EmailProviders \cup MicrosoftProviders \cup {"slack"}
    /\ Rows \in [Names -> Numbers]
    /\ \A m, n \in Names : Rows[m] = Rows[n] /\ m # n => Rows[m] = 0
    /\ LET connected == {n \in Names : Rows[n] # 0}
       IN  /\ Cardinality(connected) \in Numbers
           /\ \A n \in Names : Rows[n] <= Cardinality(connected)
    /\ MaxRows \in Nat /\ MaxIssued \in Nat \ {0}
    /\ OAuthProviders \subseteq GoogleProviders \cup MicrosoftProviders \cup {"slack"}
    /\ Rotating \subseteq MicrosoftProviders

VARIABLES
    cast,           \* the actors and events of this behaviour
    integrations,   \* the Integration rows, by account
    lastRow,        \* how many rows were ever created: their order is createdAt
    issued,         \* at the providers: the newest credential of each account
    cookie,         \* the state cookie of each provider: the tab it was set for
    tab,            \* the OAuth round trip of each tab
    creator,        \* the local state of each webhook creation
    user,           \* the token each handler is after
    removing,       \* the rows a click on "Delete" has listed
    crossed         \* ghost: accounts two writers of credentials crossed on, or
                    \* whose newest credential was lost before it was stored

accountVars == <<integrations, lastRow, issued, cookie, tab, creator, user,
                 removing, crossed>>

Row == [row : Numbers, credential : 0 .. MaxIssued, fresh : BOOLEAN]
NoRow == [row |-> 0, credential |-> 0, fresh |-> FALSE]

\* rival (a ghost): another attempt for the provider was under way.
Tab == [pc : {"idle", "consent", "exchange", "profile", "upsert", "refused"},
        provider : OAuthProviders \cup {None}, name : Names \cup {None},
        credential : 0 .. MaxIssued, rival : BOOLEAN]
NoTab == [pc |-> "idle", provider |-> None, name |-> None, credential |-> 0,
          rival |-> FALSE]

\* rival (a ghost): another creation of the same name was under way.
Creator == [pc : {"idle", "create", "shown"}, name : Names \cup {None},
            row : Numbers, secret : 0 .. MaxIssued, rival : BOOLEAN]
NoCreator == [pc |-> "idle", name |-> None, row |-> 0, secret |-> 0,
              rival |-> FALSE]

\* stored is the credential the handler read, got the one it is to store, and
\* left (a ghost) the one its refresh left at the provider.
User == [pc : {"idle", "find", "refresh", "store", "ready", "failed"},
         name : Names \cup {None}, row : Numbers, stored : 0 .. MaxIssued,
         got : 0 .. MaxIssued, left : 0 .. MaxIssued]
NoUser == [pc |-> "idle", name |-> None, row |-> 0, stored |-> 0, got |-> 0,
           left |-> 0]

AccountsInit ==
    /\ cast \in Casts
    /\ integrations = [n \in Names |->
           IF Rows[n] = 0 THEN NoRow
           ELSE [row |-> Rows[n], credential |-> 1, fresh |-> TRUE]]
    /\ lastRow = Cardinality({n \in Names : Rows[n] # 0})
    /\ issued = [n \in Names |-> IF Rows[n] = 0 THEN 0 ELSE 1]
    /\ cookie = [p \in OAuthProviders |-> None]
    /\ tab = [t \in Tabs |-> NoTab]
    /\ creator = [c \in Creators |-> NoCreator]
    /\ user = [u \in Users |-> NoUser]
    /\ removing = {}
    /\ crossed = {}

IsConnected(n) == integrations[n].row # 0

OfProvider(p) == {n \in Names : IsConnected(n) /\ ProviderOf[n] = p}

\* Mutant: the account connected last.
Earliest_latest(names) ==
    {n \in names : \A m \in names : integrations[m].row <= integrations[n].row}

\* The first row in the order of createdAt, if there is one.
Earliest(names) ==
    {n \in names : \A m \in names : integrations[n].row <= integrations[m].row}

\* getDefaultIntegrationByProvider.
DefaultOf(p) == Earliest(OfProvider(p))

\* getDefaultEmailIntegration.
DefaultEmail == Earliest(OfProvider("gmail") \cup OfProvider("outlook"))

\* Whoever stores the newest credential uncrosses an account; whoever stores
\* one after a newer one was issued crosses it.
Crossing(n, got) ==
    IF issued[n] = got THEN crossed \ {n} ELSE crossed \cup {n}

\* Mutant: a reconnected account gets a row of its own.
Upserted_recreated(n, credential) ==
    /\ lastRow < MaxRows
    /\ lastRow' = lastRow + 1
    /\ integrations' = [integrations EXCEPT
           ![n] = [row |-> lastRow + 1, credential |-> credential, fresh |-> TRUE]]

\* upsertIntegration, by provider and name.
Upserted(n, credential) ==
    IF IsConnected(n)
    THEN /\ integrations' = [integrations EXCEPT
                ![n].credential = credential, ![n].fresh = TRUE]
         /\ UNCHANGED lastRow
    ELSE /\ lastRow < MaxRows
         /\ lastRow' = lastRow + 1
         /\ integrations' = [integrations EXCEPT
                ![n] = [row |-> lastRow + 1, credential |-> credential,
                        fresh |-> TRUE]]

-----------------------------------------------------------------------------
(* The OAuth round trip.                                                    *)

\* Mutant: one cookie for all providers.
CookieOf_shared(p) == CHOOSE q \in OAuthProviders : TRUE

\* oauthStateCookieName.
CookieOf(p) == p

\* The connect route sets the state cookie, over that of an earlier attempt.
StartConnect(t) ==
    /\ t \in cast
    /\ tab[t].pc \in {"idle", "refused"}
    /\ \E p \in OAuthProviders \cap cast :
          LET rivals == {s \in Tabs \ {t} : tab[s].pc = "consent"
                                            /\ tab[s].provider = p}
          IN  /\ cookie' = [cookie EXCEPT ![CookieOf(p)] = t]
              /\ tab' = [s \in Tabs |->
                    CASE s = t -> [NoTab EXCEPT !.pc = "consent", !.provider = p,
                                                !.rival = rivals # {}]
                      [] s \in rivals -> [tab[s] EXCEPT !.rival = TRUE]
                      [] OTHER -> tab[s]]
    /\ UNCHANGED <<integrations, lastRow, issued, creator, user, removing, crossed>>

\* The callback route deletes the cookie whatever it finds; consent may have
\* been refused.
Callback(t) ==
    /\ tab[t].pc = "consent"
    /\ LET c == CookieOf(tab[t].provider)
       IN  /\ \/ tab' = [tab EXCEPT ![t] = NoTab]
              \/ /\ cookie[c] = t
                 /\ tab' = [tab EXCEPT ![t].pc = "exchange"]
              \/ /\ cookie[c] # t
                 /\ tab' = [tab EXCEPT ![t].pc = "refused"]
           /\ cookie' = [cookie EXCEPT ![c] = None]
    /\ UNCHANGED <<integrations, lastRow, issued, creator, user, removing, crossed>>

\* Slack names the account in its answer.
AfterSlack == {"upsert"}

\* Microsoft's identity token may name the account, or not.
AfterMicrosoft == {"upsert", "profile"}

\* Google is asked for the account's address.
AfterGoogle == {"profile"}

\* What follows the exchange, by provider.
AfterExchange(p) ==
    CASE p = "slack" -> AfterSlack
      [] p \in MicrosoftProviders -> AfterMicrosoft
      [] p \in GoogleProviders -> AfterGoogle

\* exchangeCode: the provider issues a credential for the account the person
\* chose there, or it refuses, or it issues no refresh token.
Exchange(t) ==
    /\ tab[t].pc = "exchange"
    /\ \/ \E n \in Names, next \in AfterExchange(tab[t].provider) :
             /\ ProviderOf[n] = tab[t].provider
             /\ issued[n] < MaxIssued
             /\ issued' = [issued EXCEPT ![n] = @ + 1]
             /\ tab' = [tab EXCEPT ![t].pc = next, ![t].name = n,
                                   ![t].credential = issued[n] + 1]
       \/ /\ tab' = [tab EXCEPT ![t] = NoTab]
          /\ UNCHANGED issued
    /\ UNCHANGED <<integrations, lastRow, cookie, creator, user, removing, crossed>>

\* The request for the account's address: when it fails, or the account has
\* none, the credential just issued is lost.
Profile(t) ==
    /\ tab[t].pc = "profile"
    /\ \/ /\ tab' = [tab EXCEPT ![t].pc = "upsert"]
          /\ UNCHANGED crossed
       \/ /\ tab' = [tab EXCEPT ![t] = NoTab]
          /\ crossed' = crossed \cup {tab[t].name}
    /\ UNCHANGED <<integrations, lastRow, issued, cookie, creator, user, removing>>

\* connectOAuthAccount.
UpsertAccount(t) ==
    LET k == tab[t]
    IN  /\ k.pc = "upsert"
        /\ \/ /\ Upserted(k.name, k.credential)
              /\ crossed' = Crossing(k.name, k.credential)
           \/ /\ Faults \/ (lastRow = MaxRows /\ ~IsConnected(k.name))
              /\ crossed' = crossed \cup {k.name}
              /\ UNCHANGED <<integrations, lastRow>>
        /\ tab' = [tab EXCEPT ![t] = NoTab]
    /\ UNCHANGED <<issued, cookie, creator, user, removing>>

-----------------------------------------------------------------------------
(* Webhook accounts.                                                        *)

\* Mutant: the name is not looked up.
NameTaken_never(n) == FALSE

\* createWebhookAccountAction looks the name up,
NameTaken(n) == ProviderOf[n] = "webhook" /\ IsConnected(n)

StartWebhook(c) ==
    /\ c \in cast
    /\ creator[c].pc = "idle"
    /\ \E n \in Names :
          LET rivals == {d \in Creators \ {c} : creator[d].pc = "create"
                                                /\ creator[d].name = n}
          IN  /\ ProviderOf[n] = "webhook"
              /\ ~NameTaken(n)
              /\ creator' = [d \in Creators |->
                    CASE d = c -> [NoCreator EXCEPT !.pc = "create", !.name = n,
                                                    !.rival = rivals # {}]
                      [] d \in rivals -> [creator[d] EXCEPT !.rival = TRUE]
                      [] OTHER -> creator[d]]
    /\ UNCHANGED <<integrations, lastRow, issued, cookie, tab, user, removing,
                   crossed>>

\* and connectWebhookAccount upserts it with a secret that is shown once.
CreateWebhook(c) ==
    LET n == creator[c].name
    IN  /\ creator[c].pc = "create"
        /\ issued[n] < MaxIssued
        /\ issued' = [issued EXCEPT ![n] = @ + 1]
        /\ Upserted(n, issued[n] + 1)
        /\ creator' = [creator EXCEPT ![c].pc = "shown",
                           ![c].secret = issued[n] + 1,
                           ![c].row = integrations'[n].row]
        /\ UNCHANGED <<cookie, tab, user, removing, crossed>>

\* verifyWebhookSecret: the row the URL names, of the webhook provider, with
\* the secret of the header.
Verified(row, secret) ==
    {n \in Names : /\ integrations[n].row = row /\ row # 0
                   /\ ProviderOf[n] = "webhook"
                   /\ integrations[n].credential = secret}

-----------------------------------------------------------------------------
(* A valid access token, for a handler that names the row it wants.         *)

Failed == [NoUser EXCEPT !.pc = "failed"]

\* The token of an account just read, unless it expires soon.
TokenOf(n) ==
    LET k == [NoUser EXCEPT !.name = n, !.row = integrations[n].row]
    IN  IF integrations[n].fresh THEN [k EXCEPT !.pc = "ready"]
        ELSE [k EXCEPT !.pc = "refresh", !.stored = integrations[n].credential]

\* findIntegrationById.
FindAccount(u) ==
    LET k == user[u]
    IN  /\ k.pc = "find"
        /\ user' = [user EXCEPT ![u] =
               IF integrations[k.name].row = k.row THEN TokenOf(k.name) ELSE Failed]
        /\ UNCHANGED <<integrations, lastRow, issued, cookie, tab, creator,
                       removing, crossed>>

\* Mutant: the refresh token that was sent is kept.
ToStore_sent(k, returned) == k.stored

\* Mutant: what the provider returned is stored, be it nothing.
ToStore_returned(k, returned) == returned

\* refreshed.refreshToken ?? credentials.refreshToken.
ToStore(k, returned) == IF returned = 0 THEN k.stored ELSE returned

Refreshed(u, returned) ==
    user' = [user EXCEPT ![u].pc = "store",
                 ![u].got = ToStore(user[u], returned),
                 ![u].left = IF returned = 0 THEN user[u].stored ELSE returned]

\* Google's refreshAccessToken: it returns no refresh token.
RefreshGoogle(u) == Refreshed(u, 0) /\ UNCHANGED issued

\* Microsoft's: it may return a new one.
RefreshMicrosoft(u) ==
    LET n == user[u].name
    IN  \/ /\ ProviderOf[n] \in Rotating
           /\ issued[n] < MaxIssued
           /\ issued' = [issued EXCEPT ![n] = @ + 1]
           /\ Refreshed(u, issued[n] + 1)
        \/ Refreshed(u, 0) /\ UNCHANGED issued

Refresh(u) ==
    LET p == ProviderOf[user[u].name]
    IN  /\ user[u].pc = "refresh"
        /\ \/ p \in GoogleProviders /\ RefreshGoogle(u)
           \/ p \in MicrosoftProviders /\ RefreshMicrosoft(u)
           \/ Faults /\ user' = [user EXCEPT ![u] = Failed] /\ UNCHANGED issued
        /\ UNCHANGED <<integrations, lastRow, cookie, tab, creator, removing, crossed>>

\* updateIntegrationCredentials, by the row's id: it throws when the row is
\* gone.
StoreRefreshed(u) ==
    LET k == user[u]
        there == integrations[k.name].row = k.row
    IN  /\ k.pc = "store"
        /\ \/ /\ there
              /\ integrations' = [integrations EXCEPT
                     ![k.name].credential = k.got, ![k.name].fresh = TRUE]
              /\ crossed' = Crossing(k.name, k.left)
              /\ user' = [user EXCEPT ![u].pc = "ready"]
           \/ /\ Faults \/ ~there
              /\ crossed' = crossed \cup {k.name}
              /\ user' = [user EXCEPT ![u] = Failed]
              /\ UNCHANGED integrations
        /\ UNCHANGED <<lastRow, issued, cookie, tab, creator, removing>>

-----------------------------------------------------------------------------
(* Time, and disconnection.                                                 *)

\* An access token comes within the safety margin of its expiry.
Expire(n) ==
    /\ {"expiry", ProviderOf[n]} \subseteq cast
    /\ ProviderOf[n] \in GoogleProviders \cup MicrosoftProviders
    /\ integrations[n].fresh
    /\ integrations' = [integrations EXCEPT ![n].fresh = FALSE]
    /\ UNCHANGED <<lastRow, issued, cookie, tab, creator, user, removing, crossed>>

Without(n) == integrations' = [integrations EXCEPT ![n] = NoRow]

\* disconnectIntegration.
Disconnect(n) ==
    /\ {"disconnect", ProviderOf[n]} \subseteq cast
    /\ IsConnected(n)
    /\ Without(n)
    /\ UNCHANGED <<lastRow, issued, cookie, tab, creator, user, removing, crossed>>

\* disconnectAllAccounts lists a provider's accounts
ListToRemove(p) ==
    /\ {"disconnect", p} \subseteq cast
    /\ removing = {}
    /\ removing' = {integrations[n].row : n \in OfProvider(p)}
    /\ UNCHANGED <<integrations, lastRow, issued, cookie, tab, creator, user,
                   crossed>>

\* and deletes them, each by its id, in any order.
RemoveListed(row) ==
    /\ row \in removing
    /\ removing' = removing \ {row}
    /\ IF \E n \in Names : integrations[n].row = row
       THEN \E n \in Names : integrations[n].row = row /\ Without(n)
       ELSE UNCHANGED integrations
    /\ UNCHANGED <<lastRow, issued, cookie, tab, creator, user, crossed>>

AccountsNext ==
    \/ \E t \in Tabs :
          StartConnect(t) \/ Callback(t) \/ Exchange(t) \/ Profile(t)
              \/ UpsertAccount(t)
    \/ \E c \in Creators : StartWebhook(c) \/ CreateWebhook(c)
    \/ \E u \in Users : FindAccount(u) \/ Refresh(u) \/ StoreRefreshed(u)
    \/ \E n \in Names : Expire(n) \/ Disconnect(n)
    \/ \E p \in OAuthProviders \cup {"webhook"} : ListToRemove(p)
    \/ \E row \in removing : RemoveListed(row)
=============================================================================
