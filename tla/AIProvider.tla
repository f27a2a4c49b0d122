----------------------------- MODULE AIProvider -----------------------------
(***************************************************************************)
(* The one AI provider an organisation connects: the settings page saves   *)
(* an address and, when its secret field is filled in, a secret; every     *)
(* model call and every embedding goes through what is stored.             *)
(***************************************************************************)
CONSTANTS
    Orgs,
    Saves,      \* the submissions of the settings form
    Form,       \* of each, its organisation, address and secret ("" if blank)
    Connected   \* what is stored at first, None for an organisation without

CONSTANT None

ASSUME ProviderAssumption ==
    DOMAIN Connected = Orgs /\ \A s \in Saves : Form[s].org \in Orgs

Secrets == {Form[s].secret : s \in Saves} \cup {""}
Urls == {Form[s].url : s \in Saves}

VARIABLES
    provider,   \* [url, secret] of each organisation, or None
    saves,      \* the local state of each submission
    overtaken   \* the submissions whose row changed after they read it

providerVars == <<provider, saves, overtaken>>

Unread == [pc |-> "new", secret |-> ""]

ProviderTypeOK ==
    /\ \A o \in Orgs : provider[o] # None =>
           provider[o].secret \in Secrets \cup {Connected[o].secret}
    /\ \A s \in Saves : saves[s].pc \in {"new", "write", "over"}
    /\ overtaken \subseteq Saves

ProviderInit ==
    /\ provider = Connected
    /\ saves = [s \in Saves |-> Unread]
    /\ overtaken = {}

StoredSecret(o) == IF provider[o] = None THEN "" ELSE provider[o].secret

\* Those between their read and their write when the row of o changes.
Between(o) == {s \in Saves : saves[s].pc = "write" /\ Form[s].org = o}

\* setOllamaProvider: a blank field keeps the secret that is stored.
KeptSecret_dropped(s) == Form[s].secret
KeptSecret(s) ==
    IF Form[s].secret = "" THEN StoredSecret(Form[s].org) ELSE Form[s].secret

ReadSecret(s) ==
    /\ saves[s].pc = "new"
    /\ saves' = [saves EXCEPT ![s] = [pc |-> "write", secret |-> KeptSecret(s)]]
    /\ UNCHANGED <<provider, overtaken>>

StoreProvider(s) ==
    /\ saves[s].pc = "write"
    /\ provider' = [provider EXCEPT ![Form[s].org] =
                       [url |-> Form[s].url, secret |-> saves[s].secret]]
    /\ saves' = [saves EXCEPT ![s] = [Unread EXCEPT !.pc = "over"]]
    /\ overtaken' = overtaken \cup (Between(Form[s].org) \ {s})

\* disconnectAIProvider: find the row, delete it.
DisconnectProvider(o) ==
    /\ provider[o] # None
    /\ provider' = [provider EXCEPT ![o] = None]
    /\ overtaken' = overtaken \cup Between(o)
    /\ UNCHANGED saves

ProviderSteps(s) == ReadSecret(s) \/ StoreProvider(s)

\* getAIProvider throws when nothing is connected.
HasProvider(o) == provider[o] # None

\* "The field was submitted blank" means "leave whatever's already stored": a
\* submission without a secret changes the stored one only when another one
\* stored, or the provider was disconnected, after it had read.
SecretKept ==
    [][\A s \in Saves :
         /\ saves[s].pc = "write" /\ saves'[s].pc = "over"
         /\ Form[s].secret = "" /\ s \notin overtaken
         /\ provider[Form[s].org] # None
         => provider'[Form[s].org].secret = provider[Form[s].org].secret]_providerVars
=============================================================================
