---------------------------- MODULE MCWorkflows ----------------------------
(* Small instances of Workflows.                                            *)
EXTENDS Workflows, TLC

CONSTANTS w1, w2, w3, x1, g1, o1, h1, y1, z1, a1, a2, a3, b1, ours, theirs

MCOrgOf ==
    [i \in Workflows \cup Accounts \cup Agents |->
        IF i \in {x1, y1, z1, b1} THEN theirs ELSE ours]

MCProviderOf ==
    [a \in Accounts |->
        CASE a = g1 -> "gmail" [] a \in {o1, z1} -> "outlook" [] OTHER -> "webhook"]

\* w1 is live and generic, w2 a draft for the same slot, x1 a live webhook of
\* the other organisation; the other workflows do not exist yet.
Rows(w) ==
    CASE w = w1 -> [status |-> "ACTIVE", trigger |-> "EMAIL", account |-> None]
      [] w = w2 -> [status |-> "DRAFT", trigger |-> "EMAIL", account |-> None]
      [] w = x1 -> [status |-> "ACTIVE", trigger |-> "WEBHOOK", account |-> y1]
      [] OTHER -> [status |-> "NONE", trigger |-> "EMAIL", account |-> None]

\* a1 classifies, the others handle.
Part(w, a) ==
    CASE w \in {w1, w2} /\ a = a1 -> "CLASSIFIER"
      [] w \in {w1, w2} /\ a \in {a2, a3} -> "HANDLER"
      [] w = x1 /\ a = b1 -> "HANDLER"
      [] OTHER -> "NONE"

MembersNow == [w \in Workflows |-> [a \in Agents |-> Part(w, a)]]

\* w1 is live and bound to a webhook; the other organisation has a mailbox.
Webhook ==
    [workflows |-> [w \in Workflows |->
         IF w = w1 THEN [status |-> "ACTIVE", trigger |-> "WEBHOOK", account |-> h1]
         ELSE Rows(w)],
     members |-> MembersNow, accounts |-> <<h1, z1>>]

\* w3 is live and bound to a mailbox of its own, beside the generic slot.
Mixed ==
    [workflows |-> [w \in Workflows |->
         IF w = w3 THEN [status |-> "ACTIVE", trigger |-> "EMAIL", account |-> g1]
         ELSE Rows(w)],
     members |-> [w \in Workflows |-> [a \in Agents |->
         IF w = w3 THEN MembersNow[w1][a] ELSE MembersNow[w][a]]],
     accounts |-> <<g1, o1, y1>>]

\* Overlapping clicks are alike.
Symmetry == Permutations(Clicks)
=============================================================================
