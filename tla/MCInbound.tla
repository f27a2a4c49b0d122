------------------------------ MODULE MCInbound ------------------------------
(* Small instances of Inbound.                                              *)
EXTENDS Inbound

CONSTANTS g1, g2, o1, h1, h2, k1, t1, c1, d1, p1, quote, support

MCProviderOf ==
    [n \in Names |-> CASE n \in {g1, g2} -> "gmail" [] n = o1 -> "outlook"
                       [] n = k1 -> "slack" [] n = t1 -> "teams"
                       [] n = c1 -> "outlook-calendar" [] n = d1 -> "google-drive"
                       [] n = p1 -> "sharepoint" [] OTHER -> "webhook"]

\* The order the accounts were connected in; h2 and t1 are not.
MCOrder == <<g1, g2, o1, h1, k1, c1, d1, p1>>
MCRows == [n \in Names |-> IF \E i \in DOMAIN MCOrder : MCOrder[i] = n
                           THEN CHOOSE i \in DOMAIN MCOrder : MCOrder[i] = n ELSE 0]

MCBoxOf == [m \in Mails |-> IF m = 4 THEN o1 ELSE g1]
MCPostOf == [d \in Deliveries |-> 9]
MCAfter == [d \in Deliveries |-> IF d = "try2" THEN {"try1"} ELSE {}]

\* send1 is pinned to the mailbox o1, note1 to the calendar, mail1 to nothing.
MCPins == [c \in Callers |-> CASE c = "send1" -> o1 [] c = "note1" -> c1
                               [] OTHER -> None]
MCCalls ==
    [c \in Callers |-> IF c = "note1" THEN ToolNames \ {"send_email"}
                      ELSE {"send_email"}]
MCAttachedTo == [a \in Attachments |-> "mail1"]
MCStorageOf == [a \in Attachments |-> IF a = "file1" THEN "google-drive"
                                     ELSE "sharepoint"]

\* The newest e-mail mentions both agents' keywords, the others one each.
MCMentions ==
    [m \in Messages |-> CASE m = 3 -> {quote, support} [] m = 2 -> {quote}
                          [] m = 4 -> {} [] OTHER -> {support}]
MCServings == {{}, {quote}, {quote, support}}

\* What is looked at together: each cast is a behaviour of its own.
MCCasts ==
    {{"check1", "check2", "workflows"},
     {"check1", "send1", "expiry", "outlook"},
     {"check1", "expiry", "disconnect", "gmail", "outlook"},
     {"send1", "expiry", "tab1", "outlook"},
     {"send1", "expiry", "disconnect", "outlook"},
     {"note1", "expiry", "disconnect", "outlook-calendar", "slack"},
     {"note1", "tab1", "disconnect", "teams"},
     {"note1", "tab1", "slack"},
     {"mail1", "expiry", "disconnect", "google-drive", "sharepoint"},
     {"tab1", "disconnect", "gmail"},
     {"tab1", "disconnect", "outlook"},
     {"tab1", "tab2", "gmail", "outlook"},
     {"new1", "new2", "try1", "disconnect", "webhook"},
     {"try1", "try2", "timeout", "workflows"}}
=============================================================================
