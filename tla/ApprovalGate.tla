---------------------------- MODULE ApprovalGate ----------------------------
(***************************************************************************)
(* What the approval gate promises about the tool calls of one run,        *)
(* whatever handlers, pauses, failures and crashes there are.  A call to a *)
(* gated tool is first asked for, then granted or refused once, and only a *)
(* granted one is performed; any call is performed at most once.           *)
(***************************************************************************)
EXTENDS Sequences, Naturals

CONSTANT Gated      \* the tools whose calls need approval

VARIABLES
    pending,    \* the calls a human has yet to decide
    granted,    \* those approved and not yet performed
    refused,    \* those rejected
    performed   \* the calls performed, in order

\* Does this call need approval before it is performed?
IsGated(c) == c.tool \in Gated

gateVars == <<pending, granted, refused, performed>>

Performed == {performed[k] : k \in DOMAIN performed}

Known == pending \cup granted \cup refused \cup Performed

Init ==
    /\ pending = {} /\ granted = {} /\ refused = {}
    /\ performed = <<>>

Ask(c) ==
    /\ IsGated(c)
    /\ c \notin Known
    /\ pending' = pending \cup {c}
    /\ UNCHANGED <<granted, refused, performed>>

Grant(c) ==
    /\ c \in pending
    /\ pending' = pending \ {c}
    /\ granted' = granted \cup {c}
    /\ UNCHANGED <<refused, performed>>

Refuse(c) ==
    /\ c \in pending
    /\ pending' = pending \ {c}
    /\ refused' = refused \cup {c}
    /\ UNCHANGED <<granted, performed>>

PerformGranted(c) ==
    /\ c \in granted
    /\ granted' = granted \ {c}
    /\ performed' = Append(performed, c)
    /\ UNCHANGED <<pending, refused>>

PerformFree(c) ==
    /\ ~IsGated(c)
    /\ c \notin Known
    /\ performed' = Append(performed, c)
    /\ UNCHANGED <<pending, granted, refused>>

\* Which call is asked for or performed next is up to the run.
Next ==
    \/ \E c \in pending' : Ask(c)
    \/ \E c \in pending : Grant(c) \/ Refuse(c)
    \/ \E c \in granted : PerformGranted(c)
    \/ \E k \in DOMAIN performed' : PerformFree(performed'[k])

Spec == Init /\ [][Next]_gateVars
=============================================================================
