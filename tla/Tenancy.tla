------------------------------- MODULE Tenancy -------------------------------
(***************************************************************************)
(* The people of an organisation, over its own rows (Provisioning) and the *)
(* templates (Templates): getCurrentUser, which keeps a User row for each  *)
(* person in step with Clerk, the decisions that name their approver, and  *)
(* deleteMyAccount.  Together they are everything that signs in to, fills  *)
(* and empties a tenant.                                                   *)
(***************************************************************************)
EXTENDS Provisioning

CONSTANTS
    Persons,        \* the people at Clerk
    PersonOf,       \* whose each request is
    Emails,         \* the e-mail addresses there are
    FirstEmail,     \* that of each person at the start
    Approvals,      \* approvals waiting for a decision
    MaxUsers        \* bound: User rows ever created

ClerkRoles == {"org:admin", "org:member"}
Roles == {"ADMIN", "MEMBER"}

ASSUME TenancyAssumption ==
    /\ PersonOf \in [Requests -> Persons]
    /\ FirstEmail \in [Persons -> Emails]
    /\ \A p, q \in Persons : FirstEmail[p] = FirstEmail[q] => p = q
    /\ None \notin Emails
    /\ MaxUsers \in Nat

VARIABLES
    clerk,          \* what Clerk has of each person
    users,          \* the User row of each person
    lastUser,       \* the id of the newest
    approver,       \* Approval.approverId, or 0
    visit,          \* the local state of each getCurrentUser and what follows
    current,        \* ghost: the people whose last change a request has seen
    late            \* ghost: people whose row was created after its deletion

peopleVars == <<clerk, users, lastUser, approver, visit, current, late>>
vars == <<cast, templateVars, provisioningVars, peopleVars>>

Person == [there : BOOLEAN, role : ClerkRoles, email : Emails]
User == [id : 0 .. MaxUsers, role : Roles, email : Emails \cup {None}]
NoUser == [id |-> 0, role |-> "MEMBER", email |-> None]

\* role comes with the session, email from Clerk; user is the row that was
\* found or made.  fresh (a ghost): what it read of Clerk is still so, and no
\* request that read something older was under way.
Visit == [pc : {"idle", "clerk", "find", "update", "create", "reread", "ready",
                "unname", "drop", "leave"},
          role : Roles, email : Emails \cup {None}, user : 0 .. MaxUsers,
          fresh : BOOLEAN]
NoVisit == [pc |-> "idle", role |-> "MEMBER", email |-> None, user |-> 0,
            fresh |-> FALSE]

TypeOK ==
    /\ cast \in Casts
    /\ templates \subseteq Template /\ lastTemplate \in 0 .. MaxTemplates
    /\ \A s, t \in templates : s.id = t.id => s = t
    /\ reader \in [Readers -> Reader]
    /\ {organisation, lastOrganisation} \subseteq 0 .. MaxOrganisations
    /\ \A a \in Agents : /\ agents[a] \in Writers \cup {None}
                         /\ tools[a] \subseteq ToolRow
                         /\ agents[a] = None => tools[a] = {} /\ a \notin members
                         /\ \A r, s \in tools[a] : r[1] = s[1] => r = s
    /\ types \subseteq Types /\ members \subseteq Agents
    /\ organisation = 0 => /\ ~(currency \/ workflow \/ documents)
                           /\ types = {} /\ \A a \in Agents : agents[a] = None
                           /\ \A p \in Persons : users[p] = NoUser
    /\ request \in [Requests -> Request]
    /\ grant \in [Editors \cup Requests -> Grant]
    /\ clerk \in [Persons -> Person]
    /\ users \in [Persons -> User]
    /\ \A p, q \in Persons : users[p].id # 0 /\ users[p].email = users[q].email
                                => p = q
    /\ \A k \in Approvals : approver[k] # 0 => \E p \in Persons : users[p].id = approver[k]
    /\ visit \in [Requests -> Visit]
    /\ current \cup late \subseteq Persons

Init ==
    /\ TemplatesInit
    /\ ProvisioningInit
    /\ clerk = [p \in Persons |->
           [there |-> TRUE, role |-> "org:member", email |-> FirstEmail[p]]]
    /\ users = [p \in Persons |-> NoUser]
    /\ lastUser = 0
    /\ approver = [k \in Approvals |-> 0]
    /\ visit = [r \in Requests |-> NoVisit]
    /\ current = {} /\ late = {}

-----------------------------------------------------------------------------
(* Clerk.                                                                   *)

\* A person is promoted or demoted, or changes address: what requests have
\* read is no longer fresh.
ChangeAtClerk ==
    /\ \E p \in Persons :
          /\ clerk[p].there
          /\ \/ /\ "roles" \in cast
                /\ \E role \in ClerkRoles \ {clerk[p].role} :
                      clerk' = [clerk EXCEPT ![p].role = role]
             \/ /\ "addresses" \in cast
                /\ \E email \in Emails \ {clerk[q].email : q \in Persons} :
                      clerk' = [clerk EXCEPT ![p].email = email]
          /\ visit' = [r \in Requests |->
                IF PersonOf[r] = p THEN [visit[r] EXCEPT !.fresh = FALSE] ELSE visit[r]]
          /\ current' = current \ {p}
    /\ UNCHANGED <<templateVars, provisioningVars, users, lastUser, approver, late>>

-----------------------------------------------------------------------------
(* getCurrentUser.                                                          *)

Goes(r, k) ==
    /\ visit' = [visit EXCEPT ![r] = k]
    /\ UNCHANGED <<templateVars, orgRow, ownRows, grant, ghosts>>

\* The request is over; its visit ended well if it got the row of its user.
Over(r) ==
    /\ Goes(r, NoVisit)
    /\ request' = [request EXCEPT ![r] = NoRequest]

IsRow(r) == request[r].row = organisation

\* Mutant: Clerk's role is taken over.
LocalRole_same(role) == role

\* mapClerkOrgRole.
LocalRole(role) == IF role = "org:admin" THEN "ADMIN" ELSE "MEMBER"

\* auth() comes before everything else: the role is that of the session then.
SignIn(r) ==
    /\ StartRequest(r)
    /\ clerk[PersonOf[r]].there
    /\ visit' = [visit EXCEPT ![r] = [NoVisit EXCEPT
           !.role = LocalRole(clerk[PersonOf[r]].role),
           !.fresh = \A s \in Requests \ {r} :
                        PersonOf[s] = PersonOf[r] /\ request[s].pc # "idle"
                            => visit[s].fresh]]
    /\ UNCHANGED <<templateVars, clerk, users, lastUser, approver, current, late>>

\* Once its organisation is resolved, Clerk is asked for the person.
AskClerk(r) ==
    /\ request[r].pc = "resolved"
    /\ visit[r].pc = "idle"
    /\ IF clerk[PersonOf[r]].there
       THEN /\ Goes(r, [visit[r] EXCEPT !.pc = "find",
                                         !.email = clerk[PersonOf[r]].email])
            /\ UNCHANGED request
       ELSE Over(r)
    /\ UNCHANGED <<clerk, users, lastUser, approver, current, late>>

\* Mutant: the role is not compared.
Same_noRole(user, k) == user.email = k.email

\* Is there nothing to bring up to date?
Same(user, k) == user.email = k.email /\ user.role = k.role

Ready(r, id) == [visit[r] EXCEPT !.pc = "ready", !.user = id]

\* The person's last change has been seen by a whole request.
Seen(r) == IF visit[r].fresh THEN current \cup {PersonOf[r]} ELSE current

FindUser(r) ==
    LET user == users[PersonOf[r]]
        known == IsRow(r) /\ user.id # 0
    IN  /\ visit[r].pc = "find"
        /\ Goes(r, CASE ~known -> [visit[r] EXCEPT !.pc = "create"]
                     [] known /\ Same(user, visit[r]) -> Ready(r, user.id)
                     [] OTHER -> [visit[r] EXCEPT !.pc = "update", !.user = user.id])
        /\ current' = IF known /\ Same(user, visit[r]) THEN Seen(r) ELSE current
        /\ UNCHANGED <<clerk, request, users, lastUser, approver, late>>

\* Has another person's row the address still?
IsTaken(r) ==
    \E p \in Persons \ {PersonOf[r]} : users[p].id # 0 /\ users[p].email = visit[r].email

Synced(r, id) ==
    users' = [users EXCEPT ![PersonOf[r]] =
                 [id |-> id, role |-> visit[r].role, email |-> visit[r].email]]

\* The row is updated by its id: not if it is gone, or the address is taken.
UpdateUser(r) ==
    /\ visit[r].pc = "update"
    /\ IF users[PersonOf[r]].id = visit[r].user /\ ~IsTaken(r)
       THEN /\ Synced(r, visit[r].user)
            /\ Goes(r, Ready(r, visit[r].user))
            /\ current' = Seen(r)
            /\ UNCHANGED request
       ELSE /\ Over(r)
            /\ UNCHANGED <<users, current>>
    /\ UNCHANGED <<clerk, lastUser, approver, late>>

\* Between the deletion of a person's row and that of the person.
IsLeaving(p) ==
    ~clerk[p].there \/ \E r \in Requests : PersonOf[r] = p /\ visit[r].pc = "leave"

\* A row of the person, or of the address, may be there by now: the request
\* reads the person's again.
CreateUser(r) ==
    LET p == PersonOf[r]
    IN  /\ visit[r].pc = "create"
        /\ \/ /\ IsRow(r) /\ users[p].id = 0 /\ ~IsTaken(r)
              /\ lastUser < MaxUsers
              /\ lastUser' = lastUser + 1
              /\ Synced(r, lastUser + 1)
              /\ Goes(r, Ready(r, lastUser + 1))
              /\ current' = Seen(r)
              /\ late' = IF IsLeaving(p) THEN late \cup {p} ELSE late
              /\ UNCHANGED request
           \/ /\ IsRow(r) /\ (users[p].id # 0 \/ IsTaken(r))
              /\ Goes(r, [visit[r] EXCEPT !.pc = "reread"])
              /\ UNCHANGED <<request, users, lastUser, current, late>>
           \/ /\ ~IsRow(r)
              /\ Over(r)
              /\ UNCHANGED <<users, lastUser, current, late>>
        /\ UNCHANGED <<clerk, approver>>

\* findUniqueOrThrow: the other request's row, as it is.
RereadUser(r) ==
    LET user == users[PersonOf[r]]
    IN  /\ visit[r].pc = "reread"
        /\ IF IsRow(r) /\ user.id # 0
           THEN Goes(r, Ready(r, user.id)) /\ UNCHANGED request
           ELSE Over(r)
        /\ UNCHANGED <<clerk, users, lastUser, approver, current, late>>

-----------------------------------------------------------------------------
(* What the request is for.                                                 *)

\* A page is rendered.
Leave(r) ==
    /\ visit[r].pc = "ready"
    /\ Over(r)
    /\ UNCHANGED <<clerk, users, lastUser, approver, current, late>>

\* decideApproval names the user it was made by, by its id.
Decide(r) ==
    /\ "decide" \in cast
    /\ visit[r].pc = "ready"
    /\ \E k \in Approvals :
          IF \E p \in Persons : users[p].id = visit[r].user
          THEN approver' = [approver EXCEPT ![k] = visit[r].user]
          ELSE UNCHANGED approver
    /\ Over(r)
    /\ UNCHANGED <<clerk, users, lastUser, current, late>>

\* Mutant: Clerk's identity goes first.
RemovalOrder_clerkFirst == <<"leave", "unname", "drop">>

\* deleteMyAccount: the approvals, the row, the identity.
RemovalOrder == <<"unname", "drop", "leave">>

StartRemoval(r) ==
    /\ "leave" \in cast
    /\ visit[r].pc = "ready"
    /\ Goes(r, [visit[r] EXCEPT !.pc = RemovalOrder[1]])
    /\ UNCHANGED <<clerk, request, users, lastUser, approver, current, late>>

\* The next of the three steps, or the end.
Proceeds(r) ==
    LET i == CHOOSE i \in 1 .. 3 : RemovalOrder[i] = visit[r].pc
    IN  /\ Goes(r, IF i < 3 THEN [visit[r] EXCEPT !.pc = RemovalOrder[i + 1]]
                   ELSE NoVisit)
        /\ request' = IF i < 3 THEN request ELSE [request EXCEPT ![r] = NoRequest]

UnnameApprovals(r) ==
    /\ visit[r].pc = "unname"
    /\ approver' = [k \in Approvals |->
           IF approver[k] = visit[r].user THEN 0 ELSE approver[k]]
    /\ Proceeds(r)
    /\ UNCHANGED <<clerk, users, lastUser, current, late>>

\* The row cannot go if it has decided another approval meanwhile.
DropUser(r) ==
    LET p == PersonOf[r]
    IN  /\ visit[r].pc = "drop"
        /\ IF users[p].id = visit[r].user /\ \A k \in Approvals : approver[k] # users[p].id
           THEN /\ users' = [users EXCEPT ![p] = NoUser]
                /\ Proceeds(r)
           ELSE /\ Over(r)
                /\ UNCHANGED users
        /\ UNCHANGED <<clerk, lastUser, approver, current, late>>

\* The person's identity is deleted at Clerk.
DropPerson(r) ==
    /\ visit[r].pc = "leave"
    /\ clerk' = [clerk EXCEPT ![PersonOf[r]].there = FALSE]
    /\ Proceeds(r)
    /\ UNCHANGED <<users, lastUser, approver, current, late>>

\* Any query or request may fail, or the process die.
VisitFails(r) ==
    /\ Faults
    /\ visit[r].pc \notin {"idle", "ready"}
    /\ Over(r)
    /\ UNCHANGED <<clerk, users, lastUser, approver, current, late>>

-----------------------------------------------------------------------------

VisitNext(r) ==
    \/ SignIn(r) \/ AskClerk(r) \/ FindUser(r) \/ UpdateUser(r) \/ CreateUser(r)
    \/ RereadUser(r) \/ Leave(r) \/ Decide(r) \/ StartRemoval(r)
    \/ UnnameApprovals(r) \/ DropUser(r) \/ DropPerson(r) \/ VisitFails(r)

\* The cascade takes the users and the approvals with it.
OrganisationStep ==
    /\ ProvisioningNext
    /\ \A r \in Requests : visit[r].pc = "idle" \/ request'[r] = request[r]
    /\ users' = IF organisation' = organisation THEN users ELSE [p \in Persons |-> NoUser]
    /\ approver' = IF organisation' = organisation THEN approver
                   ELSE [k \in Approvals |-> 0]
    /\ visit' = [r \in Requests |->
           IF request'[r].pc = "idle" THEN NoVisit ELSE visit[r]]
    /\ UNCHANGED <<templateVars, clerk, lastUser, current, late>>

TemplateStep ==
    /\ TemplatesNext
    /\ \A t \in templates' \ templates : t.owner = "ours" => organisation # 0
    /\ UNCHANGED <<provisioningVars, peopleVars>>

Next ==
    /\ OrganisationStep \/ TemplateStep \/ ChangeAtClerk \/ \E r \in Requests : VisitNext(r)
    /\ UNCHANGED cast

Spec == Init /\ [][Next]_vars

-----------------------------------------------------------------------------
(* Properties, with those of Templates and Provisioning.                    *)

\* A person's row is as Clerk has it once a whole request has passed since the
\* last change there ("a change made in Clerk doesn't go stale locally"), also
\* when others that had read something older end after it, unless they were
\* under way when it began.
UsersSynced ==
    \A p \in current :
        users[p].id # 0 => /\ users[p].role = LocalRole(clerk[p].role)
                           /\ users[p].email = clerk[p].email

\* A person who is gone from Clerk has no row left here, unless a request that
\* had seen the person created it anew between the two deletions.
NoOrphanUsers ==
    \A p \in Persons : clerk[p].there \/ users[p].id = 0 \/ p \in late

\* People's rows are of their types and follow Clerk.
PeopleSynced == TypeOK /\ UsersSynced

\* Neither an organisation nor a person that is gone leaves rows behind.
NothingLeft == NoOrphanRows /\ NoOrphanUsers
=============================================================================
