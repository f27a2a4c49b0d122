---------------------------- MODULE InboundProofs ----------------------------
(***************************************************************************)
(* Proofs about the messages of Inbound, for every set of e-mails, posts,  *)
(* checks, deliveries and agents: each is run once and read only when run, *)
(* no agent gets one another could have had without the classifier being   *)
(* asked, and a check that ends well has settled what it listed.           *)
(***************************************************************************)
EXTENDS AccountsProofs, FiniteSetTheorems

-----------------------------------------------------------------------------
(* A check settles the messages it takes in hand.                           *)

\* What a check has in hand.
Hand(k) == k.queue \cup ({k.mail} \ {0})

\* What it has taken in hand so far.
Taken(k) == k.processed \cup k.skipped \cup Hand(k)

\* The messages a check still has to settle are in its hand, and none comes
\* into it twice: each account is listed once.
Settling(k) ==
    /\ k.due \subseteq Taken(k)
    /\ k.processed \cap k.skipped = {} /\ k.processed \cap Hand(k) = {}
    /\ k.skipped \cap Hand(k) = {} /\ k.mail \notin k.queue
    /\ k.pc \in {"idle", "start"} => Taken(k) = {} /\ k.accounts = {}
    /\ k.pc \in {"token", "list", "ended"} => k.queue = {}
    /\ \A a \in k.accounts : \A m \in Taken(k) : BoxOf[m] # a[1]
    /\ \A a, b \in k.accounts : a[1] = b[1] => a = b
    /\ k.pc \in {"token", "list"}
          => /\ \A m \in Taken(k) : BoxOf[m] # k.account[1]
             /\ \A a \in k.accounts : a[1] # k.account[1]

ChecksSettling == \A c \in Checks : check[c].pc # "error" => Settling(check[c])

\* The same of a check between two messages.
Between(k) ==
    LET taken == k.processed \cup k.skipped \cup k.queue
    IN  /\ k.due \subseteq taken
        /\ k.processed \cap k.skipped = {} /\ k.processed \cap k.queue = {}
        /\ k.skipped \cap k.queue = {}
        /\ \A a \in k.accounts : \A m \in taken : BoxOf[m] # a[1]
        /\ \A a, b \in k.accounts : a[1] = b[1] => a = b

LEMMA OnwardSettles ==
    ASSUME NEW k \in Check, Between(k)
    PROVE  /\ Settling(Onward(k)) /\ Hand(Onward(k)) \subseteq k.queue
           /\ Onward(k).pc \in {"get", "token", "ended"}
<1>1. CASE /\ Newest(k.queue) \in k.queue
           /\ Onward(k) = [k EXCEPT !.pc = "get", !.mail = Newest(k.queue),
                                    !.queue = k.queue \ {Newest(k.queue)}]
  <2> DEFINE m == Newest(k.queue)
             j == Onward(k)
  <2>1. m \in k.queue /\ m # 0
    BY <1>1, MailsTyped DEF Check
  <2>2. j = [k EXCEPT !.pc = "get", !.mail = m, !.queue = k.queue \ {m}]
    BY <1>1
  <2> HIDE DEF m
  <2>3. /\ j.pc = "get" /\ j.mail = m /\ j.queue = k.queue \ {m}
        /\ j.processed = k.processed /\ j.skipped = k.skipped /\ j.due = k.due
        /\ j.accounts = k.accounts
    BY <2>2 DEF Check
  <2> HIDE DEF j
  <2>4. Hand(j) = k.queue /\ Taken(j) = k.processed \cup k.skipped \cup k.queue
    BY <2>1, <2>3 DEF Hand, Taken
  <2>5. Settling(j) /\ Hand(j) \subseteq k.queue /\ j.pc \in {"get", "token", "ended"}
    BY <2>3, <2>4 DEF Settling, Between
  <2> QED  BY <2>5 DEF j
<1>2. CASE /\ k.queue = {} /\ First(k.accounts) \in k.accounts
           /\ Onward(k) = [k EXCEPT !.pc = "token", !.mail = 0,
                                    !.account = First(k.accounts),
                                    !.accounts = k.accounts \ {First(k.accounts)}]
  <2> DEFINE a == First(k.accounts)
             j == Onward(k)
  <2>1. a \in k.accounts
    BY <1>2
  <2>2. j = [k EXCEPT !.pc = "token", !.mail = 0, !.account = a,
                      !.accounts = k.accounts \ {a}]
    BY <1>2
  <2> HIDE DEF a
  <2>3. /\ j.pc = "token" /\ j.mail = 0 /\ j.queue = {} /\ j.account = a
        /\ j.processed = k.processed /\ j.skipped = k.skipped /\ j.due = k.due
        /\ j.accounts = k.accounts \ {a}
    BY <1>2, <2>2 DEF Check
  <2> HIDE DEF j
  <2>4. Hand(j) = {} /\ Taken(j) = k.processed \cup k.skipped \cup k.queue
    BY <1>2, <2>3 DEF Hand, Taken
  <2>5. Settling(j) /\ Hand(j) \subseteq k.queue /\ j.pc \in {"get", "token", "ended"}
    BY <2>1, <2>3, <2>4 DEF Settling, Between
  <2> QED  BY <2>5 DEF j
<1>3. CASE /\ k.queue = {} /\ k.accounts = {}
           /\ Onward(k) = [k EXCEPT !.pc = "ended", !.mail = 0, !.account = None]
  <2> DEFINE j == Onward(k)
  <2>1. /\ j.pc = "ended" /\ j.mail = 0 /\ j.queue = {} /\ j.accounts = {}
        /\ j.processed = k.processed /\ j.skipped = k.skipped /\ j.due = k.due
    BY <1>3 DEF Check
  <2> HIDE DEF j
  <2>2. Hand(j) = {} /\ Taken(j) = k.processed \cup k.skipped \cup k.queue
    BY <1>3, <2>1 DEF Hand, Taken
  <2>3. Settling(j) /\ Hand(j) \subseteq k.queue /\ j.pc \in {"get", "token", "ended"}
    BY <2>1, <2>2 DEF Settling, Between
  <2> QED  BY <2>3 DEF j
<1> QED  BY <1>1, <1>2, <1>3, OnwardWays

LEMMA ThrownHands ==
    ASSUME NEW k \in Check
    PROVE  Hand(Thrown(k)) = {} /\ Thrown(k).pc = "error"
  BY DEF Hand, Thrown, Check

-----------------------------------------------------------------------------
(* What a step of a check does with the messages in its hand.               *)

\* It takes none it did not hold, before it has dispatched one.
KeepsHand(c, k) ==
    /\ check[c].pc # "dispatch" /\ k.pc # "dispatch"
    /\ Hand(k) \subseteq Hand(check[c])
    /\ UNCHANGED <<unread, route, excused>>

\* It lists its inbox.
TakesPage(c, k) ==
    /\ check[c].pc \in {"token", "list"} /\ k.pc # "dispatch"
    /\ Hand(k) \subseteq Page(check[c].account[1])
    /\ excused' = excused \cup (Page(check[c].account[1]) \cap InOtherHands(c))
    /\ UNCHANGED <<unread, route>>

\* It dispatches the one it got.
Dispatches(c, k) ==
    /\ check[c].pc = "get" /\ k.pc = "dispatch" /\ k.mail = check[c].mail
    /\ Hand(k) = Hand(check[c])
    /\ Routing(c, [NoRoute EXCEPT !.pc = "workflow"])
    /\ UNCHANGED <<unread, excused>>

\* It has dispatched one: marked read, if an agent ran on it, unless that fails.
LetsGo(c, k) ==
    /\ check[c].pc = "dispatch" /\ k.pc # "dispatch"
    /\ Hand(k) \subseteq check[c].queue
    /\ Routing(c, NoRoute)
    /\ \/ /\ route[c].pc = "matched"
          /\ unread' = unread \ {check[c].mail} /\ UNCHANGED excused
       \/ /\ route[c].pc = "matched"
          /\ excused' = excused \cup {check[c].mail} /\ UNCHANGED unread
       \/ /\ route[c].pc # "matched" /\ UNCHANGED <<unread, excused>>

Moves(c, k) == KeepsHand(c, k) \/ TakesPage(c, k) \/ Dispatches(c, k) \/ LetsGo(c, k)

\* Every step of a check is one of these, and settles on.
LEMMA CheckMoves ==
    ASSUME TypeInv, ChecksSettling, NEW c \in Checks, CheckNext(c)
    PROVE  \E k : /\ Go(c, k) /\ Moves(c, k)
                  /\ k.pc # "error" => Settling(k)
<1> DEFINE k == check[c]
<1>1. /\ k \in Check /\ CheckSound(k) /\ (k.pc # "error" => Settling(k))
      /\ k.mail = 0 <=> k.pc \notin {"get", "dispatch"}
  BY DEF TypeInv, ChecksSound, CheckSound, Listed, ChecksSettling
<1> HIDE DEF k
<1>2. CASE StartCheck(c)
  <2> DEFINE j == [NoCheck EXCEPT !.pc = "start"]
  <2>1. j.pc = "start" /\ Hand(j) = {} /\ Settling(j)
    BY DEF NoCheck, Hand, Taken, Settling
  <2>2. Go(c, j) /\ KeepsHand(c, j)
    BY <1>2, <2>1 DEF StartCheck, KeepsHand
  <2> QED  BY <2>1, <2>2 DEF Moves
<1>3. CASE FindAccounts(c)
  <2> DEFINE found == {<<n, integrations[n].row>> :
                          n \in UNION {DefaultOf(p) : p \in EmailProviders}}
             with == [k EXCEPT !.accounts = found]
  <2>1. k.pc = "start" /\ (Go(c, Thrown(k)) \/ Go(c, Onward(with)))
        /\ UNCHANGED <<unread, route, excused>>
    BY <1>3 DEF FindAccounts, k
  <2>2. \A n \in UNION {DefaultOf(p) : p \in EmailProviders} :
            n \in Names /\ integrations[n].row \in Numbers
    BY DEF DefaultOf, Earliest, OfProvider, TypeInv, AccountsInv, RowsSound, Row
  <2>3. found \subseteq Account /\ \A a, b \in found : a[1] = b[1] => a = b
    BY <2>2 DEF Account
  <2> HIDE DEF found
  <2>4. /\ with \in Check /\ with.accounts = found /\ with.queue = k.queue
        /\ with.processed = k.processed /\ with.skipped = k.skipped /\ with.due = k.due
    BY <1>1, <2>3 DEF Check
  <2> HIDE DEF with
  <2>5. Between(with) /\ k.queue = {}
    BY <1>1, <2>1, <2>3, <2>4 DEF Between, Settling, Taken, Hand
  <2>6. /\ Settling(Onward(with)) /\ Hand(Onward(with)) = {}
        /\ Hand(Thrown(k)) = {} /\ Thrown(k).pc = "error"
    BY <1>1, <2>4, <2>5, OnwardSettles, ThrownHands
  <2>7. Onward(with).pc \in {"get", "token", "ended"}
    BY <2>4, <2>5, OnwardSettles
  <2>8. CASE Go(c, Thrown(k))
    <3>1. KeepsHand(c, Thrown(k))
      BY <2>1, <2>6 DEF KeepsHand, k
    <3> QED  BY <2>6, <2>8, <3>1 DEF Moves
  <2>9. CASE Go(c, Onward(with))
    <3>1. KeepsHand(c, Onward(with))
      BY <2>1, <2>6, <2>7 DEF KeepsHand, k
    <3> QED  BY <2>6, <2>9, <3>1 DEF Moves
  <2> QED  BY <2>1, <2>8, <2>9
<1>4. ASSUME Go(c, Thrown(k)), k.pc # "dispatch", UNCHANGED <<unread, route, excused>>
      PROVE  Go(c, Thrown(k)) /\ Moves(c, Thrown(k)) /\ Thrown(k).pc = "error"
  BY <1>1, <1>4, ThrownHands DEF Moves, KeepsHand, k
<1>5. CASE WithoutToken(c)
  BY <1>4, <1>5 DEF WithoutToken, k
<1>6. CASE FindFolder(c)
  <2> DEFINE j == [k EXCEPT !.pc = "list"]
  <2>1. k.pc = "token" /\ (Go(c, j) \/ Go(c, Thrown(k))) /\ UNCHANGED <<unread, route, excused>>
    BY <1>6 DEF FindFolder, k
  <2>2. /\ j.pc = "list" /\ Hand(j) = Hand(k) /\ Taken(j) = Taken(k) /\ j.due = k.due
        /\ j.processed = k.processed /\ j.skipped = k.skipped /\ j.mail = k.mail
        /\ j.queue = k.queue /\ j.accounts = k.accounts /\ j.account = k.account
    BY <1>1 DEF Check, Hand, Taken
  <2> HIDE DEF j
  <2>3. Settling(j)
    BY <1>1, <2>1, <2>2 DEF Settling
  <2>4. CASE Go(c, j)
    <3>1. KeepsHand(c, j)
      BY <2>1, <2>2 DEF KeepsHand, k
    <3> QED  BY <2>3, <2>4, <3>1 DEF Moves
  <2>5. CASE Go(c, Thrown(k))
    BY <1>4, <2>1, <2>5
  <2> QED  BY <2>1, <2>4, <2>5
<1>7. CASE ListUnread(c)
  <2> DEFINE page == Page(k.account[1])
             box == Inbox(k.account[1])
             due == k.due \cup (IF page = box THEN box ELSE {})
             with == [k EXCEPT !.queue = page, !.due = due]
  <2>1. /\ k.pc \in {"token", "list"} /\ UNCHANGED <<unread, route>>
        /\ \/ /\ Go(c, Onward(with))
              /\ excused' = excused \cup (page \cap InOtherHands(c))
           \/ Go(c, Thrown(k)) /\ UNCHANGED excused
    BY <1>7 DEF ListUnread, k
  <2>2. /\ page \subseteq Mails /\ due \subseteq Mails /\ due \subseteq k.due \cup page
        /\ \A m \in page : BoxOf[m] = k.account[1]
    BY <1>1 DEF Page, Inbox, TypeInv, InboundTyped, Check
  <2>3. k.account[1] = check[c].account[1]
    BY DEF k
  <2> HIDE DEF page, due
  <2>4. /\ with \in Check /\ with.accounts = k.accounts /\ with.queue = page
        /\ with.processed = k.processed /\ with.skipped = k.skipped /\ with.due = due
    BY <1>1, <2>2 DEF Check
  <2>5. CASE /\ Go(c, Onward(with))
             /\ excused' = excused \cup (page \cap InOtherHands(c))
    <3> HIDE DEF with
    <3>1. Between(with)
      <4>1. k.queue = {} /\ k.mail = 0 /\ Settling(k)
        BY <1>1, <2>1 DEF Settling
      <4>2. Taken(k) = k.processed \cup k.skipped
        BY <4>1 DEF Taken, Hand
      <4>3. \A m \in page : m \notin Taken(k)
        BY <2>1, <2>2, <4>1 DEF Settling
      <4> QED  BY <2>1, <2>2, <2>4, <4>1, <4>2, <4>3 DEF Between, Settling
    <3>2. Settling(Onward(with)) /\ Hand(Onward(with)) \subseteq page
      BY <2>4, <3>1, OnwardSettles
    <3>3. Onward(with).pc \in {"get", "token", "ended"}
      BY <2>4, <3>1, OnwardSettles
    <3>4. TakesPage(c, Onward(with))
      BY <2>1, <2>3, <2>5, <3>2, <3>3 DEF TakesPage, k, page
    <3> QED  BY <2>5, <3>2, <3>4 DEF Moves
  <2>6. CASE Go(c, Thrown(k)) /\ UNCHANGED excused
    BY <1>4, <2>1, <2>6
  <2> QED  BY <2>1, <2>5, <2>6
<1>8. CASE GetMessage(c)
  <2> DEFINE j == [k EXCEPT !.pc = "dispatch"]
  <2>1. /\ k.pc = "get" /\ UNCHANGED <<unread, excused>>
        /\ \/ Go(c, j) /\ Routing(c, [NoRoute EXCEPT !.pc = "workflow"])
           \/ Go(c, Thrown(k)) /\ UNCHANGED route
    BY <1>8 DEF GetMessage, k
  <2>2. /\ j.pc = "dispatch" /\ Hand(j) = Hand(k) /\ Taken(j) = Taken(k) /\ j.due = k.due
        /\ j.processed = k.processed /\ j.skipped = k.skipped /\ j.mail = k.mail
        /\ j.queue = k.queue /\ j.accounts = k.accounts
    BY <1>1 DEF Check, Hand, Taken
  <2> HIDE DEF j
  <2>3. Settling(j)
    BY <1>1, <2>1, <2>2 DEF Settling
  <2>4. CASE Go(c, j) /\ Routing(c, [NoRoute EXCEPT !.pc = "workflow"])
    <3>1. Dispatches(c, j)
      BY <2>1, <2>2, <2>4 DEF Dispatches, k
    <3> QED  BY <2>3, <2>4, <3>1 DEF Moves
  <2>5. CASE Go(c, Thrown(k)) /\ UNCHANGED route
    BY <1>4, <2>1, <2>5
  <2> QED  BY <2>1, <2>4, <2>5
<1>9. CASE MarkRead(c)
  <2> DEFINE done == k.processed \cup {k.mail}
             with == [k EXCEPT !.processed = done]
  <2>1. /\ k.pc = "dispatch" /\ route[c].pc = "matched" /\ Routing(c, NoRoute)
        /\ \/ Go(c, Onward(with)) /\ unread' = unread \ {k.mail} /\ UNCHANGED excused
           \/ Go(c, Thrown(k)) /\ excused' = excused \cup {k.mail} /\ UNCHANGED unread
    BY <1>9 DEF MarkRead, Marked, ToMark, k
  <2>2. k.mail \in Mails /\ k.mail # 0 /\ done \subseteq Mails
    BY <1>1, <2>1 DEF Check
  <2> HIDE DEF done
  <2>3. /\ with \in Check /\ with.accounts = k.accounts /\ with.queue = k.queue
        /\ with.processed = done /\ with.skipped = k.skipped /\ with.due = k.due
    BY <1>1, <2>2 DEF Check
  <2> HIDE DEF with
  <2>4. Between(with)
    BY <1>1, <2>1, <2>2, <2>3 DEF Between, Settling, Taken, Hand, done
  <2>5. /\ Settling(Onward(with)) /\ Hand(Onward(with)) \subseteq k.queue
        /\ Hand(Thrown(k)) = {} /\ Thrown(k).pc = "error"
        /\ Onward(with).pc \in {"get", "token", "ended"}
    BY <1>1, <2>3, <2>4, OnwardSettles, ThrownHands
  <2>6. CASE Go(c, Onward(with)) /\ unread' = unread \ {k.mail} /\ UNCHANGED excused
    <3>1. LetsGo(c, Onward(with))
      BY <2>1, <2>5, <2>6 DEF LetsGo, k
    <3> QED  BY <2>5, <2>6, <3>1 DEF Moves
  <2>7. CASE Go(c, Thrown(k)) /\ excused' = excused \cup {k.mail} /\ UNCHANGED unread
    <3>1. LetsGo(c, Thrown(k))
      BY <2>1, <2>5, <2>7 DEF LetsGo, k
    <3> QED  BY <2>5, <2>7, <3>1 DEF Moves
  <2> QED  BY <2>1, <2>6, <2>7
<1>10. CASE Skip(c)
  <2> DEFINE passed == k.skipped \cup {k.mail}
             with == [k EXCEPT !.skipped = passed]
  <2>1. /\ k.pc = "dispatch" /\ route[c].pc = "no_match" /\ Routing(c, NoRoute)
        /\ Go(c, Onward(with)) /\ UNCHANGED <<unread, excused>>
    BY <1>10 DEF Skip, k
  <2>2. k.mail \in Mails /\ k.mail # 0 /\ passed \subseteq Mails
    BY <1>1, <2>1 DEF Check
  <2> HIDE DEF passed
  <2>3. /\ with \in Check /\ with.accounts = k.accounts /\ with.queue = k.queue
        /\ with.processed = k.processed /\ with.skipped = passed /\ with.due = k.due
    BY <1>1, <2>2 DEF Check
  <2> HIDE DEF with
  <2>4. Between(with)
    BY <1>1, <2>1, <2>2, <2>3 DEF Between, Settling, Taken, Hand, passed
  <2>5. /\ Settling(Onward(with)) /\ Hand(Onward(with)) \subseteq k.queue
        /\ Onward(with).pc \in {"get", "token", "ended"}
    BY <2>3, <2>4, OnwardSettles
  <2>6. LetsGo(c, Onward(with))
    BY <2>1, <2>5 DEF LetsGo, k
  <2> QED  BY <2>1, <2>5, <2>6 DEF Moves
<1>11. CASE Stop(c)
  <2>1. /\ k.pc = "dispatch" /\ route[c].pc \in {"no_workflow", "threw"}
        /\ Routing(c, NoRoute) /\ Go(c, Thrown(k)) /\ UNCHANGED <<unread, excused>>
    BY <1>11 DEF Stop, NoWorkflow, k
  <2>2. LetsGo(c, Thrown(k)) /\ Thrown(k).pc = "error"
    BY <1>1, <2>1, ThrownHands DEF LetsGo, k
  <2> QED  BY <2>1, <2>2 DEF Moves
<1> QED  BY <1>2, <1>3, <1>5, <1>6, <1>7, <1>8, <1>9, <1>10, <1>11 DEF CheckNext

-----------------------------------------------------------------------------
(* Each message is run once, and what was run is known.                     *)

\* A route only names an agent without asking when no other could have the
\* message, and only says that one ran when one did.
RouteSound(r, m, runs) ==
    /\ r.agent # None /\ ~r.asked
          => r.handlers = {r.agent} \/ r.handlers \cap Mentions[m] = {r.agent}
    /\ r.pc = "classify" => r.asked
    /\ r.pc = "matched" => runs > 0

\* A handler only has a route while it dispatches.
RoutesSound ==
    /\ \A c \in Checks : check[c].pc # "dispatch" => route[c] = NoRoute
    /\ \A d \in Deliveries : delivery[d].pc # "dispatch" => route[d] = NoRoute
    /\ \A h \in Handlers : RouteSound(route[h], MessageOf(h), ran[MessageOf(h)])

\* An e-mail nothing excuses is in one hand, and was run at most once: then it
\* is read and in none, or the check that has it is about to mark it.
MailOnce(m) ==
    /\ \A c, d \in Checks : m \in Hand(check[c]) /\ m \in Hand(check[d]) => c = d
    /\ ran[m] \in {0, 1}
    /\ ran[m] = 1
          => \/ m \notin unread /\ \A c \in Checks : m \notin Hand(check[c])
             \/ \E c \in Checks : /\ check[c].mail = m /\ check[c].pc = "dispatch"
                                  /\ route[c].pc = "matched"

\* An attempt under way, or whose answer forbids another.
Live(k) == k.pc = "dispatch" \/ k.answer \in {"matched", "unmatched"}

DeliverySound(d) ==
    /\ delivery[d].pc = "idle" => delivery[d] = NoDelivery
    /\ delivery[d].pc = "dispatch" => delivery[d].answer = "none"
    /\ delivery[d].pc # "idle" => \A e \in After[d] : delivery[e].pc # "idle"

\* A post nothing excuses has one such attempt, and was run at most once: by it.
PostOnce(m) ==
    /\ \A d, e \in {f \in Deliveries : PostOf[f] = m} :
          Live(delivery[d]) /\ Live(delivery[e]) => d = e
    /\ ran[m] \in {0, 1}
    /\ ran[m] = 1
          => \E d \in Deliveries :
                /\ PostOf[d] = m
                /\ \/ delivery[d].pc = "dispatch" /\ route[d].pc = "matched"
                   \/ delivery[d].answer = "matched"

MailsOnce == \A m \in Mails : m \notin excused => MailOnce(m)
PostsOnce == /\ \A d \in Deliveries : DeliverySound(d)
             /\ \A m \in Posts : m \notin excused => PostOnce(m)

RunsTyped == ran \in [Messages -> Nat]

OnceInv ==
    /\ TypeInv /\ ChecksSettling /\ RunsTyped /\ RoutesSound /\ ReadMeansRun
    /\ MailsOnce /\ PostsOnce

LEMMA OnceStart == Init => OnceInv
<1> SUFFICES ASSUME Init  PROVE OnceInv
  OBVIOUS
<1>1. /\ unread = Mails /\ check = [c \in Checks |-> NoCheck]
      /\ delivery = [d \in Deliveries |-> NoDelivery]
      /\ route = [h \in Handlers |-> NoRoute]
      /\ ran = [m \in Messages |-> 0] /\ excused = {}
  BY DEF Init
<1>2. TypeInv
  BY TypesStart
<1>3. ChecksSettling
  BY <1>1 DEF ChecksSettling, Settling, Taken, Hand, NoCheck
<1>4. RunsTyped /\ ReadMeansRun
  BY <1>1 DEF RunsTyped, ReadMeansRun
<1>5. RoutesSound
  BY <1>1, UsersTyped DEF RoutesSound, RouteSound, NoRoute
<1>6. MailsOnce
  <2>1. \A c \in Checks : Hand(check[c]) = {}
    BY <1>1 DEF Hand, NoCheck
  <2>2. \A m \in Mails : ran[m] = 0
    BY <1>1 DEF Messages
  <2> QED  BY <2>1, <2>2 DEF MailsOnce, MailOnce
<1>7. PostsOnce
  <2>1. \A d \in Deliveries : delivery[d] = NoDelivery
    BY <1>1
  <2>2. \A d \in Deliveries : ~Live(delivery[d]) /\ DeliverySound(d)
    BY <2>1 DEF Live, DeliverySound, NoDelivery
  <2>3. \A m \in Posts : ran[m] = 0
    BY <1>1 DEF Messages
  <2>4. ASSUME NEW m \in Posts  PROVE PostOnce(m)
    <3>1. ran[m] \in {0, 1} /\ ran[m] # 1
      BY <2>3
    <3> QED  BY <2>2, <3>1 DEF PostOnce
  <2> QED  BY <2>2, <2>4 DEF PostsOnce
<1> QED  BY <1>2, <1>3, <1>4, <1>5, <1>6, <1>7 DEF OnceInv

\* The steps that touch no message.
LEMMA OnceUntouched ==
    ASSUME OnceInv, TypeInv', UNCHANGED <<unread, check, delivery, route, ran, excused>>
    PROVE  OnceInv'
  BY DEF OnceInv, ChecksSettling, RunsTyped, RoutesSound, MessageOf, ReadMeansRun,
     MailsOnce, MailOnce, PostsOnce, PostOnce, DeliverySound

\* The messages of handlers at work.
LEMMA MessagesTyped ==
    ASSUME TypeInv
    PROVE  /\ \A c \in Checks : /\ MessageOf(c) = check[c].mail
                                /\ check[c].pc \in {"get", "dispatch"}
                                      => /\ MessageOf(c) \in Mails /\ MessageOf(c) # 0
                                         /\ MessageOf(c) \in Hand(check[c])
           /\ \A d \in Deliveries : /\ MessageOf(d) = PostOf[d]
                                    /\ PostOf[d] \in Posts
           /\ Mails \cap Posts = {} /\ Mails \subseteq Messages /\ Posts \subseteq Messages
           /\ \A c \in Checks : Hand(check[c]) \subseteq Mails
<1>1. \A c \in Checks : /\ MessageOf(c) = check[c].mail
                        /\ check[c].pc \in {"get", "dispatch"}
                              => /\ MessageOf(c) \in Mails /\ MessageOf(c) # 0
                                 /\ MessageOf(c) \in Hand(check[c])
  BY DEF TypeInv, ChecksSound, CheckSound, Listed, Check, MessageOf, Hand
<1>2. \A d \in Deliveries : MessageOf(d) = PostOf[d] /\ PostOf[d] \in Posts
  BY InboundAssumption, UsersTyped DEF MessageOf
<1>3. \A c \in Checks : Hand(check[c]) \subseteq Mails
  BY DEF TypeInv, ChecksSound, CheckSound, Listed, Check, Hand
<1> QED  BY <1>1, <1>2, <1>3, InboundAssumption DEF Messages

\* Routing a message runs an agent on it, is thrown out of, or does neither.
Routes(h, r) ==
    LET m == MessageOf(h)
    IN  /\ Routing(h, r)
        /\ \/ /\ r.pc # "matched" /\ UNCHANGED <<ran, excused>>
           \/ /\ r.pc = "matched" /\ ran' = [ran EXCEPT ![m] = @ + 1] /\ UNCHANGED excused
           \/ /\ r.pc # "matched" /\ ran' = [ran EXCEPT ![m] = @ + 1]
              /\ excused' = excused \cup {m}

LEMMA RoutesOn ==
    ASSUME OnceInv, NEW h \in Handlers, Dispatch(h)
    PROVE  /\ route[h] # NoRoute /\ route[h].pc # "matched"
           /\ \E r : /\ Routes(h, r)
                     /\ RouteSound(r, MessageOf(h), 1)
<1> DEFINE m == MessageOf(h)
<1>1. /\ route[h] \in Route /\ RouteSound(route[h], m, ran[m])
      /\ route \in [Handlers -> Route]
  BY DEF OnceInv, TypeInv, InboundTyped, RoutesSound
<1>2. CASE FindWorkflow(h)
  <2> DEFINE r == [NoRoute EXCEPT
                      !.pc = IF serving = {} THEN "no_workflow" ELSE "provider",
                      !.handlers = serving]
  <2>1. /\ route[h].pc = "workflow" /\ Routing(h, r) /\ UNCHANGED <<ran, excused>>
    BY <1>2 DEF FindWorkflow
  <2>2. r.pc \in {"no_workflow", "provider"} /\ r.agent = None
    BY DEF NoRoute
  <2>3. RouteSound(r, m, 1)
    BY <2>2 DEF RouteSound
  <2>4. Routes(h, r)
    BY <2>1, <2>2 DEF Routes
  <2> QED  BY <2>1, <2>3, <2>4 DEF NoRoute
<1>3. ASSUME route[h].pc \in {"provider", "classify", "run"},
             Routing(h, [NoRoute EXCEPT !.pc = "threw"]),
             \/ UNCHANGED <<ran, excused>>
             \/ ran' = [ran EXCEPT ![m] = @ + 1] /\ excused' = excused \cup {m}
      PROVE  \E r : Routes(h, r) /\ RouteSound(r, m, 1)
  <2> DEFINE r == [NoRoute EXCEPT !.pc = "threw"]
  <2>1. r.pc = "threw" /\ r.agent = None
    BY DEF NoRoute
  <2>2. Routes(h, r) /\ RouteSound(r, m, 1)
    BY <1>3, <2>1 DEF Routes, RouteSound
  <2> QED  BY <2>2
<1>4. CASE GetProvider(h)
  <2> DEFINE r == [route[h] EXCEPT !.pc = "choose"]
  <2>1. /\ route[h].pc = "provider" /\ UNCHANGED <<ran, excused>>
        /\ Routing(h, r) \/ Routing(h, [NoRoute EXCEPT !.pc = "threw"])
    BY <1>4 DEF GetProvider
  <2>2. /\ r.pc = "choose" /\ r.agent = route[h].agent /\ r.asked = route[h].asked
        /\ r.handlers = route[h].handlers
    BY <1>1 DEF Route
  <2>3. RouteSound(r, m, 1)
    BY <1>1, <2>2 DEF RouteSound
  <2>4. Routing(h, r) => Routes(h, r)
    BY <2>1, <2>2 DEF Routes
  <2> QED  BY <1>3, <2>1, <2>3, <2>4 DEF NoRoute
<1>5. CASE Choose(h)
  <2> DEFINE certain == IF Cardinality(route[h].handlers) = 1 THEN route[h].handlers
                        ELSE KeywordMatch(h)
  <2>1. /\ route[h].pc = "choose" /\ UNCHANGED <<ran, excused>>
        /\ \/ \E a \in certain : Routing(h, [route[h] EXCEPT !.pc = "run", !.agent = a])
           \/ Routing(h, [route[h] EXCEPT !.pc = "classify", !.asked = TRUE])
    BY <1>5 DEF Choose
  <2>2. \A a \in certain : route[h].handlers = {a} \/ route[h].handlers \cap Mentions[m] = {a}
    <3>1. /\ IsFiniteSet(route[h].handlers)
          /\ IsFiniteSet(route[h].handlers \cap Mentions[m])
      BY <1>1, InboundAssumption, FS_Subset DEF Route
    <3>2. CASE Cardinality(route[h].handlers) = 1
      BY <3>1, <3>2, FS_Singleton
    <3>3. CASE Cardinality(route[h].handlers) # 1
      <4>1. \/ certain = {}
            \/ /\ Cardinality(route[h].handlers \cap Mentions[m]) = 1
               /\ certain = route[h].handlers \cap Mentions[m]
        BY <3>3 DEF KeywordMatch
      <4> QED  BY <3>1, <4>1, FS_Singleton
    <3> QED  BY <3>2, <3>3
  <2> HIDE DEF certain
  <2>3. ASSUME NEW a \in certain, Routing(h, [route[h] EXCEPT !.pc = "run", !.agent = a])
        PROVE  \E r : Routes(h, r) /\ RouteSound(r, m, 1)
    <3> DEFINE r == [route[h] EXCEPT !.pc = "run", !.agent = a]
    <3>1. r.pc = "run" /\ r.agent = a /\ r.handlers = route[h].handlers
      BY <1>1 DEF Route
    <3>2. RouteSound(r, m, 1) /\ Routes(h, r)
      BY <2>1, <2>2, <2>3, <3>1 DEF RouteSound, Routes
    <3> QED  BY <3>2
  <2>4. ASSUME Routing(h, [route[h] EXCEPT !.pc = "classify", !.asked = TRUE])
        PROVE  \E r : Routes(h, r) /\ RouteSound(r, m, 1)
    <3> DEFINE r == [route[h] EXCEPT !.pc = "classify", !.asked = TRUE]
    <3>1. r.pc = "classify" /\ r.asked
      BY <1>1 DEF Route
    <3>2. RouteSound(r, m, 1) /\ Routes(h, r)
      BY <2>1, <2>4, <3>1 DEF RouteSound, Routes
    <3> QED  BY <3>2
  <2>5. route[h].pc = "choose"
    BY <2>1
  <2>6. \E r : Routes(h, r) /\ RouteSound(r, m, 1)
    BY <2>1, <2>3, <2>4
  <2> QED  BY <2>5, <2>6 DEF NoRoute
<1>6. CASE Classify(h)
  <2>1. /\ route[h].pc = "classify" /\ UNCHANGED <<ran, excused>> /\ route[h].asked
        /\ \/ \E a \in route[h].handlers :
                 Routing(h, [route[h] EXCEPT !.pc = "run", !.agent = a])
           \/ Routing(h, [route[h] EXCEPT !.pc = "no_match"])
           \/ Routing(h, [NoRoute EXCEPT !.pc = "threw"])
    BY <1>1, <1>6 DEF Classify, RouteSound
  <2>2. ASSUME NEW a \in route[h].handlers,
               Routing(h, [route[h] EXCEPT !.pc = "run", !.agent = a])
        PROVE  \E r : Routes(h, r) /\ RouteSound(r, m, 1)
    <3> DEFINE r == [route[h] EXCEPT !.pc = "run", !.agent = a]
    <3>1. r.pc = "run" /\ r.asked
      BY <1>1, <2>1 DEF Route
    <3>2. RouteSound(r, m, 1) /\ Routes(h, r)
      BY <2>1, <2>2, <3>1 DEF RouteSound, Routes
    <3> QED  BY <3>2
  <2>3. ASSUME Routing(h, [route[h] EXCEPT !.pc = "no_match"])
        PROVE  \E r : Routes(h, r) /\ RouteSound(r, m, 1)
    <3> DEFINE r == [route[h] EXCEPT !.pc = "no_match"]
    <3>1. r.pc = "no_match" /\ r.asked
      BY <1>1, <2>1 DEF Route
    <3>2. RouteSound(r, m, 1) /\ Routes(h, r)
      BY <2>1, <2>3, <3>1 DEF RouteSound, Routes
    <3> QED  BY <3>2
  <2>4. route[h].pc = "classify"
    BY <2>1
  <2>5. \E r : Routes(h, r) /\ RouteSound(r, m, 1)
    BY <1>3, <2>1, <2>2, <2>3
  <2> QED  BY <2>4, <2>5 DEF NoRoute
<1>7. CASE Run(h)
  <2> DEFINE r == [route[h] EXCEPT !.pc = "matched"]
  <2>1. /\ route[h].pc = "run"
        /\ \/ /\ ran' = [ran EXCEPT ![m] = @ + 1] /\ Routing(h, r) /\ UNCHANGED excused
           \/ /\ Routing(h, [NoRoute EXCEPT !.pc = "threw"])
              /\ \/ UNCHANGED <<ran, excused>>
                 \/ ran' = [ran EXCEPT ![m] = @ + 1] /\ excused' = excused \cup {m}
    BY <1>7 DEF Run
  <2>2. /\ r.pc = "matched" /\ r.agent = route[h].agent /\ r.asked = route[h].asked
        /\ r.handlers = route[h].handlers
    BY <1>1 DEF Route
  <2>3. RouteSound(r, m, 1)
    BY <1>1, <2>2 DEF RouteSound
  <2>4. Routing(h, r) /\ ran' = [ran EXCEPT ![m] = @ + 1] /\ UNCHANGED excused => Routes(h, r)
    BY <2>2 DEF Routes
  <2> QED  BY <1>3, <2>1, <2>3, <2>4 DEF NoRoute
<1> QED  BY <1>2, <1>4, <1>5, <1>6, <1>7 DEF Dispatch

\* Routing keeps each message's one run.
LEMMA DispatchOnce ==
    ASSUME OnceInv, TypeInv', NEW h \in Handlers, Dispatch(h)
    PROVE  OnceInv'
<1>1. /\ UNCHANGED <<unread, check, delivery>>
      /\ route[h] # NoRoute /\ route[h].pc # "matched"
  BY RoutesOn DEF Dispatch
<1> DEFINE m == MessageOf(h)
<1>2. PICK r : Routes(h, r) /\ RouteSound(r, m, 1)
  BY RoutesOn
<1>3. /\ RunsTyped /\ RoutesSound /\ MailsOnce /\ PostsOnce /\ ReadMeansRun /\ TypeInv
      /\ h \in Checks => check[h].pc = "dispatch"
      /\ h \notin Checks => h \in Deliveries /\ delivery[h].pc = "dispatch"
  BY <1>1, UsersTyped DEF OnceInv, RoutesSound
<1>4. /\ m \in Messages
      /\ h \in Checks => m \in Mails /\ m \notin Posts /\ m = check[h].mail /\ m \in Hand(check[h])
      /\ h \notin Checks => m \in Posts /\ m \notin Mails /\ m = PostOf[h]
  BY <1>3, MessagesTyped
<1>5. \A g \in Handlers : MessageOf(g)' = MessageOf(g)
  BY <1>1 DEF MessageOf
<1> HIDE DEF m
<1>6. /\ route' = [route EXCEPT ![h] = r]
      /\ \A g \in Handlers : route'[g] = IF g = h THEN r ELSE route[g]
  BY <1>2, <1>3 DEF Routes, Routing, TypeInv, InboundTyped
<1>7. /\ excused \subseteq excused'
      /\ \/ ran' = ran
         \/ /\ ran' = [ran EXCEPT ![m] = @ + 1]
            /\ m \in excused' \/ (r.pc = "matched" /\ excused' = excused)
      /\ r.pc = "matched" => ran' = [ran EXCEPT ![m] = @ + 1]
  BY <1>2 DEF Routes, m
<1>8. /\ RunsTyped'
      /\ \A n \in Messages : ran[n] \in Nat /\ ran'[n] \in Nat /\ ran'[n] >= ran[n]
      /\ \A n \in Messages : n # m => ran'[n] = ran[n]
      /\ r.pc = "matched" => ran'[m] = ran[m] + 1
  <2>1. \A n \in Messages : ran[n] \in Nat
    BY <1>3 DEF RunsTyped
  <2>2. CASE ran' = ran
    <3>1. r.pc # "matched"
      <4> SUFFICES ASSUME r.pc = "matched"  PROVE FALSE
        OBVIOUS
      <4>1. ran'[m] = ran[m] + 1
        BY <1>3, <1>4, <1>7 DEF RunsTyped
      <4> QED  BY <1>4, <2>1, <2>2, <4>1
    <3> QED  BY <1>3, <2>1, <2>2, <3>1 DEF RunsTyped
  <2>3. CASE ran' = [ran EXCEPT ![m] = @ + 1]
    <3>1. \A n \in Messages : ran'[n] = IF n = m THEN ran[m] + 1 ELSE ran[n]
      BY <1>3, <2>3 DEF RunsTyped
    <3>2. RunsTyped'
      BY <1>3, <1>4, <2>1, <2>3 DEF RunsTyped
    <3> QED  BY <1>4, <2>1, <3>1, <3>2
  <2> QED  BY <1>7, <2>2, <2>3
<1>9. RoutesSound'
  <2>1. ASSUME NEW g \in Handlers
        PROVE  RouteSound(route'[g], MessageOf(g), ran'[MessageOf(g)])
    <3>1. CASE g = h
      <4>1. r.pc = "matched" => ran'[m] > 0
        BY <1>4, <1>8
      <4> QED  BY <1>2, <1>6, <3>1, <4>1 DEF RouteSound, m
    <3>2. CASE g # h
      <4>1. RouteSound(route[g], MessageOf(g), ran[MessageOf(g)])
        BY <1>3 DEF RoutesSound
      <4>2. route[g].pc = "matched" => MessageOf(g) \in Messages
        <5> SUFFICES ASSUME route[g].pc = "matched"  PROVE MessageOf(g) \in Messages
          OBVIOUS
        <5>1. route[g] # NoRoute
          BY DEF NoRoute
        <5> QED  BY <1>3, <5>1, MessagesTyped, UsersTyped DEF RoutesSound
      <4>3. route[g].pc = "matched" => ran'[MessageOf(g)] > 0
        BY <1>8, <4>1, <4>2 DEF RouteSound
      <4> QED  BY <1>6, <3>2, <4>1, <4>3 DEF RouteSound
    <3> QED  BY <3>1, <3>2
  <2>2. /\ \A c \in Checks : check[c].pc # "dispatch" => route'[c] = NoRoute
        /\ \A d \in Deliveries : delivery[d].pc # "dispatch" => route'[d] = NoRoute
    BY <1>3, <1>6, UsersTyped DEF RoutesSound
  <2> QED  BY <1>1, <1>5, <2>1, <2>2 DEF RoutesSound
<1>10. ReadMeansRun'
  <2>1. \A n \in Mails \ unread : ran'[n] > 0
    BY <1>3, <1>8, MessagesTyped DEF ReadMeansRun
  <2> QED  BY <1>1, <2>1 DEF ReadMeansRun
<1>11. MailsOnce'
  <2>1. ASSUME NEW n \in Mails, n \notin excused'  PROVE MailOnce(n)'
    <3>1. MailOnce(n) /\ n \in Messages
      BY <1>3, <1>7, <2>1, MessagesTyped DEF MailsOnce
    <3>2. CASE ran' = ran
      <4>1. ASSUME NEW c \in Checks, route[c].pc = "matched"  PROVE route'[c].pc = "matched"
        BY <1>1, <1>6, <4>1, UsersTyped
      <4> QED  BY <1>1, <3>1, <3>2, <4>1 DEF MailOnce
    <3>3. CASE n # m
      <4>1. ASSUME NEW c \in Checks, route[c].pc = "matched"  PROVE route'[c].pc = "matched"
        BY <1>1, <1>6, <4>1, UsersTyped
      <4>2. ran'[n] = ran[n]
        BY <1>8, <3>1, <3>3
      <4> QED  BY <1>1, <3>1, <4>1, <4>2 DEF MailOnce
    <3>4. CASE n = m /\ ran' # ran
      <4>1. h \in Checks /\ r.pc = "matched" /\ check[h].mail = n /\ n \in Hand(check[h])
        BY <1>3, <1>4, <1>7, <2>1, <3>4
      <4>2. ran[n] = 0
        <5>1. \A c \in Checks : n \in Hand(check[c]) => c = h
          BY <3>1, <4>1 DEF MailOnce
        <5>2. \A c \in Checks : check[c].mail = n => c = h
          BY <3>4, <5>1, <2>1, MailsTyped DEF Hand
        <5>3. ran[n] # 1
          BY <1>1, <3>1, <4>1, <5>2 DEF MailOnce
        <5> QED  BY <3>1, <5>3 DEF MailOnce
      <4>3. ran'[n] = 1
        BY <1>8, <3>4, <4>1, <4>2
      <4>4. route'[h].pc = "matched" /\ check[h].pc = "dispatch"
        BY <1>3, <1>6, <4>1
      <4> QED  BY <1>1, <3>1, <4>1, <4>3, <4>4 DEF MailOnce
    <3> QED  BY <3>2, <3>3, <3>4
  <2> QED  BY <2>1 DEF MailsOnce
<1>12. PostsOnce'
  <2>1. \A d \in Deliveries : DeliverySound(d)'
    BY <1>1, <1>3 DEF PostsOnce, DeliverySound
  <2>2. ASSUME NEW n \in Posts, n \notin excused'  PROVE PostOnce(n)'
    <3>1. PostOnce(n) /\ n \in Messages
      BY <1>3, <1>7, <2>2, MessagesTyped DEF PostsOnce
    <3>2. CASE ran' = ran
      <4>1. ASSUME NEW d \in Deliveries, route[d].pc = "matched"  PROVE route'[d].pc = "matched"
        BY <1>1, <1>6, <4>1, UsersTyped
      <4> QED  BY <1>1, <3>1, <3>2, <4>1 DEF PostOnce
    <3>3. CASE n # m
      <4>1. ASSUME NEW d \in Deliveries, route[d].pc = "matched"  PROVE route'[d].pc = "matched"
        BY <1>1, <1>6, <4>1, UsersTyped
      <4>2. ran'[n] = ran[n]
        BY <1>8, <3>1, <3>3
      <4> QED  BY <1>1, <3>1, <4>1, <4>2 DEF PostOnce
    <3>4. CASE n = m /\ ran' # ran
      <4>1. /\ h \in Deliveries /\ r.pc = "matched" /\ PostOf[h] = n
            /\ delivery[h].pc = "dispatch"
        BY <1>3, <1>4, <1>7, <2>2, <3>4
      <4>2. ran[n] = 0
        <5>1. Live(delivery[h]) /\ delivery[h].answer = "none"
          BY <1>3, <4>1 DEF Live, PostsOnce, DeliverySound
        <5>2. \A d \in Deliveries : PostOf[d] = n /\ Live(delivery[d]) => d = h
          BY <3>1, <4>1, <5>1 DEF PostOnce
        <5>3. ran[n] # 1
          BY <1>1, <3>1, <5>1, <5>2 DEF PostOnce, Live
        <5> QED  BY <3>1, <5>3 DEF PostOnce
      <4>3. ran'[n] = 1
        BY <1>8, <3>4, <4>1, <4>2
      <4>4. route'[h].pc = "matched"
        BY <1>3, <1>6, <4>1, UsersTyped
      <4> QED  BY <1>1, <3>1, <4>1, <4>3, <4>4 DEF PostOnce
    <3> QED  BY <3>2, <3>3, <3>4
  <2> QED  BY <2>1, <2>2 DEF PostsOnce
<1>13. ChecksSettling'
  BY <1>1 DEF OnceInv, ChecksSettling
<1> QED  BY <1>8, <1>9, <1>10, <1>11, <1>12, <1>13 DEF OnceInv

\* So does every step of a check.
LEMMA CheckOnce ==
    ASSUME OnceInv, TypeInv', NEW c \in Checks, CheckNext(c)
    PROVE  OnceInv'
<1>1. /\ TypeInv /\ ChecksSettling /\ RunsTyped /\ RoutesSound /\ MailsOnce /\ PostsOnce
      /\ ReadMeansRun
  BY DEF OnceInv
<1>2. PICK k : Go(c, k) /\ Moves(c, k) /\ (k.pc # "error" => Settling(k))
  BY <1>1, CheckMoves
<1>3. UNCHANGED <<delivery, ran>> /\ c \in Handlers /\ c \notin Deliveries
  BY <1>2, UsersTyped DEF Go
<1>4. \A d \in Checks : check'[d] = IF d = c THEN k ELSE check[d]
  BY <1>1, <1>2 DEF Go, TypeInv, ChecksSound
<1>5. /\ excused \subseteq excused' /\ unread' \subseteq unread
      /\ \A h \in Handlers : h # c => route'[h] = route[h]
  BY <1>1, <1>2, <1>3
  DEF Moves, KeepsHand, TakesPage, Dispatches, LetsGo, Routing, TypeInv, InboundTyped
<1>6. /\ check[c].pc # "dispatch" => route[c] = NoRoute
      /\ k.pc # "dispatch" => route'[c] = NoRoute
      /\ route'[c].agent = None /\ route'[c].pc \notin {"classify", "matched"}
  <2>1. check[c].pc # "dispatch" => route[c] = NoRoute
    BY <1>1 DEF RoutesSound
  <2>2. \A r : Routing(c, r) => route'[c] = r
    BY <1>1, <1>3 DEF Routing, TypeInv, InboundTyped
  <2>3. CASE KeepsHand(c, k) \/ TakesPage(c, k)
    BY <2>1, <2>3 DEF KeepsHand, TakesPage, NoRoute
  <2>4. CASE Dispatches(c, k)
    <3>1. route'[c] = [NoRoute EXCEPT !.pc = "workflow"]
      BY <2>2, <2>4 DEF Dispatches
    <3> QED  BY <2>1, <2>4, <3>1 DEF NoRoute, Dispatches
  <2>5. CASE LetsGo(c, k)
    <3>1. route'[c] = NoRoute
      BY <2>2, <2>5 DEF LetsGo
    <3> QED  BY <2>1, <3>1 DEF NoRoute
  <2> QED  BY <1>2, <2>3, <2>4, <2>5 DEF Moves
<1>7. ChecksSettling' /\ RunsTyped'
  BY <1>1, <1>2, <1>3, <1>4 DEF ChecksSettling, RunsTyped
<1>8. RoutesSound'
  <2>1. ASSUME NEW h \in Handlers
        PROVE  RouteSound(route'[h], MessageOf(h)', ran'[MessageOf(h)'])
    <3>1. CASE h = c
      BY <1>6, <3>1 DEF RouteSound
    <3>2. CASE h # c
      <4>1. MessageOf(h)' = MessageOf(h)
        BY <1>4, <3>2 DEF MessageOf
      <4> QED  BY <1>1, <1>3, <1>5, <3>2, <4>1 DEF RoutesSound
    <3> QED  BY <3>1, <3>2
  <2>2. /\ \A d \in Checks : check'[d].pc # "dispatch" => route'[d] = NoRoute
        /\ \A d \in Deliveries : delivery'[d].pc # "dispatch" => route'[d] = NoRoute
    BY <1>1, <1>3, <1>4, <1>5, <1>6, UsersTyped DEF RoutesSound
  <2> QED  BY <2>1, <2>2 DEF RoutesSound
<1>9. ReadMeansRun'
  <2>1. ASSUME NEW n \in Mails \ unread'  PROVE ran[n] > 0
    <3>1. CASE n \notin unread
      BY <1>1, <3>1 DEF ReadMeansRun
    <3>2. CASE n \in unread
      <4>1. n = check[c].mail /\ route[c].pc = "matched"
        BY <1>2, <2>1, <3>2 DEF Moves, KeepsHand, TakesPage, Dispatches, LetsGo
      <4> QED  BY <1>1, <1>3, <4>1, MessagesTyped DEF RoutesSound, RouteSound
    <3> QED  BY <3>1, <3>2
  <2> QED  BY <1>3, <2>1 DEF ReadMeansRun
<1>10. PostsOnce'
  <2>1. \A d \in Deliveries : DeliverySound(d)'
    BY <1>1, <1>3 DEF PostsOnce, DeliverySound
  <2>2. ASSUME NEW n \in Posts, n \notin excused'  PROVE PostOnce(n)'
    <3>1. PostOnce(n)
      BY <1>1, <1>5, <2>2 DEF PostsOnce
    <3>2. \A d \in Deliveries : route'[d] = route[d]
      BY <1>3, <1>5, UsersTyped
    <3> QED  BY <1>3, <3>1, <3>2 DEF PostOnce
  <2> QED  BY <2>1, <2>2 DEF PostsOnce
<1>11. ASSUME NEW n \in Mails, n \notin excused'  PROVE MailOnce(n)'
  <2>1. MailOnce(n) /\ n # 0 /\ n \notin excused
    BY <1>1, <1>5, <1>11, MailsTyped DEF MailsOnce
  <2>2. \A d \in Checks : d # c => check'[d] = check[d] /\ route'[d] = route[d]
    BY <1>4, <1>5, UsersTyped
  <2>3. \A d \in Checks : check[d].mail = n => n \in Hand(check[d])
    BY <2>1 DEF Hand
  <2>4. check'[c] = k
    BY <1>4
  <2>5. CASE KeepsHand(c, k)
    <3>1. \A d \in Checks : n \in Hand(check'[d]) => n \in Hand(check[d])
      BY <2>2, <2>4, <2>5 DEF KeepsHand
    <3>2. \A d \in Checks : check[d].pc = "dispatch" => d # c
      BY <2>5 DEF KeepsHand
    <3>3. UNCHANGED unread
      BY <2>5 DEF KeepsHand
    <3> QED  BY <1>3, <2>1, <2>2, <3>1, <3>2, <3>3 DEF MailOnce
  <2>6. CASE TakesPage(c, k)
    <3>1. /\ check[c].pc # "dispatch" /\ UNCHANGED unread
          /\ n \in Hand(k)
                => n \in unread /\ \A d \in Checks : d # c => n \notin Hand(check[d])
      <4>1. Hand(k) \subseteq Page(check[c].account[1]) /\ UNCHANGED unread
        BY <2>6 DEF TakesPage
      <4>2. n \in Hand(k) => n \in unread /\ n \notin InOtherHands(c)
        BY <1>11, <2>6, <4>1 DEF TakesPage, Page, Inbox
      <4>3. \A d \in Checks : d # c /\ n \in Hand(check[d]) => n \in InOtherHands(c)
        BY DEF InOtherHands, Hand
      <4> QED  BY <2>6, <4>1, <4>2, <4>3 DEF TakesPage
    <3>2. CASE n \in Hand(k)
      <4>1. \A d \in Checks : n \in Hand(check'[d]) => d = c
        BY <2>2, <3>1, <3>2
      <4>2. ran[n] # 1
        BY <2>1, <2>3, <3>1, <3>2 DEF MailOnce
      <4> QED  BY <1>3, <2>1, <4>1, <4>2 DEF MailOnce
    <3>3. CASE n \notin Hand(k)
      <4>1. \A d \in Checks : n \in Hand(check'[d]) => n \in Hand(check[d])
        BY <2>2, <2>4, <3>3
      <4> QED  BY <1>3, <2>1, <2>2, <3>1, <4>1 DEF MailOnce
    <3> QED  BY <3>2, <3>3
  <2>7. CASE Dispatches(c, k)
    <3>1. \A d \in Checks : n \in Hand(check'[d]) <=> n \in Hand(check[d])
      BY <2>2, <2>4, <2>7 DEF Dispatches
    <3>2. \A d \in Checks : check[d].pc = "dispatch" => d # c
      BY <2>7 DEF Dispatches
    <3>3. UNCHANGED unread
      BY <2>7 DEF Dispatches
    <3> QED  BY <1>3, <2>1, <2>2, <3>1, <3>2, <3>3 DEF MailOnce
  <2>8. CASE LetsGo(c, k)
    <3>1. Hand(k) \subseteq check[c].queue /\ check[c].pc = "dispatch"
      BY <2>8 DEF LetsGo
    <3>2. \A d \in Checks : n \in Hand(check'[d]) => n \in Hand(check[d])
      BY <2>2, <2>4, <3>1 DEF Hand
    <3>3. CASE check[c].mail = n /\ route[c].pc = "matched"
      <4>1. n \notin unread'
        BY <1>11, <2>8, <3>3 DEF LetsGo
      <4>2. n \notin Hand(k)
        BY <1>1, <3>1, <3>3 DEF ChecksSettling, Settling
      <4>3. \A d \in Checks : n \notin Hand(check'[d])
        BY <2>1, <2>2, <2>3, <2>4, <3>3, <4>2 DEF MailOnce
      <4> QED  BY <1>3, <2>1, <4>1, <4>3 DEF MailOnce
    <3>4. CASE ~(check[c].mail = n /\ route[c].pc = "matched")
      <4>1. n \notin unread => n \notin unread'
        BY <1>5
      <4>2. \A d \in Checks : check[d].mail = n /\ route[d].pc = "matched" => d # c
        BY <3>4
      <4> QED  BY <1>3, <2>1, <2>2, <3>2, <4>1, <4>2 DEF MailOnce
    <3> QED  BY <3>3, <3>4
  <2> QED  BY <1>2, <2>5, <2>6, <2>7, <2>8 DEF Moves
<1>12. MailsOnce'
  BY <1>11 DEF MailsOnce
<1> QED  BY <1>7, <1>8, <1>9, <1>10, <1>12 DEF OnceInv

\* So does every step of a delivery: an attempt that starts finds none before
\* it that may have been handled, and none after it.
LEMMA DeliveryOnce ==
    ASSUME OnceInv, TypeInv', NEW d \in Deliveries, Deliver(d) \/ Answer(d) \/ GiveUp(d)
    PROVE  OnceInv'
<1>1. /\ TypeInv /\ ChecksSettling /\ RunsTyped /\ RoutesSound /\ MailsOnce /\ PostsOnce
      /\ ReadMeansRun
  BY DEF OnceInv
<1>2. UNCHANGED <<unread, check, ran>> /\ d \in Handlers /\ d \notin Checks
  BY UsersTyped DEF Deliver, Answer, GiveUp, DeliveryStep
<1>3. /\ excused \subseteq excused' /\ \A m \in Mails : m \in excused' => m \in excused
      /\ \A h \in Handlers : h # d => route'[h] = route[h]
  <2>1. PostOf[d] \notin Mails
    BY <1>1, MessagesTyped
  <2>2. excused' \in {excused, excused \cup {PostOf[d]}}
    BY DEF Deliver, Answer, GiveUp
  <2>3. UNCHANGED route \/ \E r : Routing(d, r)
    BY DEF Deliver, Answer, GiveUp
  <2> QED  BY <1>1, <2>1, <2>2, <2>3 DEF Routing, TypeInv, InboundTyped
<1>4. \A r : Routing(d, r) => route'[d] = r
  BY <1>1, <1>2 DEF Routing, TypeInv, InboundTyped
<1>5. \A k : DeliveryStep(d, k)
               => \A e \in Deliveries : delivery'[e] = IF e = d THEN k ELSE delivery[e]
  BY <1>1 DEF DeliveryStep, TypeInv, InboundTyped
<1>6. /\ delivery'[d].pc # "dispatch" => route'[d] = NoRoute
      /\ RouteSound(route'[d], MessageOf(d), ran[MessageOf(d)])
  <2>1. /\ delivery[d].pc # "dispatch" => route[d] = NoRoute
        /\ RouteSound(route[d], MessageOf(d), ran[MessageOf(d)])
    BY <1>1, <1>2 DEF RoutesSound
  <2>2. RouteSound(NoRoute, MessageOf(d), ran[MessageOf(d)])
    BY DEF RouteSound, NoRoute
  <2>3. CASE Deliver(d)
    <3>1. CASE /\ DeliveryStep(d, [NoDelivery EXCEPT !.pc = "dispatch"])
               /\ Routing(d, [NoRoute EXCEPT !.pc = "workflow"])
      <4> DEFINE r == [NoRoute EXCEPT !.pc = "workflow"]
      <4>1. route'[d] = r /\ r.agent = None /\ r.pc = "workflow"
        BY <1>4, <3>1 DEF NoRoute
      <4>2. delivery'[d].pc = "dispatch"
        BY <1>5, <3>1 DEF NoDelivery
      <4> QED  BY <4>1, <4>2 DEF RouteSound
    <3>2. CASE delivery[d].pc = "idle" /\ UNCHANGED route
      BY <2>1, <3>2
    <3> QED  BY <2>3, <3>1, <3>2 DEF Deliver
  <2>4. CASE Answer(d)
    <3>1. route'[d] = NoRoute
      BY <1>4, <2>4 DEF Answer
    <3> QED  BY <2>2, <3>1
  <2>5. CASE GiveUp(d)
    <3> DEFINE k == [delivery[d] EXCEPT !.lost = TRUE]
    <3>1. k.pc = delivery[d].pc
      BY <1>1 DEF TypeInv, InboundTyped, Delivery
    <3>2. delivery'[d] = k /\ UNCHANGED route
      BY <1>5, <2>5 DEF GiveUp
    <3> QED  BY <2>1, <3>1, <3>2
  <2> QED  BY <2>3, <2>4, <2>5
<1>7. ChecksSettling' /\ RunsTyped' /\ ReadMeansRun'
  BY <1>1, <1>2 DEF ChecksSettling, RunsTyped, ReadMeansRun
<1>8. \A e \in Deliveries : e # d => delivery'[e] = delivery[e]
  BY <1>5 DEF Deliver, Answer, GiveUp
<1>9. RoutesSound'
  <2>1. \A h \in Handlers : MessageOf(h)' = MessageOf(h)
    BY <1>2 DEF MessageOf
  <2>2. \A h \in Handlers : RouteSound(route'[h], MessageOf(h), ran[MessageOf(h)])
    BY <1>1, <1>3, <1>6 DEF RoutesSound
  <2>3. /\ \A c \in Checks : check[c].pc # "dispatch" => route'[c] = NoRoute
        /\ \A e \in Deliveries : delivery'[e].pc # "dispatch" => route'[e] = NoRoute
    BY <1>1, <1>2, <1>3, <1>6, <1>8, UsersTyped DEF RoutesSound
  <2> QED  BY <1>2, <2>1, <2>2, <2>3 DEF RoutesSound
<1>10. MailsOnce'
  <2>1. ASSUME NEW n \in Mails, n \notin excused'  PROVE MailOnce(n)'
    <3>1. MailOnce(n)
      BY <1>1, <1>3, <2>1 DEF MailsOnce
    <3>2. \A c \in Checks : route'[c] = route[c]
      BY <1>2, <1>3, UsersTyped
    <3> QED  BY <1>2, <3>1, <3>2 DEF MailOnce
  <2> QED  BY <2>1 DEF MailsOnce
<1>11. PostsOnce'
  <2>1. \A e \in Deliveries : DeliverySound(e) /\ delivery[e] \in Delivery
    BY <1>1 DEF PostsOnce, TypeInv, InboundTyped
  <2>2. CASE Deliver(d)
    <3>1. delivery[d].pc = "idle" /\ delivery[d] = NoDelivery /\ MayTry(d)
      BY <2>1, <2>2 DEF Deliver, DeliverySound
    <3>2. \A e \in After[d] : delivery[e].pc # "idle" /\ e \in Deliveries /\ e # d
      <4>1. \A e \in After[d] : e \in Deliveries
        BY InboundAssumption
      <4> QED  BY <2>1, <3>1, <4>1 DEF MayTry, DeliverySound, NoDelivery
    <3>3. \A e \in Deliveries : d \in After[e] => delivery[e].pc = "idle"
      BY <2>1, <3>1 DEF DeliverySound
    <3>4. /\ delivery'[d].pc # "idle"
          /\ delivery'[d].pc = "dispatch" => delivery'[d].answer = "none"
          /\ delivery'[d].answer # "matched"
          /\ \/ /\ delivery'[d].pc = "dispatch"
                /\ PostOf[d] \notin excused' => \A e \in After[d] : ~delivery[e].lost
             \/ ~Live(delivery'[d])
      <4>1. CASE /\ DeliveryStep(d, [NoDelivery EXCEPT !.pc = "dispatch"])
                 /\ excused' = IF \E e \in After[d] : delivery[e].lost
                               THEN excused \cup {PostOf[d]} ELSE excused
        <5> DEFINE k == [NoDelivery EXCEPT !.pc = "dispatch"]
        <5>1. delivery'[d] = k /\ k.pc = "dispatch" /\ k.answer = "none"
          BY <1>5, <4>1 DEF NoDelivery
        <5> QED  BY <4>1, <5>1
      <4>2. CASE DeliveryStep(d, [NoDelivery EXCEPT !.pc = "answered", !.answer = "refused"])
        <5> DEFINE k == [NoDelivery EXCEPT !.pc = "answered", !.answer = "refused"]
        <5>1. delivery'[d] = k /\ k.pc = "answered" /\ k.answer = "refused"
          BY <1>5, <4>2 DEF NoDelivery
        <5> QED  BY <5>1 DEF Live
      <4> QED  BY <2>2, <4>1, <4>2 DEF Deliver
    <3>5. ASSUME NEW e \in Deliveries  PROVE DeliverySound(e)'
      <4>1. \A f \in After[e] : f \in Deliveries
        BY InboundAssumption
      <4>2. CASE e = d
        BY <1>8, <3>2, <3>4, <4>2 DEF DeliverySound
      <4>3. CASE e # d
        BY <1>8, <2>1, <3>4, <4>1, <4>3 DEF DeliverySound
      <4> QED  BY <4>2, <4>3
    <3>6. ASSUME NEW n \in Posts, n \notin excused'  PROVE PostOnce(n)'
      <4>1. PostOnce(n)
        BY <1>1, <1>3, <3>6 DEF PostsOnce
      <4>2. CASE PostOf[d] = n /\ Live(delivery'[d])
        <5>1. \A e \in After[d] : ~delivery[e].lost
          BY <3>4, <3>6, <4>2
        <5>2. \A e \in After[d] : ~Live(delivery[e])
          BY <2>1, <3>1, <3>2, <5>1 DEF MayTry, Live, DeliverySound
        <5>3. \A e \in Deliveries : PostOf[e] = n /\ e # d => ~Live(delivery[e])
          <6>1. \A e \in Deliveries : PostOf[e] = n /\ e # d => e \in After[d] \/ d \in After[e]
            BY <4>2, InboundAssumption
          <6>2. \A e \in Deliveries : delivery[e].pc = "idle" => ~Live(delivery[e])
            BY <2>1 DEF DeliverySound, NoDelivery, Live
          <6> QED  BY <3>3, <5>2, <6>1, <6>2
        <5>4. \A e \in Deliveries : PostOf[e] = n => ~Live(delivery[e])
          BY <3>1, <5>3 DEF Live, NoDelivery
        <5>5. ran[n] # 1
          BY <4>1, <5>4 DEF PostOnce, Live
        <5>6. \A e \in Deliveries : PostOf[e] = n /\ Live(delivery'[e]) => e = d
          BY <1>8, <5>3
        <5> QED  BY <1>2, <4>1, <5>5, <5>6 DEF PostOnce
      <4>3. CASE ~(PostOf[d] = n /\ Live(delivery'[d]))
        <5>1. \A e \in Deliveries : PostOf[e] = n /\ Live(delivery'[e]) => Live(delivery[e])
          BY <1>8, <4>3
        <5>2. \A e \in Deliveries : delivery[e].pc = "dispatch" \/ delivery[e].answer = "matched"
                                       => e # d
          BY <3>1 DEF NoDelivery
        <5>3. \A e \in Deliveries : e # d => route'[e] = route[e]
          BY <1>3, UsersTyped
        <5> QED  BY <1>2, <1>8, <4>1, <5>1, <5>2, <5>3 DEF PostOnce
      <4> QED  BY <4>2, <4>3
    <3> QED  BY <3>5, <3>6 DEF PostsOnce
  <2>3. ASSUME delivery'[d].pc # "idle", delivery'[d].pc = "dispatch" => delivery'[d].answer = "none",
               delivery[d].pc # "idle",
               Live(delivery'[d]) => Live(delivery[d]),
               /\ delivery[d].pc = "dispatch" /\ route[d].pc = "matched"
                  => \/ delivery'[d].pc = "dispatch" /\ route'[d].pc = "matched"
                     \/ delivery'[d].answer = "matched",
               delivery[d].answer = "matched" => delivery'[d].answer = "matched"
        PROVE  PostsOnce'
    <3>1. ASSUME NEW e \in Deliveries  PROVE DeliverySound(e)'
      <4>1. \A f \in After[e] : f \in Deliveries
        BY InboundAssumption
      <4>2. CASE e = d
        BY <1>8, <2>1, <2>3, <4>1, <4>2 DEF DeliverySound
      <4>3. CASE e # d
        BY <1>8, <2>1, <2>3, <4>1, <4>3 DEF DeliverySound
      <4> QED  BY <4>2, <4>3
    <3>2. ASSUME NEW n \in Posts, n \notin excused'  PROVE PostOnce(n)'
      <4>1. PostOnce(n)
        BY <1>1, <1>3, <3>2 DEF PostsOnce
      <4>2. \A e \in Deliveries : Live(delivery'[e]) => Live(delivery[e])
        BY <1>8, <2>3
      <4>3. \A e \in Deliveries : e # d => route'[e] = route[e]
        BY <1>3, UsersTyped
      <4> QED  BY <1>2, <1>8, <2>3, <4>1, <4>2, <4>3 DEF PostOnce
    <3> QED  BY <3>1, <3>2 DEF PostsOnce
  <2>4. CASE Answer(d)
    <3> DEFINE answer == AnswerTo(route[d].pc)
               k == [delivery[d] EXCEPT !.pc = "answered", !.answer = answer]
    <3>1. delivery[d].pc = "dispatch" /\ delivery'[d] = k
      BY <1>5, <2>4 DEF Answer
    <3>2. k.pc = "answered" /\ k.answer = answer
      BY <2>1 DEF Delivery
    <3>3. route[d].pc = "matched" => answer = "matched"
      BY DEF AnswerTo
    <3>4. delivery[d].answer = "none"
      BY <2>1, <3>1 DEF DeliverySound
    <3> QED  BY <2>3, <3>1, <3>2, <3>3, <3>4 DEF Live
  <2>5. CASE GiveUp(d)
    <3> DEFINE k == [delivery[d] EXCEPT !.lost = TRUE]
    <3>1. k.pc = delivery[d].pc /\ k.answer = delivery[d].answer
      BY <2>1 DEF Delivery
    <3>2. delivery'[d] = k /\ delivery[d].pc # "idle" /\ UNCHANGED route
      BY <1>5, <2>5 DEF GiveUp
    <3>3. DeliverySound(d)
      BY <2>1
    <3> QED  BY <2>3, <3>1, <3>2, <3>3 DEF Live, DeliverySound
  <2> QED  BY <2>2, <2>4, <2>5
<1> QED  BY <1>7, <1>9, <1>10, <1>11 DEF OnceInv

LEMMA OnceStays == OnceInv /\ [Next]_vars => OnceInv'
<1> SUFFICES ASSUME OnceInv, [Next]_vars  PROVE OnceInv'
  OBVIOUS
<1>1. TypeInv'
  BY TypesStay DEF OnceInv
<1>2. CASE UNCHANGED vars
  BY <1>1, <1>2, OnceUntouched DEF vars, inboundVars
<1>3. CASE AccountStep
  BY <1>1, <1>3, OnceUntouched DEF AccountStep, inboundVars
<1>4. CASE \E h \in Handlers : Dispatch(h)
  BY <1>1, <1>4, DispatchOnce
<1>5. CASE Reconfigure
  BY <1>1, <1>5, OnceUntouched DEF Reconfigure
<1>6. CASE \E c \in Checks : CheckNext(c)
  BY <1>1, <1>6, CheckOnce
<1>7. CASE \E d \in Deliveries : Deliver(d) \/ Answer(d) \/ GiveUp(d)
  BY <1>1, <1>7, DeliveryOnce
<1>8. CASE ToolsNext /\ UNCHANGED inboundVars
  BY <1>1, <1>8, OnceUntouched DEF inboundVars
<1> QED  BY <1>2, <1>3, <1>4, <1>5, <1>6, <1>7, <1>8 DEF Next

LEMMA OnceAlways == Spec => []OnceInv
  BY OnceStart, OnceStays, PTL DEF Spec

\* However checks, deliveries and their repetitions interleave, a message is
\* run once, marked read only when it was, and given to an agent without asking
\* the classifier only when no other could have it.
THEOREM AlwaysHandled == Spec => []Handled
<1>1. OnceInv => Handled
  <2> SUFFICES ASSUME OnceInv  PROVE Handled
    OBVIOUS
  <2>1. RunOnce
    <3> SUFFICES ASSUME NEW m \in Messages, m \notin excused  PROVE ~(ran[m] > 1)
      BY DEF RunOnce
    <3>1. ran[m] \in {0, 1}
      BY DEF OnceInv, MailsOnce, MailOnce, PostsOnce, PostOnce, Messages
    <3> QED  BY <3>1
  <2>2. UnambiguousOrAsked
    BY DEF OnceInv, RoutesSound, RouteSound, UnambiguousOrAsked
  <2> QED  BY <2>1, <2>2 DEF Handled, OnceInv
<1> QED  BY <1>1, OnceAlways, PTL

\* A check that ends well has settled every e-mail it had to: those of each
\* account it listed, whatever happened between them.
THEOREM EndedAlwaysSettled == Spec => []EndedMeansSettled
<1>1. OnceInv => EndedMeansSettled
  <2> SUFFICES ASSUME OnceInv, NEW c \in Checks, check[c].pc = "ended"
               PROVE  /\ check[c].due \subseteq check[c].processed \cup check[c].skipped
                      /\ check[c].processed \cap check[c].skipped = {}
    BY DEF EndedMeansSettled
  <2>1. Settling(check[c]) /\ check[c].mail = 0
    BY DEF OnceInv, ChecksSettling, TypeInv, ChecksSound, CheckSound
  <2>2. Taken(check[c]) = check[c].processed \cup check[c].skipped
    BY <2>1 DEF Settling, Taken, Hand
  <2> QED  BY <2>1, <2>2 DEF Settling
<1> QED  BY <1>1, OnceAlways, PTL
=============================================================================
