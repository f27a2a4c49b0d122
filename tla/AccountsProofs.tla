---------------------------- MODULE AccountsProofs ----------------------------
(***************************************************************************)
(* Proofs about the accounts of Inbound and the tools that act through     *)
(* them, for every set of accounts, tabs, checks, runs and attachments:    *)
(* they are typed, stored credentials are the newest, and tools act        *)
(* through the account they are pinned to or through the default.          *)
(***************************************************************************)
EXTENDS Inbound, WellFoundedInduction, TLAPS

-----------------------------------------------------------------------------
(* Rows, round trips, creations and handlers are sound.                     *)

RowsSound ==
    /\ integrations \in [Names -> Row]
    /\ lastRow \in Numbers
    /\ issued \in [Names -> 0 .. MaxIssued]
    /\ \A m, n \in Names : integrations[m].row = integrations[n].row
                              => m = n \/ integrations[m].row = 0
    /\ \A n \in Names : /\ integrations[n].row <= lastRow
                        /\ integrations[n].credential <= issued[n]
                        /\ IsConnected(n) => integrations[n].credential # 0

\* A round trip knows its provider, and once it has a credential, whose it is.
TabSound(k, given) ==
    /\ k \in Tab
    /\ k.pc \in {"consent", "exchange"} => k.provider \in OAuthProviders
    /\ k.pc \in {"profile", "upsert"} =>
          /\ k.name \in Names /\ ProviderOf[k.name] \in OAuthProviders
          /\ k.credential \in 1 .. given[k.name]

CreatorSound(k, last) ==
    /\ k \in Creator
    /\ k.pc \in {"create", "shown"} => k.name \in Names /\ ProviderOf[k.name] = "webhook"
    /\ k.pc = "shown" => k.row \in 1 .. last

\* A handler that asks for a token names a row that was there, and stores a
\* credential that its provider did issue: the one it leaves there.
HandlerSound(k, given) ==
    /\ k \in User
    /\ k.pc \in {"find", "refresh", "store", "ready"} => k.name \in Names
    /\ k.pc \in {"find", "refresh", "store"} => k.row # 0
    /\ k.pc = "refresh" => k.stored \in 1 .. given[k.name]
    /\ k.pc = "store" =>
          /\ k.got \in 1 .. given[k.name] /\ k.left = k.got
          /\ ProviderOf[k.name] \in GoogleProviders \cup MicrosoftProviders

TabsSound == tab \in [Tabs -> Tab] /\ \A t \in Tabs : TabSound(tab[t], issued)

CreatorsSound ==
    creator \in [Creators -> Creator] /\ \A c \in Creators : CreatorSound(creator[c], lastRow)

HandlersSound == user \in [Users -> User] /\ \A u \in Users : HandlerSound(user[u], issued)

AccountsInv ==
    /\ RowsSound
    /\ TabsSound
    /\ CreatorsSound
    /\ HandlersSound
    /\ cookie \in [OAuthProviders -> Tabs \cup {None}]
    /\ removing \subseteq Numbers
    /\ crossed \subseteq Names

\* Credentials are only ever issued, never taken back.
IssuedGrows ==
    /\ issued' \in [Names -> 0 .. MaxIssued]
    /\ \A n \in Names : issued[n] <= issued'[n]

\* Rows are created with new numbers and keep them until they go.
RowsEvolve ==
    /\ lastRow <= lastRow'
    /\ \A n \in Names : \/ integrations'[n].row \in {0, integrations[n].row}
                        \/ integrations[n].row = 0 /\ integrations'[n].row > lastRow

LEMMA BoundsTyped ==
    /\ MaxRows \in Nat /\ MaxIssued \in Nat \ {0}
    /\ Numbers = 0 .. MaxRows /\ 0 \in Numbers
    /\ None \notin Names /\ None \notin Tabs
  BY AccountsAssumption DEF Numbers

LEMMA NothingTyped ==
    /\ NoRow \in Row
    /\ NoTab \in Tab /\ NoTab.pc = "idle"
    /\ NoCreator \in Creator /\ NoCreator.pc = "idle"
    /\ NoUser \in User /\ NoUser.pc = "idle"
    /\ Failed \in User /\ Failed.pc = "failed"
  BY BoundsTyped
  DEF NoRow, Row, NoTab, Tab, NoCreator, Creator, NoUser, User, Failed

LEMMA NothingSound ==
    ASSUME NEW given, NEW last
    PROVE  /\ TabSound(NoTab, given)
           /\ CreatorSound(NoCreator, last)
           /\ HandlerSound(NoUser, given)
           /\ HandlerSound(Failed, given)
  BY NothingTyped DEF TabSound, CreatorSound, HandlerSound

LEMMA AccountsStart == AccountsInit => AccountsInv
<1> SUFFICES ASSUME AccountsInit  PROVE AccountsInv
  OBVIOUS
<1> DEFINE connected == {n \in Names : Rows[n] # 0}
<1>1. RowsSound
  <2>1. /\ Rows \in [Names -> Numbers]
        /\ \A m, n \in Names : Rows[m] = Rows[n] /\ m # n => Rows[m] = 0
        /\ Cardinality(connected) \in Numbers
        /\ \A n \in Names : Rows[n] <= Cardinality(connected)
    BY AccountsAssumption
  <2>2. lastRow = Cardinality(connected)
    BY DEF AccountsInit
  <2> HIDE DEF connected
  <2>3. ASSUME NEW n \in Names
        PROVE  /\ integrations[n] \in Row
               /\ integrations[n].row = Rows[n]
               /\ integrations[n].credential = IF Rows[n] = 0 THEN 0 ELSE 1
               /\ issued[n] = IF Rows[n] = 0 THEN 0 ELSE 1
    BY <2>1, BoundsTyped DEF AccountsInit, NoRow, Row
  <2>4. /\ integrations \in [Names -> Row]
        /\ issued \in [Names -> 0 .. MaxIssued]
    BY <2>1, <2>3, BoundsTyped DEF AccountsInit
  <2> QED  BY <2>1, <2>2, <2>3, <2>4 DEF RowsSound, IsConnected
<1>2. TabsSound /\ CreatorsSound /\ HandlersSound
  BY NothingTyped, NothingSound DEF AccountsInit, TabsSound, CreatorsSound, HandlersSound
<1> QED  BY <1>1, <1>2 DEF AccountsInv, AccountsInit

\* What is sound stays so while more is issued and created.
LEMMA StillSound ==
    ASSUME RowsSound, IssuedGrows
    PROVE  /\ \A k : TabSound(k, issued) => TabSound(k, issued')
           /\ \A k : HandlerSound(k, issued) => HandlerSound(k, issued')
<1>1. \A n \in Names : /\ issued[n] \in Nat /\ issued'[n] \in Nat
                       /\ issued[n] <= issued'[n]
  BY BoundsTyped DEF RowsSound, IssuedGrows
<1>2. \A k : TabSound(k, issued) => TabSound(k, issued')
  BY <1>1 DEF TabSound
<1>3. \A k : HandlerSound(k, issued) => HandlerSound(k, issued')
  BY <1>1 DEF HandlerSound
<1> QED  BY <1>2, <1>3

LEMMA TabMoved ==
    ASSUME RowsSound, IssuedGrows, TabsSound, NEW t \in Tabs, NEW k,
           tab' = [tab EXCEPT ![t] = k], TabSound(k, issued')
    PROVE  TabsSound'
<1>1. \A s \in Tabs : TabSound(tab[s], issued')
  BY StillSound DEF TabsSound
<1>2. tab' \in [Tabs -> Tab]
  BY DEF TabsSound, TabSound
<1>3. \A s \in Tabs : tab'[s] = IF s = t THEN k ELSE tab[s]
  BY DEF TabsSound
<1>4. \A s \in Tabs : TabSound(tab'[s], issued')
  BY <1>1, <1>3
<1> QED  BY <1>2, <1>4 DEF TabsSound

LEMMA TabsUnmoved ==
    ASSUME RowsSound, IssuedGrows, TabsSound, tab' = tab
    PROVE  TabsSound'
  BY StillSound DEF TabsSound

LEMMA HandlerMoved ==
    ASSUME RowsSound, IssuedGrows, HandlersSound, NEW u \in Users, NEW k,
           user' = [user EXCEPT ![u] = k], HandlerSound(k, issued')
    PROVE  HandlersSound'
<1>1. \A v \in Users : HandlerSound(user[v], issued')
  BY StillSound DEF HandlersSound
<1>2. user' \in [Users -> User]
  BY DEF HandlersSound, HandlerSound
<1>3. \A v \in Users : user'[v] = IF v = u THEN k ELSE user[v]
  BY DEF HandlersSound
<1>4. \A v \in Users : HandlerSound(user'[v], issued')
  BY <1>1, <1>3
<1> QED  BY <1>2, <1>4 DEF HandlersSound

LEMMA HandlersUnmoved ==
    ASSUME RowsSound, IssuedGrows, HandlersSound, user' = user
    PROVE  HandlersSound'
  BY StillSound DEF HandlersSound

LEMMA CreatorMoved ==
    ASSUME RowsSound, lastRow' \in Numbers, lastRow <= lastRow',
           CreatorsSound, NEW c \in Creators, NEW k,
           creator' = [creator EXCEPT ![c] = k], CreatorSound(k, lastRow')
    PROVE  CreatorsSound'
<1>1. \A d \in Creators : CreatorSound(creator[d], lastRow')
  BY BoundsTyped DEF CreatorsSound, CreatorSound, RowsSound
<1>2. creator' \in [Creators -> Creator]
  BY DEF CreatorsSound, CreatorSound
<1>3. \A d \in Creators : creator'[d] = IF d = c THEN k ELSE creator[d]
  BY DEF CreatorsSound
<1>4. \A d \in Creators : CreatorSound(creator'[d], lastRow')
  BY <1>1, <1>3
<1> QED  BY <1>2, <1>4 DEF CreatorsSound

LEMMA CreatorsUnmoved ==
    ASSUME RowsSound, lastRow' \in Numbers, lastRow <= lastRow', CreatorsSound,
           creator' = creator
    PROVE  CreatorsSound'
  BY BoundsTyped DEF CreatorsSound, CreatorSound, RowsSound

\* What no step changes but of one kind.
LEMMA NothingGrows ==
    ASSUME RowsSound, UNCHANGED <<integrations, lastRow, issued>>
    PROVE  /\ RowsSound' /\ IssuedGrows /\ RowsEvolve
           /\ lastRow' \in Numbers /\ lastRow <= lastRow'
  BY BoundsTyped DEF RowsSound, IssuedGrows, RowsEvolve, IsConnected

LEMMA OneIssued ==
    ASSUME RowsSound, NEW n \in Names, issued[n] < MaxIssued,
           issued' = [issued EXCEPT ![n] = @ + 1]
    PROVE  IssuedGrows /\ issued'[n] = issued[n] + 1 /\ issued'[n] \in 1 .. MaxIssued
<1>1. \A m \in Names : issued[m] \in Nat
  BY BoundsTyped DEF RowsSound
<1>2. issued[n] + 1 \in 1 .. MaxIssued
  BY <1>1, BoundsTyped DEF RowsSound
<1> QED  BY <1>1, <1>2, BoundsTyped DEF RowsSound, IssuedGrows

\* A row changes nothing but its credential, and never to none.
LEMMA RowKept ==
    ASSUME RowsSound, IssuedGrows, lastRow' = lastRow, NEW n \in Names,
           NEW k \in Row, integrations' = [integrations EXCEPT ![n] = k],
           \/ /\ k.row = integrations[n].row /\ k.credential <= issued'[n]
              /\ k.row # 0 => k.credential # 0
           \/ k = NoRow
    PROVE  RowsSound' /\ RowsEvolve
<1>1. /\ integrations' \in [Names -> Row]
      /\ \A m \in Names : integrations'[m] = IF m = n THEN k ELSE integrations[m]
  BY DEF RowsSound
<1>2. \A m \in Names : /\ issued[m] \in Nat /\ issued'[m] \in Nat
                       /\ issued[m] <= issued'[m]
                       /\ integrations[m].row \in Nat
                       /\ integrations[m].credential \in Nat
                       /\ k.row \in Nat /\ k.credential \in Nat
  BY BoundsTyped DEF RowsSound, IssuedGrows, Row
<1>3. k.row \in {0, integrations[n].row}
  BY DEF NoRow
<1>4. k.credential <= issued'[n] /\ (k.row # 0 => k.credential # 0)
  BY <1>2, BoundsTyped DEF NoRow
<1>5. lastRow \in Nat /\ lastRow' \in Numbers
  BY BoundsTyped DEF RowsSound
<1>6. \A m \in Names : integrations'[m].row \in {0, integrations[m].row}
  BY <1>1, <1>3
<1>7. RowsEvolve
  BY <1>5, <1>6 DEF RowsEvolve
<1>8. \A m, o \in Names : integrations'[m].row = integrations'[o].row
                             => m = o \/ integrations'[m].row = 0
  BY <1>6 DEF RowsSound
<1>9. ASSUME NEW m \in Names
      PROVE  /\ integrations'[m].row <= lastRow'
             /\ integrations'[m].credential <= issued'[m]
             /\ integrations'[m].row # 0 => integrations'[m].credential # 0
  <2>1. integrations'[m].row <= lastRow'
    BY <1>2, <1>5, <1>6 DEF RowsSound
  <2>2. CASE m = n
    BY <1>1, <1>4, <2>1, <2>2
  <2>3. CASE m # n
    BY <1>1, <1>2, <2>1, <2>3 DEF RowsSound, IsConnected
  <2> QED  BY <2>2, <2>3
<1> QED  BY <1>1, <1>5, <1>7, <1>8, <1>9 DEF RowsSound, IssuedGrows, IsConnected

\* An account that is upserted keeps its row, or gets the next one.
LEMMA RowUpserted ==
    ASSUME RowsSound, IssuedGrows, NEW n \in Names,
           NEW credential \in 1 .. issued'[n], Upserted(n, credential)
    PROVE  /\ RowsSound' /\ RowsEvolve
           /\ lastRow' \in Numbers /\ lastRow <= lastRow'
           /\ integrations'[n].credential = credential
           /\ integrations'[n].row \in 1 .. lastRow'
           /\ \A m \in Names : m # n => integrations'[m] = integrations[m]
<1>1. /\ lastRow \in Nat /\ issued'[n] \in 0 .. MaxIssued
      /\ credential \in 0 .. MaxIssued /\ integrations[n] \in Row
      /\ integrations[n].row \in Nat
  BY BoundsTyped DEF RowsSound, IssuedGrows, Row
<1>2. CASE IsConnected(n)
  <2> DEFINE k == [integrations[n] EXCEPT !.credential = credential, !.fresh = TRUE]
  <2>1. integrations' = [integrations EXCEPT ![n] = k] /\ lastRow' = lastRow
    BY <1>2 DEF Upserted, RowsSound
  <2>2. k \in Row /\ k.row = integrations[n].row /\ k.credential = credential
    BY <1>1 DEF Row
  <2>3. /\ integrations'[n] = k
        /\ \A m \in Names : m # n => integrations'[m] = integrations[m]
    BY <2>1 DEF RowsSound
  <2>9. k.credential <= issued'[n] /\ k.credential # 0
    BY <1>1, <2>2
  <2> HIDE DEF k
  <2>4. RowsSound' /\ RowsEvolve
    BY <2>1, <2>2, <2>9, RowKept
  <2>5. integrations'[n].row \in 1 .. lastRow'
    BY <1>1, <1>2, <2>1, <2>2, <2>3 DEF RowsSound, IsConnected
  <2> QED  BY <1>1, <2>1, <2>2, <2>3, <2>4, <2>5 DEF RowsSound
<1>3. CASE ~IsConnected(n)
  <2> DEFINE k == [row |-> lastRow + 1, credential |-> credential, fresh |-> TRUE]
  <2>1. /\ lastRow < MaxRows /\ lastRow' = lastRow + 1
        /\ integrations' = [integrations EXCEPT ![n] = k]
    BY <1>3 DEF Upserted
  <2>2. /\ lastRow' \in Numbers /\ lastRow <= lastRow' /\ lastRow < lastRow'
        /\ k \in Row
    BY <1>1, <2>1, BoundsTyped DEF Row
  <2>3. /\ integrations' \in [Names -> Row]
        /\ integrations'[n].row = lastRow + 1
        /\ integrations'[n].credential = credential
        /\ \A m \in Names : m # n => integrations'[m] = integrations[m]
    BY <2>1, <2>2 DEF RowsSound
  <2>4. \A m \in Names : /\ integrations[m].row \in Nat /\ integrations[m].row <= lastRow
                         /\ integrations[m].credential \in Nat
                         /\ issued[m] \in Nat /\ issued'[m] \in Nat
                         /\ issued[m] <= issued'[m]
                         /\ integrations[m].credential <= issued[m]
    BY BoundsTyped DEF RowsSound, IssuedGrows, Row
  <2>5. RowsEvolve
    BY <1>1, <1>3, <2>2, <2>3, <2>4 DEF RowsEvolve, IsConnected
  <2>6. \A m, o \in Names : integrations'[m].row = integrations'[o].row
                               => m = o \/ integrations'[m].row = 0
    BY <1>1, <2>3, <2>4 DEF RowsSound
  <2>7. ASSUME NEW m \in Names
        PROVE  /\ integrations'[m].row <= lastRow'
               /\ integrations'[m].credential <= issued'[m]
               /\ integrations'[m].row # 0 => integrations'[m].credential # 0
    <3>1. CASE m = n
      BY <1>1, <2>1, <2>3, <3>1
    <3>2. CASE m # n
      BY <1>1, <2>1, <2>2, <2>3, <2>4, <3>2 DEF RowsSound, IsConnected
    <3> QED  BY <3>1, <3>2
  <2>8. RowsSound'
    BY <2>2, <2>3, <2>6, <2>7 DEF RowsSound, IssuedGrows, IsConnected
  <2>9. integrations'[n].row \in 1 .. lastRow'
    BY <1>1, <2>1, <2>3
  <2> QED  BY <2>2, <2>3, <2>5, <2>8, <2>9
<1> QED  BY <1>2, <1>3

-----------------------------------------------------------------------------
(* Each step of the accounts keeps them sound.                              *)

LEMMA StartConnectSound ==
    ASSUME AccountsInv, NEW t \in Tabs, StartConnect(t)
    PROVE  AccountsInv'
<1>1. PICK p \in OAuthProviders \cap cast :
          LET rivals == {s \in Tabs \ {t} : tab[s].pc = "consent" /\ tab[s].provider = p}
          IN  /\ cookie' = [cookie EXCEPT ![CookieOf(p)] = t]
              /\ tab' = [s \in Tabs |->
                    CASE s = t -> [NoTab EXCEPT !.pc = "consent", !.provider = p,
                                                !.rival = rivals # {}]
                      [] s \in rivals -> [tab[s] EXCEPT !.rival = TRUE]
                      [] OTHER -> tab[s]]
  BY DEF StartConnect
<1> DEFINE rivals == {s \in Tabs \ {t} : tab[s].pc = "consent" /\ tab[s].provider = p}
           rival == rivals # {}
           mine == [NoTab EXCEPT !.pc = "consent", !.provider = p, !.rival = rival]
<1>2. RowsSound' /\ IssuedGrows /\ CreatorsSound' /\ HandlersSound'
  BY NothingGrows, CreatorsUnmoved, HandlersUnmoved DEF StartConnect, AccountsInv
<1>3. TabSound(mine, issued')
  <2>1. rival \in BOOLEAN /\ p \in OAuthProviders
    OBVIOUS
  <2> HIDE DEF rival
  <2>2. mine \in Tab /\ mine.pc = "consent" /\ mine.provider = p
    BY <2>1, NothingTyped DEF Tab
  <2> QED  BY <2>1, <2>2 DEF TabSound
<1>4. ASSUME NEW s \in Tabs
      PROVE  TabSound(tab[s], issued') /\ TabSound([tab[s] EXCEPT !.rival = TRUE], issued')
  <2>1. TabSound(tab[s], issued')
    BY <1>2, StillSound DEF AccountsInv, TabsSound
  <2>2. TabSound([tab[s] EXCEPT !.rival = TRUE], issued')
    BY <2>1 DEF TabSound, Tab
  <2> QED  BY <2>1, <2>2
<1>5. \A s \in Tabs : tab'[s] = IF s = t THEN mine
                                ELSE IF s \in rivals THEN [tab[s] EXCEPT !.rival = TRUE]
                                ELSE tab[s]
  BY <1>1
<1>6. tab' = [s \in Tabs |-> tab'[s]]
  BY <1>1
<1> HIDE DEF mine, rivals
<1>7. \A s \in Tabs : TabSound(tab'[s], issued')
  BY <1>3, <1>4, <1>5
<1>8. \A s \in Tabs : tab'[s] \in Tab
  BY <1>7 DEF TabSound
<1>9. tab' \in [Tabs -> Tab]
  BY <1>6, <1>8
<1>10. TabsSound'
  BY <1>7, <1>9 DEF TabsSound
<1>11. cookie' \in [OAuthProviders -> Tabs \cup {None}]
  BY <1>1 DEF AccountsInv, CookieOf
<1> QED  BY <1>2, <1>10, <1>11 DEF AccountsInv, StartConnect

LEMMA CallbackSound ==
    ASSUME AccountsInv, NEW t \in Tabs, Callback(t)
    PROVE  AccountsInv'
<1>1. RowsSound' /\ IssuedGrows /\ CreatorsSound' /\ HandlersSound'
  BY NothingGrows, CreatorsUnmoved, HandlersUnmoved DEF Callback, AccountsInv
<1>2. tab[t] \in Tab /\ tab[t].pc = "consent" /\ tab[t].provider \in OAuthProviders
  BY DEF AccountsInv, TabsSound, TabSound, Callback
<1>3. /\ TabSound(NoTab, issued')
      /\ TabSound([tab[t] EXCEPT !.pc = "exchange"], issued')
      /\ TabSound([tab[t] EXCEPT !.pc = "refused"], issued')
  BY <1>2, NothingSound DEF TabSound, Tab
<1>4. PICK k : tab' = [tab EXCEPT ![t] = k] /\ TabSound(k, issued')
  BY <1>3 DEF Callback, AccountsInv, TabsSound
<1>5. TabsSound'
  BY <1>1, <1>4, TabMoved DEF AccountsInv
<1>6. cookie' \in [OAuthProviders -> Tabs \cup {None}]
  BY DEF AccountsInv, Callback
<1> QED  BY <1>1, <1>5, <1>6 DEF AccountsInv, Callback

LEMMA ExchangeSound ==
    ASSUME AccountsInv, NEW t \in Tabs, Exchange(t)
    PROVE  AccountsInv' /\ IssuedGrows
<1>1. tab[t] \in Tab /\ tab[t].pc = "exchange" /\ tab[t].provider \in OAuthProviders
  BY DEF AccountsInv, TabsSound, TabSound, Exchange
<1>2. AccountsInv /\ UNCHANGED <<integrations, lastRow, cookie, creator, user, removing, crossed>>
  BY DEF Exchange
<1>3. PICK k : tab' = [tab EXCEPT ![t] = k] /\ IssuedGrows /\ TabSound(k, issued')
  <2>1. CASE tab' = [tab EXCEPT ![t] = NoTab] /\ UNCHANGED issued
    BY <2>1, <1>2, NothingSound, NothingGrows DEF AccountsInv
  <2>2. CASE \E n \in Names, next \in AfterExchange(tab[t].provider) :
                 /\ ProviderOf[n] = tab[t].provider
                 /\ issued[n] < MaxIssued
                 /\ issued' = [issued EXCEPT ![n] = @ + 1]
                 /\ tab' = [tab EXCEPT ![t].pc = next, ![t].name = n,
                                       ![t].credential = issued[n] + 1]
    <3>1. PICK n \in Names, next \in AfterExchange(tab[t].provider) :
                 /\ ProviderOf[n] = tab[t].provider
                 /\ issued[n] < MaxIssued
                 /\ issued' = [issued EXCEPT ![n] = @ + 1]
                 /\ tab' = [tab EXCEPT ![t].pc = next, ![t].name = n,
                                       ![t].credential = issued[n] + 1]
      BY <2>2
    <3> DEFINE k == [tab[t] EXCEPT !.pc = next, !.name = n, !.credential = issued[n] + 1]
    <3>2. next \in {"profile", "upsert"}
      BY <1>1, AccountsAssumption
      DEF AfterExchange, AfterSlack, AfterMicrosoft, AfterGoogle
    <3>3. IssuedGrows /\ issued'[n] = issued[n] + 1 /\ issued'[n] \in 1 .. MaxIssued
      BY <3>1, OneIssued DEF AccountsInv
    <3>4. tab' = [tab EXCEPT ![t] = k]
      BY <3>1
    <3>5. /\ k \in Tab /\ k.pc \in {"profile", "upsert"} /\ k.name = n
          /\ k.credential = issued'[n]
      <4>1. issued[n] + 1 \in 0 .. MaxIssued
        BY <3>3, BoundsTyped
      <4>2. k \in Tab
        BY <1>1, <3>2, <4>1 DEF Tab
      <4>3. k.pc = next /\ k.name = n /\ k.credential = issued[n] + 1
        BY <1>1 DEF Tab
      <4> QED  BY <3>2, <3>3, <4>2, <4>3
    <3> HIDE DEF k
    <3>6. TabSound(k, issued')
      BY <1>1, <3>1, <3>3, <3>5, BoundsTyped DEF TabSound
    <3> QED  BY <3>3, <3>4, <3>6
  <2> QED  BY <2>1, <2>2 DEF Exchange
<1>4. TabsSound' /\ HandlersSound'
  BY <1>2, <1>3, TabMoved, HandlersUnmoved DEF AccountsInv
<1>5. RowsSound'
  BY <1>2, <1>3, BoundsTyped DEF AccountsInv, RowsSound, IssuedGrows, IsConnected, Row
<1>6. CreatorsSound'
  BY <1>2, CreatorsUnmoved, BoundsTyped DEF AccountsInv, CreatorsSound
<1> QED  BY <1>2, <1>3, <1>4, <1>5, <1>6 DEF AccountsInv

LEMMA ProfileSound ==
    ASSUME AccountsInv, NEW t \in Tabs, Profile(t)
    PROVE  AccountsInv'
<1>1. RowsSound' /\ IssuedGrows /\ CreatorsSound' /\ HandlersSound'
  BY NothingGrows, CreatorsUnmoved, HandlersUnmoved DEF Profile, AccountsInv
<1>2. TabSound(tab[t], issued') /\ tab[t].pc = "profile"
  BY <1>1, StillSound DEF AccountsInv, TabsSound, Profile
<1>3. TabSound(NoTab, issued') /\ TabSound([tab[t] EXCEPT !.pc = "upsert"], issued')
  BY <1>2, NothingSound DEF TabSound, Tab
<1>4. PICK k : tab' = [tab EXCEPT ![t] = k] /\ TabSound(k, issued')
  BY <1>3 DEF Profile, AccountsInv, TabsSound
<1>5. TabsSound'
  BY <1>1, <1>4, TabMoved DEF AccountsInv
<1>6. crossed' \subseteq Names
  BY <1>2 DEF AccountsInv, Profile, TabSound
<1> QED  BY <1>1, <1>5, <1>6 DEF AccountsInv, Profile

LEMMA UpsertAccountSound ==
    ASSUME AccountsInv, NEW t \in Tabs, UpsertAccount(t)
    PROVE  AccountsInv' /\ RowsEvolve
<1> DEFINE k == tab[t]
<1>1. /\ UNCHANGED <<issued, cookie, creator, user, removing>>
      /\ tab' = [tab EXCEPT ![t] = NoTab]
      /\ \/ Upserted(k.name, k.credential)
         \/ UNCHANGED <<integrations, lastRow>>
      /\ crossed' \in {Crossing(k.name, k.credential), crossed \cup {k.name}}
  BY DEF UpsertAccount
<1>2. /\ k.name \in Names /\ k.credential \in 1 .. issued[k.name]
  BY DEF AccountsInv, TabsSound, TabSound, UpsertAccount
<1>3. IssuedGrows
  BY <1>1, BoundsTyped DEF AccountsInv, RowsSound, IssuedGrows
<1>4. RowsSound' /\ RowsEvolve /\ lastRow' \in Numbers /\ lastRow <= lastRow'
  BY <1>1, <1>2, <1>3, RowUpserted, NothingGrows DEF AccountsInv
<1>5. TabsSound' /\ HandlersSound' /\ CreatorsSound'
  BY <1>1, <1>3, <1>4, TabMoved, HandlersUnmoved, CreatorsUnmoved, NothingSound DEF AccountsInv
<1>6. crossed' \subseteq Names
  BY <1>1, <1>2 DEF AccountsInv, Crossing
<1> QED  BY <1>1, <1>4, <1>5, <1>6 DEF AccountsInv

LEMMA StartWebhookSound ==
    ASSUME AccountsInv, NEW c \in Creators, StartWebhook(c)
    PROVE  AccountsInv'
<1>1. PICK n \in Names :
          LET rivals == {d \in Creators \ {c} : creator[d].pc = "create"
                                                /\ creator[d].name = n}
          IN  /\ ProviderOf[n] = "webhook"
              /\ creator' = [d \in Creators |->
                    CASE d = c -> [NoCreator EXCEPT !.pc = "create", !.name = n,
                                                    !.rival = rivals # {}]
                      [] d \in rivals -> [creator[d] EXCEPT !.rival = TRUE]
                      [] OTHER -> creator[d]]
  BY DEF StartWebhook
<1> DEFINE rivals == {d \in Creators \ {c} : creator[d].pc = "create"
                                             /\ creator[d].name = n}
           rival == rivals # {}
           mine == [NoCreator EXCEPT !.pc = "create", !.name = n, !.rival = rival]
<1>2. RowsSound' /\ IssuedGrows /\ TabsSound' /\ HandlersSound'
  BY NothingGrows, TabsUnmoved, HandlersUnmoved DEF StartWebhook, AccountsInv
<1>3. CreatorSound(mine, lastRow')
  <2>1. rival \in BOOLEAN
    OBVIOUS
  <2> HIDE DEF rival
  <2>2. mine \in Creator /\ mine.pc = "create" /\ mine.name = n
    BY <2>1, NothingTyped DEF Creator
  <2> QED  BY <1>1, <2>2 DEF CreatorSound
<1>4. ASSUME NEW d \in Creators
      PROVE  /\ CreatorSound(creator[d], lastRow')
             /\ CreatorSound([creator[d] EXCEPT !.rival = TRUE], lastRow')
  <2>1. CreatorSound(creator[d], lastRow')
    BY DEF AccountsInv, CreatorsSound, StartWebhook
  <2>2. CreatorSound([creator[d] EXCEPT !.rival = TRUE], lastRow')
    BY <2>1 DEF CreatorSound, Creator
  <2> QED  BY <2>1, <2>2
<1>5. \A d \in Creators :
          creator'[d] = IF d = c THEN mine
                        ELSE IF d \in rivals THEN [creator[d] EXCEPT !.rival = TRUE]
                        ELSE creator[d]
  BY <1>1
<1>6. creator' = [d \in Creators |-> creator'[d]]
  BY <1>1
<1> HIDE DEF mine, rivals
<1>7. \A d \in Creators : CreatorSound(creator'[d], lastRow')
  BY <1>3, <1>4, <1>5
<1>8. \A d \in Creators : creator'[d] \in Creator
  BY <1>7 DEF CreatorSound
<1>9. CreatorsSound'
  BY <1>6, <1>7, <1>8 DEF CreatorsSound
<1> QED  BY <1>2, <1>9 DEF AccountsInv, StartWebhook

LEMMA CreateWebhookSound ==
    ASSUME AccountsInv, NEW c \in Creators, CreateWebhook(c)
    PROVE  /\ AccountsInv' /\ IssuedGrows /\ RowsEvolve
           /\ creator[c].name \in Names /\ ProviderOf[creator[c].name] = "webhook"
           /\ integrations'[creator[c].name].credential = issued'[creator[c].name]
           /\ \A m \in Names : m # creator[c].name =>
                 integrations'[m] = integrations[m] /\ issued'[m] = issued[m]
<1> DEFINE n == creator[c].name
           k == [creator[c] EXCEPT !.pc = "shown", !.secret = issued[n] + 1,
                                   !.row = integrations'[n].row]
<1>1. /\ issued[n] < MaxIssued /\ issued' = [issued EXCEPT ![n] = @ + 1]
      /\ Upserted(n, issued[n] + 1)
      /\ creator' = [creator EXCEPT ![c].pc = "shown", ![c].secret = issued[n] + 1,
                                    ![c].row = integrations'[n].row]
      /\ UNCHANGED <<cookie, tab, user, removing, crossed>>
      /\ creator[c].pc = "create"
  BY DEF CreateWebhook
<1>2. creator[c] \in Creator /\ n \in Names /\ ProviderOf[n] = "webhook"
  BY <1>1 DEF AccountsInv, CreatorsSound, CreatorSound
<1>3. creator' = [creator EXCEPT ![c] = k]
  BY <1>1
<1>4. /\ IssuedGrows /\ issued'[n] = issued[n] + 1 /\ issued'[n] \in 1 .. MaxIssued
      /\ \A m \in Names : m # n => issued'[m] = issued[m]
  BY <1>1, <1>2, OneIssued DEF AccountsInv, RowsSound
<1>5. issued[n] + 1 \in 1 .. issued'[n]
  BY <1>4
<1> HIDE DEF n, k
<1>6. /\ RowsSound' /\ RowsEvolve /\ lastRow' \in Numbers /\ lastRow <= lastRow'
      /\ integrations'[n].credential = issued[n] + 1
      /\ integrations'[n].row \in 1 .. lastRow'
      /\ \A m \in Names : m # n => integrations'[m] = integrations[m]
  BY <1>1, <1>2, <1>4, <1>5, RowUpserted DEF AccountsInv
<1>7. CreatorSound(k, lastRow')
  <2>1. lastRow' \in Nat /\ integrations'[n].row \in Numbers
    BY <1>2, <1>6, BoundsTyped DEF RowsSound, Row
  <2>2. issued[n] + 1 \in 0 .. MaxIssued
    BY <1>4, BoundsTyped
  <2>3. k \in Creator
    BY <1>2, <2>1, <2>2 DEF k, Creator
  <2>4. k.pc = "shown" /\ k.name = n /\ k.row = integrations'[n].row
    BY <1>2 DEF k, n, Creator
  <2> QED  BY <1>2, <1>6, <2>3, <2>4 DEF CreatorSound
<1>8. CreatorsSound'
  BY <1>3, <1>6, <1>7, CreatorMoved DEF AccountsInv
<1>9. TabsSound' /\ HandlersSound'
  BY <1>1, <1>4, TabsUnmoved, HandlersUnmoved DEF AccountsInv
<1>10. AccountsInv'
  BY <1>1, <1>6, <1>8, <1>9 DEF AccountsInv
<1> QED  BY <1>2, <1>4, <1>6, <1>10 DEF n

\* A handler that got hold of an account that is connected.
LEMMA TokenSound ==
    ASSUME AccountsInv, NEW n \in Names, IsConnected(n)
    PROVE  /\ HandlerSound(TokenOf(n), issued) /\ HandlerSound(TokenForEmail(n), issued)
           /\ TokenOf(n).name = n /\ TokenForEmail(n).name = n
           /\ TokenOf(n).row = integrations[n].row
           /\ TokenForEmail(n).row = integrations[n].row
           /\ TokenOf(n).pc \in {"refresh", "ready"} /\ TokenForEmail(n).pc = "find"
<1>1. integrations[n] \in Row /\ integrations[n].row # 0
  BY DEF AccountsInv, RowsSound, IsConnected
<1>2. integrations[n].credential \in 1 .. issued[n]
  <2>1. integrations[n].credential \in Nat /\ issued[n] \in Nat
    BY <1>1, BoundsTyped DEF Row, AccountsInv, RowsSound
  <2> QED  BY <2>1 DEF AccountsInv, RowsSound, IsConnected
<1>3. /\ TokenForEmail(n) \in User /\ TokenForEmail(n).pc = "find"
      /\ TokenForEmail(n).name = n /\ TokenForEmail(n).row = integrations[n].row
  BY <1>1, NothingTyped DEF TokenForEmail, User, Row
<1>4. CASE integrations[n].fresh
  <2>1. TokenOf(n) = [pc |-> "ready", name |-> n, row |-> integrations[n].row,
                      stored |-> 0, got |-> 0, left |-> 0]
    BY <1>4 DEF TokenOf, NoUser
  <2>2. TokenOf(n) \in User
    BY <1>1, <2>1, BoundsTyped DEF User, Row
  <2> QED  BY <1>1, <1>3, <2>1, <2>2 DEF HandlerSound
<1>5. CASE ~integrations[n].fresh
  <2>1. TokenOf(n) = [pc |-> "refresh", name |-> n, row |-> integrations[n].row,
                      stored |-> integrations[n].credential, got |-> 0, left |-> 0]
    BY <1>5 DEF TokenOf, NoUser
  <2>2. TokenOf(n) \in User
    BY <1>1, <2>1, BoundsTyped DEF User, Row
  <2> QED  BY <1>1, <1>2, <1>3, <2>1, <2>2 DEF HandlerSound
<1> QED  BY <1>4, <1>5

\* While a handler waits for its token nothing moves it but the accounts.
HandlersEvolve ==
    \A u \in Users :
        \/ user'[u] = user[u]
        \/ /\ user[u].pc \in {"find", "refresh", "store"}
           /\ \/ user'[u].pc = "failed"
              \/ /\ user'[u].pc \in {"refresh", "store", "ready"}
                 /\ user'[u].name = user[u].name /\ user'[u].row = user[u].row

LEMMA FindAccountSound ==
    ASSUME AccountsInv, NEW u \in Users, FindAccount(u)
    PROVE  AccountsInv' /\ HandlersEvolve
<1> DEFINE k == user[u]
           h == IF integrations[k.name].row = k.row THEN TokenOf(k.name) ELSE Failed
<1>1. RowsSound' /\ IssuedGrows /\ CreatorsSound' /\ TabsSound'
  BY NothingGrows, CreatorsUnmoved, TabsUnmoved DEF FindAccount, AccountsInv
<1>2. HandlerSound(k, issued) /\ k.pc = "find" /\ k.name \in Names /\ k.row # 0
  BY DEF AccountsInv, HandlersSound, FindAccount, HandlerSound
<1>3. user' = [user EXCEPT ![u] = h] /\ issued' = issued
  BY DEF FindAccount
<1>4. /\ HandlerSound(h, issued)
      /\ \/ h.pc = "failed"
         \/ h.pc \in {"refresh", "ready"} /\ h.name = k.name /\ h.row = k.row
  <2>1. CASE integrations[k.name].row = k.row
    BY <1>2, <2>1, TokenSound DEF IsConnected
  <2>2. CASE integrations[k.name].row # k.row
    BY <2>2, NothingSound, NothingTyped
  <2> QED  BY <2>1, <2>2
<1> HIDE DEF h
<1>5. HandlersSound'
  BY <1>1, <1>3, <1>4, HandlerMoved DEF AccountsInv
<1>6. HandlersEvolve
  BY <1>2, <1>3, <1>4 DEF HandlersEvolve, AccountsInv, HandlersSound
<1> QED  BY <1>1, <1>5, <1>6 DEF AccountsInv, FindAccount

\* A refresh leaves the handler with what the provider was left with.
LEMMA RefreshedSound ==
    ASSUME AccountsInv, IssuedGrows, NEW u \in Users, user[u].pc = "refresh",
           ProviderOf[user[u].name] \in GoogleProviders \cup MicrosoftProviders,
           NEW returned, returned = 0 \/ returned \in 1 .. issued'[user[u].name],
           Refreshed(u, returned)
    PROVE  HandlersSound' /\ HandlersEvolve
<1> DEFINE k == user[u]
           token == IF returned = 0 THEN k.stored ELSE returned
           h == [k EXCEPT !.pc = "store", !.got = token, !.left = token]
<1>1. /\ HandlerSound(k, issued) /\ k \in User /\ k.name \in Names
      /\ k.stored \in 1 .. issued[k.name]
  BY DEF AccountsInv, HandlersSound, HandlerSound
<1>2. user' = [user EXCEPT ![u] = h]
  BY DEF Refreshed, ToStore
<1>3. token \in 1 .. issued'[k.name] /\ issued'[k.name] \in 0 .. MaxIssued
  BY <1>1, BoundsTyped DEF IssuedGrows, AccountsInv, RowsSound
<1> HIDE DEF token
<1>4. token \in 0 .. MaxIssued
  BY <1>3, BoundsTyped
<1>5. h \in User /\ h.pc = "store" /\ h.name = k.name /\ h.row = k.row
      /\ h.got = token /\ h.left = token
  BY <1>1, <1>4 DEF User
<1> HIDE DEF h
<1>6. HandlerSound(h, issued')
  BY <1>1, <1>3, <1>5 DEF HandlerSound
<1>7. HandlersSound'
  BY <1>2, <1>6, HandlerMoved DEF AccountsInv
<1>8. HandlersEvolve
  BY <1>2, <1>5 DEF HandlersEvolve, AccountsInv, HandlersSound
<1> QED  BY <1>7, <1>8

LEMMA RefreshSound ==
    ASSUME AccountsInv, NEW u \in Users, Refresh(u)
    PROVE  AccountsInv' /\ IssuedGrows /\ HandlersEvolve
<1> DEFINE n == user[u].name
<1>1. /\ UNCHANGED <<integrations, lastRow, cookie, tab, creator, removing, crossed>>
      /\ user[u].pc = "refresh" /\ n \in Names
  BY DEF Refresh, AccountsInv, HandlersSound, HandlerSound
<1>2. IssuedGrows /\ HandlersSound' /\ HandlersEvolve
  <2>1. CASE issued' = issued /\ user' = [user EXCEPT ![u] = Failed]
    <3>1. IssuedGrows
      BY <1>1, <2>1, NothingGrows DEF AccountsInv
    <3>2. HandlersSound'
      BY <2>1, <3>1, NothingSound, HandlerMoved DEF AccountsInv
    <3> QED  BY <1>1, <2>1, <3>1, <3>2, NothingTyped
         DEF HandlersEvolve, AccountsInv, HandlersSound
  <2>2. CASE /\ issued' = issued /\ Refreshed(u, 0)
             /\ ProviderOf[n] \in GoogleProviders \cup MicrosoftProviders
    BY <1>1, <2>2, NothingGrows, RefreshedSound DEF AccountsInv
  <2>3. CASE /\ issued[n] < MaxIssued /\ issued' = [issued EXCEPT ![n] = @ + 1]
             /\ Refreshed(u, issued[n] + 1)
             /\ ProviderOf[n] \in MicrosoftProviders
    <3>1. IssuedGrows /\ issued[n] + 1 \in 1 .. issued'[n]
      <4>1. /\ IssuedGrows /\ issued'[n] = issued[n] + 1
            /\ issued'[n] \in 1 .. MaxIssued
        BY <1>1, <2>3, OneIssued DEF AccountsInv
      <4> QED  BY <4>1
    <3>2. ProviderOf[n] \in GoogleProviders \cup MicrosoftProviders
      BY <2>3
    <3> HIDE DEF n
    <3> QED  BY <1>1, <2>3, <3>1, <3>2, RefreshedSound DEF n
  <2> QED  BY <2>1, <2>2, <2>3 DEF Refresh, RefreshGoogle, RefreshMicrosoft
<1>3. RowsSound'
  BY <1>1, <1>2, BoundsTyped DEF AccountsInv, RowsSound, IssuedGrows, IsConnected, Row
<1>4. CreatorsSound' /\ TabsSound'
  BY <1>1, <1>2, BoundsTyped, TabsUnmoved DEF AccountsInv, CreatorsSound
<1> QED  BY <1>1, <1>2, <1>3, <1>4 DEF AccountsInv

LEMMA StoreRefreshedSound ==
    ASSUME AccountsInv, NEW u \in Users, StoreRefreshed(u)
    PROVE  AccountsInv' /\ RowsEvolve /\ HandlersEvolve
<1> DEFINE k == user[u]
<1>1. /\ UNCHANGED <<lastRow, issued, cookie, tab, creator, removing>>
      /\ k.pc = "store"
  BY DEF StoreRefreshed
<1>2. /\ k \in User /\ HandlerSound(k, issued) /\ k.name \in Names /\ k.row # 0
      /\ k.got \in 1 .. issued[k.name]
  BY <1>1 DEF AccountsInv, HandlersSound, HandlerSound
<1>3. IssuedGrows
  BY <1>1, BoundsTyped DEF AccountsInv, RowsSound, IssuedGrows
<1>4. RowsSound' /\ RowsEvolve
  <2>1. CASE integrations' = integrations
    BY <1>1, <2>1, NothingGrows DEF AccountsInv
  <2>2. CASE integrations' = [integrations EXCEPT
                 ![k.name].credential = k.got, ![k.name].fresh = TRUE]
    <3> DEFINE r == [integrations[k.name] EXCEPT !.credential = k.got, !.fresh = TRUE]
    <3>1. integrations' = [integrations EXCEPT ![k.name] = r]
      BY <2>2
    <3>2. /\ r \in Row /\ r.row = integrations[k.name].row /\ r.credential = k.got
      BY <1>2, BoundsTyped DEF User, Row, AccountsInv, RowsSound
    <3>3. r.credential <= issued'[k.name] /\ r.credential # 0
      BY <1>1, <1>2, <3>2, BoundsTyped DEF AccountsInv, RowsSound
    <3> HIDE DEF r
    <3> QED  BY <1>1, <1>2, <1>3, <3>1, <3>2, <3>3, RowKept DEF AccountsInv
  <2> QED  BY <2>1, <2>2 DEF StoreRefreshed
<1>5. HandlersSound' /\ HandlersEvolve
  <2>1. CASE user' = [user EXCEPT ![u] = Failed]
    <3>1. HandlersSound'
      BY <1>3, <2>1, NothingSound, HandlerMoved DEF AccountsInv
    <3> QED  BY <1>1, <2>1, <3>1, NothingTyped DEF HandlersEvolve, AccountsInv, HandlersSound
  <2>2. CASE user' = [user EXCEPT ![u].pc = "ready"]
    <3> DEFINE h == [k EXCEPT !.pc = "ready"]
    <3>1. user' = [user EXCEPT ![u] = h]
      BY <2>2
    <3>2. h \in User /\ h.pc = "ready" /\ h.name = k.name /\ h.row = k.row
      BY <1>2 DEF User
    <3> HIDE DEF h
    <3>3. HandlerSound(h, issued')
      BY <1>2, <3>2 DEF HandlerSound
    <3>4. HandlersSound'
      BY <1>3, <3>1, <3>3, HandlerMoved DEF AccountsInv
    <3> QED  BY <1>1, <3>1, <3>2, <3>4 DEF HandlersEvolve, AccountsInv, HandlersSound
  <2> QED  BY <2>1, <2>2 DEF StoreRefreshed
<1>6. TabsSound' /\ CreatorsSound'
  BY <1>1, <1>3, TabsUnmoved, BoundsTyped DEF AccountsInv, CreatorsSound
<1>7. crossed' \subseteq Names
  BY <1>2 DEF StoreRefreshed, Crossing, AccountsInv
<1> QED  BY <1>1, <1>4, <1>5, <1>6, <1>7 DEF AccountsInv

\* An account expires, or goes.
LEMMA RowChangedSound ==
    ASSUME AccountsInv, NEW n \in Names, NEW k \in Row,
           integrations' = [integrations EXCEPT ![n] = k],
           \/ k = NoRow
           \/ /\ k.row = integrations[n].row
              /\ k.credential = integrations[n].credential,
           UNCHANGED <<lastRow, issued, cookie, tab, creator, user, crossed>>,
           removing' \subseteq Numbers
    PROVE  AccountsInv' /\ RowsEvolve
<1>1. IssuedGrows
  BY BoundsTyped DEF AccountsInv, RowsSound, IssuedGrows
<1>2. \/ k = NoRow
      \/ /\ k.row = integrations[n].row /\ k.credential <= issued'[n]
         /\ k.row # 0 => k.credential # 0
  BY DEF AccountsInv, RowsSound, IsConnected
<1>3. RowsSound' /\ RowsEvolve
  BY <1>1, <1>2, RowKept DEF AccountsInv
<1>4. TabsSound' /\ CreatorsSound' /\ HandlersSound'
  BY <1>1, TabsUnmoved, HandlersUnmoved DEF AccountsInv, CreatorsSound
<1> QED  BY <1>3, <1>4 DEF AccountsInv

LEMMA ExpireSound ==
    ASSUME AccountsInv, NEW n \in Names, Expire(n)
    PROVE  AccountsInv' /\ RowsEvolve
<1> DEFINE k == [integrations[n] EXCEPT !.fresh = FALSE]
<1>1. integrations[n] \in Row
  BY DEF AccountsInv, RowsSound
<1>2. /\ k \in Row /\ k.row = integrations[n].row
      /\ k.credential = integrations[n].credential
  BY <1>1 DEF Row
<1>3. integrations' = [integrations EXCEPT ![n] = k]
  BY DEF Expire
<1>4. UNCHANGED <<lastRow, issued, cookie, tab, creator, user, removing, crossed>>
  BY DEF Expire
<1> HIDE DEF k
<1> QED  BY <1>2, <1>3, <1>4, RowChangedSound DEF AccountsInv

LEMMA RemovedSound ==
    ASSUME AccountsInv, NEW n \in Names, Without(n), removing' \subseteq Numbers,
           UNCHANGED <<lastRow, issued, cookie, tab, creator, user, crossed>>
    PROVE  AccountsInv' /\ RowsEvolve
  BY NothingTyped, RowChangedSound DEF Without

\* A step of the accounts keeps them sound, whichever it is.
LEMMA AccountsKept ==
    ASSUME AccountsInv, AccountsNext
    PROVE  AccountsInv' /\ IssuedGrows /\ RowsEvolve /\ HandlersEvolve
<1>1. ASSUME issued' = issued  PROVE IssuedGrows
  BY <1>1, BoundsTyped DEF AccountsInv, RowsSound, IssuedGrows
<1>2. ASSUME UNCHANGED <<integrations, lastRow>>  PROVE RowsEvolve
  BY <1>2, BoundsTyped DEF AccountsInv, RowsSound, RowsEvolve
<1>3. ASSUME user' = user  PROVE HandlersEvolve
  BY <1>3 DEF HandlersEvolve
<1>4. ASSUME NEW t \in Tabs, StartConnect(t)
      PROVE  AccountsInv' /\ IssuedGrows /\ RowsEvolve /\ HandlersEvolve
  BY <1>1, <1>2, <1>3, <1>4, StartConnectSound DEF StartConnect
<1>5. ASSUME NEW t \in Tabs, Callback(t)
      PROVE  AccountsInv' /\ IssuedGrows /\ RowsEvolve /\ HandlersEvolve
  BY <1>1, <1>2, <1>3, <1>5, CallbackSound DEF Callback
<1>6. ASSUME NEW t \in Tabs, Exchange(t)
      PROVE  AccountsInv' /\ IssuedGrows /\ RowsEvolve /\ HandlersEvolve
  BY <1>2, <1>3, <1>6, ExchangeSound DEF Exchange
<1>7. ASSUME NEW t \in Tabs, Profile(t)
      PROVE  AccountsInv' /\ IssuedGrows /\ RowsEvolve /\ HandlersEvolve
  BY <1>1, <1>2, <1>3, <1>7, ProfileSound DEF Profile
<1>8. ASSUME NEW t \in Tabs, UpsertAccount(t)
      PROVE  AccountsInv' /\ IssuedGrows /\ RowsEvolve /\ HandlersEvolve
  BY <1>1, <1>3, <1>8, UpsertAccountSound DEF UpsertAccount
<1>9. ASSUME NEW c \in Creators, StartWebhook(c)
      PROVE  AccountsInv' /\ IssuedGrows /\ RowsEvolve /\ HandlersEvolve
  BY <1>1, <1>2, <1>3, <1>9, StartWebhookSound DEF StartWebhook
<1>10. ASSUME NEW c \in Creators, CreateWebhook(c)
       PROVE  AccountsInv' /\ IssuedGrows /\ RowsEvolve /\ HandlersEvolve
  BY <1>3, <1>10, CreateWebhookSound DEF CreateWebhook
<1>11. ASSUME NEW u \in Users, FindAccount(u)
       PROVE  AccountsInv' /\ IssuedGrows /\ RowsEvolve /\ HandlersEvolve
  BY <1>1, <1>2, <1>11, FindAccountSound DEF FindAccount
<1>12. ASSUME NEW u \in Users, Refresh(u)
       PROVE  AccountsInv' /\ IssuedGrows /\ RowsEvolve /\ HandlersEvolve
  BY <1>2, <1>12, RefreshSound DEF Refresh
<1>13. ASSUME NEW u \in Users, StoreRefreshed(u)
       PROVE  AccountsInv' /\ IssuedGrows /\ RowsEvolve /\ HandlersEvolve
  BY <1>1, <1>13, StoreRefreshedSound DEF StoreRefreshed
<1>14. ASSUME NEW n \in Names, Expire(n)
       PROVE  AccountsInv' /\ IssuedGrows /\ RowsEvolve /\ HandlersEvolve
  BY <1>1, <1>3, <1>14, ExpireSound DEF Expire
<1>15. ASSUME NEW n \in Names, Disconnect(n)
       PROVE  AccountsInv' /\ IssuedGrows /\ RowsEvolve /\ HandlersEvolve
  BY <1>1, <1>3, <1>15, RemovedSound DEF Disconnect, AccountsInv
<1>16. ASSUME NEW p, ListToRemove(p)
       PROVE  AccountsInv' /\ IssuedGrows /\ RowsEvolve /\ HandlersEvolve
  <2>1. UNCHANGED <<integrations, lastRow, issued, cookie, tab, creator, user, crossed>>
    BY <1>16 DEF ListToRemove
  <2>2. removing' \subseteq Numbers
    BY <1>16 DEF ListToRemove, OfProvider, AccountsInv, RowsSound, Row
  <2>3. RowsSound' /\ TabsSound' /\ CreatorsSound' /\ HandlersSound'
    BY <1>1, <2>1, NothingGrows, TabsUnmoved, HandlersUnmoved DEF AccountsInv, CreatorsSound
  <2> QED  BY <1>1, <1>2, <1>3, <2>1, <2>2, <2>3 DEF AccountsInv
<1>17. ASSUME NEW row, RemoveListed(row)
       PROVE  AccountsInv' /\ IssuedGrows /\ RowsEvolve /\ HandlersEvolve
  <2>1. UNCHANGED <<lastRow, issued, cookie, tab, creator, user, crossed>>
    BY <1>17 DEF RemoveListed
  <2>2. removing' \subseteq Numbers
    BY <1>17 DEF RemoveListed, AccountsInv
  <2>3. CASE integrations' = integrations
    <3>1. RowsSound' /\ TabsSound' /\ CreatorsSound' /\ HandlersSound'
      BY <1>1, <2>1, <2>3, NothingGrows, TabsUnmoved, HandlersUnmoved
      DEF AccountsInv, CreatorsSound
    <3> QED  BY <1>1, <1>2, <1>3, <2>1, <2>2, <2>3, <3>1 DEF AccountsInv
  <2>4. ASSUME NEW n \in Names, Without(n)
        PROVE  AccountsInv' /\ IssuedGrows /\ RowsEvolve /\ HandlersEvolve
    BY <1>1, <1>3, <2>1, <2>2, <2>4, RemovedSound
  <2> QED  BY <1>17, <2>3, <2>4 DEF RemoveListed
<1> QED
  BY <1>4, <1>5, <1>6, <1>7, <1>8, <1>9, <1>10, <1>11, <1>12, <1>13, <1>14, <1>15,
     <1>16, <1>17
  DEF AccountsNext

-----------------------------------------------------------------------------
(* The checks, the tools and the deliveries are typed.                      *)

\* The accounts a check has read were connected.
Listed(k) == k \in Check /\ \A a \in k.accounts : a[2] # 0

CheckSound(k) ==
    /\ Listed(k)
    /\ k.pc = "token" => k.account \in Account /\ k.account[2] # 0
    /\ k.mail = 0 <=> k.pc \notin {"get", "dispatch"}

ChecksSound ==
    /\ check = [c \in Checks |-> check[c]]
    /\ \A c \in Checks : CheckSound(check[c])

ToolsTyped ==
    /\ pin \in [Callers -> Names \cup {None}]
    /\ call \in [Callers -> Call]
    /\ file \in [Attachments -> {"none", "fetched", "failed"} \cup Fetching]

InboundTyped ==
    /\ cast \in Casts
    /\ unread \subseteq Mails /\ serving \subseteq Agents
    /\ delivery \in [Deliveries -> Delivery]
    /\ route \in [Handlers -> Route]

\* A handler is only at work on a token while what it handles waits for it.
WaitsSound ==
    /\ \A c \in Checks : check[c].pc # "token" => user[c].pc = "idle"
    /\ \A c \in Callers :
          /\ call[c].pc # "token" => user[c].pc \in {"idle", "failed"}
          /\ call[c].pc \in {"idle", "build", "serving"}
                => \A a \in Attached(c) : file[a] = "none"
    /\ \A a \in Attachments : file[a] # "token" => user[a].pc \in {"idle", "failed"}

TypeInv ==
    /\ AccountsInv /\ ChecksSound /\ ToolsTyped /\ InboundTyped /\ WaitsSound

LEMMA UsersTyped ==
    /\ Checks \subseteq Users /\ Callers \subseteq Users /\ Attachments \subseteq Users
    /\ Checks \cap Callers = {} /\ Checks \cap Attachments = {}
    /\ Callers \cap Attachments = {} /\ Checks \cap Deliveries = {}
    /\ Checks \subseteq Handlers /\ Deliveries \subseteq Handlers
    /\ \A h \in Handlers : h \in Checks \/ h \in Deliveries
  BY InboundAssumption, ToolsAssumption DEF Handlers

LEMMA MailsTyped ==
    /\ 0 \notin Mails
    /\ \A some \in SUBSET Mails : some # {} => Newest(some) \in some
  BY InboundAssumption DEF Newest

LEMMA FirstListed ==
    ASSUME NEW accounts, accounts # {}
    PROVE  First(accounts) \in accounts
<1>1. \E a \in accounts : ProviderOf[a[1]] = "gmail"
                          \/ \A b \in accounts : ProviderOf[b[1]] # "gmail"
  OBVIOUS
<1> QED  BY <1>1 DEF First

\* A check goes on in one of three ways.
LEMMA OnwardWays ==
    ASSUME NEW k, k \in Check
    PROVE  \/ /\ k.queue # {} /\ Newest(k.queue) \in k.queue
              /\ Onward(k) = [k EXCEPT !.pc = "get", !.mail = Newest(k.queue),
                                       !.queue = k.queue \ {Newest(k.queue)}]
           \/ /\ k.queue = {} /\ First(k.accounts) \in k.accounts
              /\ Onward(k) = [k EXCEPT !.pc = "token", !.mail = 0,
                                       !.account = First(k.accounts),
                                       !.accounts = k.accounts \ {First(k.accounts)}]
           \/ /\ k.queue = {} /\ k.accounts = {}
              /\ Onward(k) = [k EXCEPT !.pc = "ended", !.mail = 0, !.account = None]
<1>1. k.queue \in SUBSET Mails
  BY DEF Check
<1>2. CASE k.queue # {}
  BY <1>1, <1>2, MailsTyped DEF Onward
<1>3. CASE k.queue = {} /\ k.accounts # {}
  BY <1>3, FirstListed DEF Onward
<1>4. CASE k.queue = {} /\ k.accounts = {}
  BY <1>4 DEF Onward
<1> QED  BY <1>2, <1>3, <1>4

LEMMA OnwardSound ==
    ASSUME NEW k, Listed(k)
    PROVE  CheckSound(Onward(k)) /\ Onward(k).pc \in {"get", "token", "ended"}
<1>1. k \in Check
  BY DEF Listed
<1>2. CASE /\ Newest(k.queue) \in k.queue
           /\ Onward(k) = [k EXCEPT !.pc = "get", !.mail = Newest(k.queue),
                                    !.queue = k.queue \ {Newest(k.queue)}]
  <2> DEFINE m == Newest(k.queue)
  <2>1. m \in Mails /\ m # 0
    BY <1>1, <1>2, MailsTyped DEF Check
  <2>2. Onward(k) = [k EXCEPT !.pc = "get", !.mail = m, !.queue = k.queue \ {m}]
    BY <1>2
  <2> HIDE DEF m
  <2>3. /\ Onward(k) \in Check /\ Onward(k).accounts = k.accounts
        /\ Onward(k).pc = "get" /\ Onward(k).mail = m
    BY <1>1, <2>1, <2>2 DEF Check
  <2> QED  BY <2>1, <2>3 DEF Listed, CheckSound
<1>3. CASE /\ First(k.accounts) \in k.accounts
           /\ Onward(k) = [k EXCEPT !.pc = "token", !.mail = 0,
                                    !.account = First(k.accounts),
                                    !.accounts = k.accounts \ {First(k.accounts)}]
  <2>1. First(k.accounts) \in Account /\ First(k.accounts)[2] # 0
    BY <1>1, <1>3 DEF Listed, Check
  <2> DEFINE a == First(k.accounts)
  <2> HIDE DEF a
  <2>2. Onward(k) = [k EXCEPT !.pc = "token", !.mail = 0, !.account = a,
                              !.accounts = k.accounts \ {a}]
    BY <1>3 DEF a
  <2>3. a \in Account /\ a[2] # 0
    BY <2>1 DEF a
  <2>4. /\ Onward(k) \in Check
        /\ Onward(k).pc = "token" /\ Onward(k).account = a
        /\ Onward(k).accounts = k.accounts \ {a} /\ Onward(k).mail = 0
    <3>1. k.accounts \ {a} \in SUBSET Account
      BY <1>1 DEF Check
    <3> DEFINE rest == k.accounts \ {a}
    <3> HIDE DEF rest
    <3>2. rest \in SUBSET Account
      BY <3>1 DEF rest
    <3>3. Onward(k) = [k EXCEPT !.pc = "token", !.mail = 0, !.account = a, !.accounts = rest]
      BY <2>2 DEF rest
    <3>4. /\ Onward(k) \in Check
          /\ Onward(k).pc = "token" /\ Onward(k).account = a
          /\ Onward(k).accounts = rest /\ Onward(k).mail = 0
      BY <1>1, <2>3, <3>2, <3>3 DEF Check
    <3> QED  BY <3>4 DEF rest
  <2> QED  BY <2>3, <2>4 DEF Listed, CheckSound
<1>4. CASE Onward(k) = [k EXCEPT !.pc = "ended", !.mail = 0, !.account = None]
  BY <1>1, <1>4 DEF Listed, CheckSound, Check
<1> QED  BY <1>1, <1>2, <1>3, <1>4, OnwardWays

LEMMA ThrownSound ==
    ASSUME NEW k, Listed(k)
    PROVE  CheckSound(Thrown(k)) /\ Thrown(k).pc = "error"
  BY DEF Listed, CheckSound, Check, Thrown

\* The steps that leave the accounts alone.
LEMMA AccountsUntouched ==
    ASSUME AccountsInv, NoAccountStep
    PROVE  /\ IssuedGrows /\ RowsEvolve
           /\ HandlersSound' => AccountsInv'
<1>1. RowsSound' /\ IssuedGrows /\ RowsEvolve
  BY NothingGrows DEF AccountsInv, NoAccountStep
<1>2. TabsSound' /\ CreatorsSound'
  BY <1>1, TabsUnmoved DEF AccountsInv, NoAccountStep, CreatorsSound
<1> QED  BY <1>1, <1>2 DEF AccountsInv, NoAccountStep

LEMMA GoSound ==
    ASSUME TypeInv, NEW c \in Checks, NEW k, CheckSound(k), Go(c, k)
    PROVE  /\ AccountsInv' /\ IssuedGrows /\ RowsEvolve /\ NoAccountStep
           /\ ChecksSound' /\ ToolsTyped' /\ WaitsSound'
           /\ check' = [check EXCEPT ![c] = k] /\ check'[c] = k
           /\ \A u \in Users : u # c => user'[u] = user[u]
           /\ UNCHANGED <<toolVars, serving, delivery, ran>>
<1>1. NoAccountStep /\ UNCHANGED <<toolVars, serving, delivery, ran>> /\ c \in Users
  BY UsersTyped DEF Go, NoAccountStep
<1>2. IssuedGrows /\ RowsEvolve
  BY <1>1, AccountsUntouched DEF TypeInv
<1> DEFINE h == IF k.pc = "token"
                THEN [NoUser EXCEPT !.pc = "find", !.name = k.account[1],
                                    !.row = k.account[2]]
                ELSE NoUser
<1>3. user' = [user EXCEPT ![c] = h]
  BY DEF Go
<1>4. HandlerSound(h, issued') /\ (k.pc # "token" => h.pc = "idle")
  <2>1. CASE k.pc = "token"
    <3>1. k.account[1] \in Names /\ k.account[2] \in Numbers /\ k.account[2] # 0
      BY <2>1 DEF CheckSound, Account
    <3>2. /\ h = [NoUser EXCEPT !.pc = "find", !.name = k.account[1], !.row = k.account[2]]
      BY <2>1
    <3>3. h \in User /\ h.pc = "find" /\ h.name = k.account[1] /\ h.row = k.account[2]
      BY <3>1, <3>2, NothingTyped DEF User
    <3> HIDE DEF h
    <3> QED  BY <2>1, <3>1, <3>3 DEF HandlerSound
  <2>2. CASE k.pc # "token"
    BY <2>2, NothingSound, NothingTyped
  <2> QED  BY <2>1, <2>2
<1> HIDE DEF h
<1>5. AccountsInv'
  BY <1>1, <1>2, <1>3, <1>4, HandlerMoved, AccountsUntouched DEF TypeInv, AccountsInv
<1>6. /\ check' = [check EXCEPT ![c] = k]
      /\ \A d \in Checks : check'[d] = IF d = c THEN k ELSE check[d]
      /\ ChecksSound'
  BY DEF Go, TypeInv, ChecksSound
<1>7. /\ \A u \in Users : u # c => user'[u] = user[u]
      /\ user'[c] = h
  BY <1>1, <1>3 DEF TypeInv, AccountsInv, HandlersSound
<1>8. WaitsSound'
  BY <1>1, <1>4, <1>6, <1>7, UsersTyped DEF TypeInv, WaitsSound, toolVars, Attached
<1> QED  BY <1>1, <1>2, <1>5, <1>6, <1>7, <1>8 DEF TypeInv, ToolsTyped, toolVars

LEMMA TypesStart == Init => TypeInv
<1> SUFFICES ASSUME Init  PROVE TypeInv
  OBVIOUS
<1>1. AccountsInv
  BY AccountsStart DEF Init
<1>2. ChecksSound
  <2>1. CheckSound(NoCheck)
    BY DEF CheckSound, Listed, Check, NoCheck
  <2> QED  BY <2>1 DEF Init, ChecksSound
<1>3. ToolsTyped
  <2>1. NoCall \in Call
    BY BoundsTyped DEF NoCall, Call
  <2>2. pin = Pins /\ Pins \in [Callers -> Names \cup {None}]
    BY ToolsAssumption DEF Init, ToolsInit
  <2> QED  BY <2>1, <2>2 DEF Init, ToolsInit, ToolsTyped
<1>4. InboundTyped
  BY DEF Init, InboundTyped, AccountsInit, Delivery, NoDelivery, Route, NoRoute
<1>5. WaitsSound
  BY NothingTyped, UsersTyped DEF Init, ToolsInit, AccountsInit, WaitsSound, Attached
<1> QED  BY <1>1, <1>2, <1>3, <1>4, <1>5 DEF TypeInv

\* What a tool's step changes of a run's call.
LEMMA CallTyped ==
    ASSUME ToolsTyped, NEW c \in Callers
    PROVE  /\ call[c] \in Call
           /\ \A pc \in {"attach", "resolve", "token", "refused"} :
                 [call[c] EXCEPT !.pc = pc] \in Call
  BY DEF ToolsTyped, Call

LEMMA CallMoved ==
    ASSUME TypeInv, NEW c \in Callers, NEW k \in Call, Goes(c, k), NoAccountStep,
           UNCHANGED <<user, pin, file, check, delivery, route, unread, serving, cast>>,
           call[c].pc # "token" \/ user[c].pc \in {"idle", "failed"},
           \/ k.pc \notin {"idle", "build", "serving"}
           \/ call[c].pc \in {"idle", "build", "serving"}
    PROVE  TypeInv' /\ HandlersEvolve /\ RowsEvolve
<1>1. IssuedGrows /\ RowsEvolve
  BY AccountsUntouched DEF TypeInv
<1>2. AccountsInv'
  BY <1>1, HandlersUnmoved, AccountsUntouched DEF TypeInv, AccountsInv
<1>3. /\ call' \in [Callers -> Call]
      /\ \A d \in Callers : call'[d] = IF d = c THEN k ELSE call[d]
  BY DEF TypeInv, ToolsTyped, Goes
<1>4. WaitsSound'
  BY <1>3 DEF TypeInv, WaitsSound, Attached
<1> QED
  BY <1>1, <1>2, <1>3, <1>4
  DEF TypeInv, ToolsTyped, InboundTyped, ChecksSound, HandlersEvolve

\* The step of a file that changes no token.
LEMMA FileMoved ==
    ASSUME TypeInv, NEW a \in Attachments, NEW how, Fetches(a, how), NoAccountStep,
           how \in {"site", "download", "fetched", "failed"},
           file[a] \in Fetching,
           UNCHANGED <<pin, call, check, delivery, route, unread, serving, cast>>,
           NEW h, user' = [user EXCEPT ![a] = h], HandlerSound(h, issued'),
           h.pc \in {"idle", "failed"}
    PROVE  TypeInv' /\ RowsEvolve
<1>1. IssuedGrows /\ RowsEvolve /\ a \in Users
  BY AccountsUntouched, UsersTyped DEF TypeInv
<1>2. AccountsInv'
  BY <1>1, HandlerMoved, AccountsUntouched DEF TypeInv, AccountsInv
<1>3. /\ file' \in [Attachments -> {"none", "fetched", "failed"} \cup Fetching]
      /\ \A b \in Attachments : file'[b] = IF b = a THEN how ELSE file[b]
  BY DEF TypeInv, ToolsTyped, Fetches, Fetching
<1>4. \A u \in Users : user'[u] = IF u = a THEN h ELSE user[u]
  BY DEF TypeInv, AccountsInv, HandlersSound
<1>5. WaitsSound'
  <2>1. \A c \in Checks : user'[c] = user[c]
    BY <1>4, UsersTyped
  <2>2. \A c \in Callers : user'[c] = user[c]
    BY <1>4, UsersTyped
  <2>3. \A b \in Attachments : user'[b] = IF b = a THEN h ELSE user[b]
    BY <1>4, UsersTyped
  <2>4. \A b \in Attachments : file[b] = "none" => file'[b] = "none"
    BY <1>3 DEF Fetching
  <2> QED  BY <1>3, <2>1, <2>2, <2>3, <2>4 DEF TypeInv, WaitsSound, Attached
<1> QED
  BY <1>1, <1>2, <1>3, <1>5
  DEF TypeInv, ToolsTyped, InboundTyped, ChecksSound

LEMMA LoadTyped ==
    ASSUME TypeInv, NEW c \in Callers, Load(c),
           UNCHANGED <<check, delivery, route, unread, serving, cast>>
    PROVE  TypeInv' /\ HandlersEvolve /\ RowsEvolve
<1> DEFINE pinned == IF pin[c] = None THEN 0 ELSE integrations[pin[c]].row
           k == [NoCall EXCEPT !.pc = "build", !.pinned = pinned]
<1>1. pinned \in Numbers
  BY BoundsTyped DEF TypeInv, ToolsTyped, AccountsInv, RowsSound, Row
<1> HIDE DEF pinned
<1>2. k \in Call /\ k.pc = "build"
  BY <1>1, BoundsTyped DEF NoCall, Call
<1>3. Goes(c, k)
  BY DEF Load, pinned
<1>4. NoAccountStep /\ UNCHANGED <<user, pin, file>> /\ call[c].pc = "idle"
  BY DEF Load
<1> HIDE DEF k
<1> QED  BY <1>2, <1>3, <1>4, CallMoved

LEMMA BuildServerTyped ==
    ASSUME TypeInv, NEW c \in Callers, BuildServer(c),
           UNCHANGED <<check, delivery, route, unread, serving, cast>>
    PROVE  TypeInv' /\ HandlersEvolve /\ RowsEvolve
<1>1. call[c] \in Call /\ call[c].pc = "build" /\ NoAccountStep /\ UNCHANGED <<user, pin, file>>
  BY CallTyped DEF TypeInv, BuildServer
<1>2. PICK k : Goes(c, k) /\ k \in Call /\ k.pc = "serving"
  <2>1. [call[c] EXCEPT !.pc = "serving"] \in Call
    BY <1>1 DEF Call
  <2>2. \A n \in Names : [call[c] EXCEPT !.pc = "serving", !.provider = ProviderOf[n]] \in Call
    BY <1>1 DEF Call
  <2> QED  BY <1>1, <2>1, <2>2 DEF BuildServer, Call
<1> QED  BY <1>1, <1>2, CallMoved

LEMMA NoTokenTyped ==
    ASSUME TypeInv, NEW c \in Callers, NoToken(c),
           UNCHANGED <<check, delivery, route, unread, serving, cast>>
    PROVE  TypeInv' /\ HandlersEvolve /\ RowsEvolve
<1> DEFINE k == [call[c] EXCEPT !.pc = "refused"]
<1>1. k \in Call /\ k.pc = "refused"
  BY CallTyped DEF TypeInv, Call
<1>2. Goes(c, k)
  BY DEF NoToken, Refuses
<1> HIDE DEF k
<1> QED  BY <1>1, <1>2, CallMoved DEF NoToken

LEMMA JoinAttachmentsTyped ==
    ASSUME TypeInv, NEW c \in Callers, JoinAttachments(c),
           UNCHANGED <<check, delivery, route, unread, serving, cast>>
    PROVE  TypeInv' /\ HandlersEvolve /\ RowsEvolve
<1>1. PICK k : Goes(c, k) /\ k \in Call /\ k.pc \in {"resolve", "refused"}
  BY CallTyped DEF TypeInv, Call, JoinAttachments, Refuses
<1> QED  BY <1>1, CallMoved DEF JoinAttachments

LEMMA StartTyped ==
    ASSUME TypeInv, NEW c \in Callers, Start(c),
           UNCHANGED <<check, delivery, route, unread, serving, cast>>
    PROVE  TypeInv' /\ HandlersEvolve /\ RowsEvolve
<1>1. /\ call[c] \in Call /\ call[c].pc = "serving" /\ NoAccountStep
      /\ UNCHANGED <<user, pin>>
  BY CallTyped DEF TypeInv, Start
<1>2. \A tool \in ToolNames, pc \in {"attach", "resolve", "refused"} :
          /\ [call[c] EXCEPT !.tool = tool, !.pc = pc] \in Call
          /\ [call[c] EXCEPT !.tool = tool, !.pc = pc].pc = pc
  BY <1>1 DEF Call
<1>3. CASE StartMail(c)
  <2> DEFINE k == [call[c] EXCEPT !.tool = "send_email", !.pc = "attach"]
  <2>1. k \in Call /\ k.pc = "attach" /\ Goes(c, k)
    BY <1>2, <1>3 DEF StartMail, ToolNames
  <2> HIDE DEF k
  <2>2. /\ call' \in [Callers -> Call]
        /\ \A d \in Callers : call'[d] = IF d = c THEN k ELSE call[d]
    BY <2>1 DEF TypeInv, ToolsTyped, Goes
  <2>3. /\ file' \in [Attachments -> {"none", "fetched", "failed"} \cup Fetching]
        /\ \A a \in Attachments : file'[a] = IF a \in Attached(c) THEN "seek" ELSE file[a]
    BY <1>3 DEF TypeInv, ToolsTyped, StartMail, Fetching
  <2>4. AccountsInv' /\ RowsEvolve
    BY <1>1, HandlersUnmoved, AccountsUntouched DEF TypeInv, AccountsInv
  <2>5. \A a \in Attached(c) : file[a] = "none" /\ a \in Attachments
    BY <1>1 DEF TypeInv, WaitsSound, Attached
  <2>6. WaitsSound'
    <3>1. \A d \in Callers : call'[d].pc # "token" => user'[d].pc \in {"idle", "failed"}
      BY <1>1, <2>1, <2>2 DEF TypeInv, WaitsSound
    <3>2. ASSUME NEW d \in Callers, call'[d].pc \in {"idle", "build", "serving"},
                 NEW a \in Attached(d)
          PROVE  file'[a] = "none"
      <4>1. d # c /\ call'[d] = call[d]
        BY <2>1, <2>2, <3>2
      <4>2. a \notin Attached(c) /\ a \in Attachments
        BY <4>1 DEF Attached
      <4>3. file[a] = "none"
        BY <3>2, <4>1 DEF TypeInv, WaitsSound
      <4> QED  BY <2>3, <4>2, <4>3
    <3>3. \A a \in Attachments : file'[a] # "token" => user'[a].pc \in {"idle", "failed"}
      BY <1>1, <2>3, <2>5 DEF TypeInv, WaitsSound
    <3> QED  BY <1>1, <3>1, <3>2, <3>3 DEF TypeInv, WaitsSound, Attached
  <2> QED
    BY <1>1, <2>2, <2>3, <2>4, <2>6
    DEF TypeInv, ToolsTyped, InboundTyped, ChecksSound, HandlersEvolve
<1>4. CASE ~StartMail(c)
  <2>1. UNCHANGED file
    BY <1>4 DEF Start, StartSlack, StartTeams, StartAvailability, StartEvent
  <2>2. PICK k : Goes(c, k) /\ k \in Call /\ k.pc \in {"resolve", "refused"}
    BY <1>2, <1>4
    DEF Start, StartSlack, StartTeams, StartAvailability, StartEvent, ToolNames
  <2> QED  BY <1>1, <2>1, <2>2, CallMoved
<1> QED  BY <1>3, <1>4

\* A call that waits for a token of an account that is connected.
LEMMA ResolveTyped ==
    ASSUME TypeInv, NEW c \in Callers, Resolve(c),
           UNCHANGED <<check, delivery, route, unread, serving, cast>>
    PROVE  TypeInv' /\ RowsEvolve
<1>1. /\ call[c].pc = "resolve" /\ NoAccountStep /\ UNCHANGED <<pin, file>>
      /\ c \in Users
  BY UsersTyped DEF Resolve
<1>2. \A n \in Candidates(call[c]) : n \in Names /\ IsConnected(n)
  BY BoundsTyped DEF Candidates, DefaultFor, DefaultEmail, DefaultOf, Earliest, OfProvider,
     IsConnected, PinnedFor
<1>3. CASE ResolveNone(c)
  <2> DEFINE k == [call[c] EXCEPT !.pc = "refused"]
  <2>1. k \in Call /\ k.pc = "refused" /\ Goes(c, k) /\ UNCHANGED user
    BY <1>3, CallTyped DEF TypeInv, Call, ResolveNone, Refuses
  <2> HIDE DEF k
  <2> QED  BY <1>1, <2>1, CallMoved
<1>4. CASE ~ResolveNone(c)
  <2>1. PICK h : With(c, h) /\ HandlerSound(h, issued)
    <3>1. CASE ResolveEmail(c)
      BY <1>2, <3>1, TokenSound DEF ResolveEmail, TypeInv
    <3>2. CASE ResolveSlack(c)
      <4>1. PICK n \in Candidates(call[c]) :
                With(c, [NoUser EXCEPT !.pc = "ready", !.name = n,
                                       !.row = integrations[n].row])
        BY <3>2 DEF ResolveSlack
      <4> DEFINE h == [NoUser EXCEPT !.pc = "ready", !.name = n, !.row = integrations[n].row]
      <4>2. n \in Names /\ integrations[n] \in Row
        BY <1>2 DEF TypeInv, AccountsInv, RowsSound
      <4>3. h \in User /\ h.pc = "ready" /\ h.name = n
        BY <4>2, NothingTyped DEF User, Row
      <4> HIDE DEF h
      <4>4. HandlerSound(h, issued)
        BY <4>2, <4>3 DEF HandlerSound
      <4> QED  BY <4>1, <4>4 DEF h
    <3>3. CASE ResolveMicrosoft(c)
      BY <1>2, <3>3, TokenSound DEF ResolveMicrosoft, TypeInv
    <3> QED  BY <1>4, <3>1, <3>2, <3>3 DEF Resolve
  <2>2. HandlerSound(h, issued')
    BY <1>1, <2>1 DEF NoAccountStep
  <2>3. AccountsInv' /\ RowsEvolve
    BY <1>1, <2>1, <2>2, HandlerMoved, AccountsUntouched DEF TypeInv, AccountsInv, With
  <2>4. /\ call' \in [Callers -> Call]
        /\ \A d \in Callers : d # c => call'[d] = call[d]
        /\ call'[c].pc = "token"
    <3>1. [call[c] EXCEPT !.pc = "token"] \in Call
      BY CallTyped DEF TypeInv
    <3> QED  BY <2>1, <3>1, CallTyped DEF TypeInv, ToolsTyped, With, Goes, Call
  <2>5. \A u \in Users : u # c => user'[u] = user[u]
    BY <1>1, <2>1 DEF TypeInv, AccountsInv, HandlersSound, With
  <2>6. WaitsSound'
    BY <1>1, <2>4, <2>5, UsersTyped DEF TypeInv, WaitsSound, Attached
  <2> QED
    BY <1>1, <2>3, <2>4, <2>6 DEF TypeInv, ToolsTyped, InboundTyped, ChecksSound
<1> QED  BY <1>3, <1>4

LEMMA ActTyped ==
    ASSUME TypeInv, NEW c \in Callers, Act(c),
           UNCHANGED <<check, delivery, route, unread, serving, cast>>
    PROVE  TypeInv' /\ RowsEvolve
<1>1. /\ call[c].pc = "token" /\ NoAccountStep /\ UNCHANGED <<pin, file>>
      /\ c \in Users /\ user' = [user EXCEPT ![c] = NoUser]
  BY UsersTyped DEF Act
<1>2. PICK k : Goes(c, k) /\ k \in Call /\ k.pc \in {"done", "refused"}
  <2>1. call[c] \in Call /\ user[c] \in User
    BY <1>1 DEF TypeInv, ToolsTyped, AccountsInv, HandlersSound
  <2>2. /\ [call[c] EXCEPT !.pc = "done", !.name = user[c].name, !.row = user[c].row] \in Call
        /\ [call[c] EXCEPT !.pc = "refused"] \in Call
    BY <2>1 DEF Call, User
  <2> QED
    BY <2>1, <2>2
    DEF Act, SendMessage, PostSlack, PostTeams, FindTimes, CreateEvent, Answered, Refuses, Call
<1>3. HandlerSound(NoUser, issued')
  BY NothingSound
<1>4. AccountsInv' /\ RowsEvolve
  BY <1>1, <1>3, HandlerMoved, AccountsUntouched DEF TypeInv, AccountsInv
<1>5. /\ call' \in [Callers -> Call]
      /\ \A d \in Callers : call'[d] = IF d = c THEN k ELSE call[d]
  BY <1>2 DEF TypeInv, ToolsTyped, Goes
<1>6. \A u \in Users : user'[u] = IF u = c THEN NoUser ELSE user[u]
  BY <1>1 DEF TypeInv, AccountsInv, HandlersSound
<1>7. WaitsSound'
  BY <1>1, <1>2, <1>5, <1>6, UsersTyped, NothingTyped DEF TypeInv, WaitsSound, Attached
<1> QED
  BY <1>1, <1>4, <1>5, <1>7 DEF TypeInv, ToolsTyped, InboundTyped, ChecksSound

LEMMA SeekTyped ==
    ASSUME TypeInv, NEW a \in Attachments, Seek(a),
           UNCHANGED <<check, delivery, route, unread, serving, cast>>
    PROVE  TypeInv' /\ RowsEvolve
<1>1. NoAccountStep /\ UNCHANGED <<pin, call>> /\ file[a] = "seek" /\ a \in Users
  BY UsersTyped DEF Seek
<1>2. CASE Fetches(a, "failed") /\ UNCHANGED user
  <2>1. /\ user' = [user EXCEPT ![a] = user[a]]
        /\ HandlerSound(user[a], issued')
        /\ user[a].pc \in {"idle", "failed"}
    BY <1>1, <1>2 DEF TypeInv, AccountsInv, HandlersSound, WaitsSound, NoAccountStep
  <2> QED  BY <1>1, <1>2, <2>1, FileMoved DEF Fetching
<1>3. CASE \E n \in DefaultOf(StorageOf[a]) :
               Fetches(a, "token") /\ user' = [user EXCEPT ![a] = TokenOf(n)]
  <2>1. PICK n \in DefaultOf(StorageOf[a]) :
               Fetches(a, "token") /\ user' = [user EXCEPT ![a] = TokenOf(n)]
    BY <1>3
  <2>2. n \in Names /\ IsConnected(n)
    BY DEF DefaultOf, Earliest, OfProvider
  <2>3. HandlerSound(TokenOf(n), issued')
    BY <1>1, <2>2, TokenSound DEF TypeInv, NoAccountStep
  <2>4. AccountsInv' /\ RowsEvolve
    BY <1>1, <2>1, <2>3, HandlerMoved, AccountsUntouched DEF TypeInv, AccountsInv
  <2>5. /\ file' \in [Attachments -> {"none", "fetched", "failed"} \cup Fetching]
        /\ \A b \in Attachments : file'[b] = IF b = a THEN "token" ELSE file[b]
    BY <2>1 DEF TypeInv, ToolsTyped, Fetches, Fetching
  <2>6. \A u \in Users : u # a => user'[u] = user[u]
    BY <1>1, <2>1 DEF TypeInv, AccountsInv, HandlersSound
  <2>7. \A b \in Attachments : file[b] = "none" => file'[b] = "none"
    BY <1>1, <2>5
  <2>8. WaitsSound'
    <3>1. \A c \in Checks : user'[c] = user[c]
      BY <2>6, UsersTyped
    <3>2. \A c \in Callers : user'[c] = user[c]
      BY <2>6, UsersTyped
    <3>3. \A b \in Attachments : b # a => user'[b] = user[b]
      BY <2>6, UsersTyped
    <3> QED  BY <1>1, <2>5, <2>7, <3>1, <3>2, <3>3 DEF TypeInv, WaitsSound, Attached
  <2> QED
    BY <1>1, <2>4, <2>5, <2>8 DEF TypeInv, ToolsTyped, InboundTyped, ChecksSound
<1> QED  BY <1>2, <1>3 DEF Seek

LEMMA ReachTyped ==
    ASSUME TypeInv, NEW a \in Attachments, Reach(a),
           UNCHANGED <<check, delivery, route, unread, serving, cast>>
    PROVE  TypeInv' /\ RowsEvolve
<1>1. /\ NoAccountStep /\ UNCHANGED <<pin, call>> /\ file[a] = "token" /\ a \in Users
      /\ user[a].pc \in {"ready", "failed"}
  BY UsersTyped DEF Reach
<1>2. PICK how : Fetches(a, how) /\ how \in {"site", "download", "failed"}
  BY DEF Reach
<1> DEFINE h == IF user[a].pc = "ready" THEN NoUser ELSE user[a]
<1>3. user' = [user EXCEPT ![a] = h]
  BY DEF Reach
<1>4. HandlerSound(h, issued') /\ h.pc \in {"idle", "failed"}
  BY <1>1, NothingSound, NothingTyped DEF TypeInv, AccountsInv, HandlersSound, NoAccountStep
<1> HIDE DEF h
<1> QED  BY <1>1, <1>2, <1>3, <1>4, FileMoved DEF Fetching

LEMMA FetchTyped ==
    ASSUME TypeInv, NEW a \in Attachments, FindSite(a) \/ Download(a),
           UNCHANGED <<check, delivery, route, unread, serving, cast>>
    PROVE  TypeInv' /\ RowsEvolve
<1>1. /\ NoAccountStep /\ UNCHANGED <<user, pin, call>>
      /\ file[a] \in {"site", "download"} /\ a \in Users
  BY UsersTyped DEF FindSite, Download
<1>2. PICK how : Fetches(a, how) /\ how \in {"download", "fetched", "failed"}
  BY DEF FindSite, Download
<1>3. /\ user' = [user EXCEPT ![a] = user[a]]
      /\ HandlerSound(user[a], issued')
      /\ user[a].pc \in {"idle", "failed"}
  BY <1>1 DEF TypeInv, AccountsInv, HandlersSound, WaitsSound, NoAccountStep
<1> QED  BY <1>1, <1>2, <1>3, FileMoved DEF Fetching

LEMMA ToolsNextTyped ==
    ASSUME TypeInv, ToolsNext, UNCHANGED <<check, delivery, route, unread, serving, cast>>
    PROVE  TypeInv' /\ RowsEvolve
  BY LoadTyped, BuildServerTyped, StartTyped, JoinAttachmentsTyped, ResolveTyped,
     NoTokenTyped, ActTyped, SeekTyped, ReachTyped, FetchTyped
  DEF ToolsNext

\* A step of the accounts leaves every handler where its waiting holds it.
LEMMA AccountStepTyped ==
    ASSUME TypeInv, AccountStep, UNCHANGED cast
    PROVE  TypeInv' /\ RowsEvolve /\ IssuedGrows /\ HandlersEvolve
<1>1. /\ AccountsNext /\ PinsKept /\ UNCHANGED <<call, file>>
      /\ UNCHANGED <<unread, serving, check, delivery, route, ran, excused>>
  BY DEF AccountStep, inboundVars
<1>2. AccountsInv' /\ RowsEvolve /\ IssuedGrows /\ HandlersEvolve
  BY <1>1, AccountsKept DEF TypeInv
<1>3. ToolsTyped'
  BY <1>1 DEF TypeInv, ToolsTyped, PinsKept
<1>4. WaitsSound'
  <2>1. \A u \in Users : user[u].pc \in {"idle", "failed"} => user'[u] = user[u]
    BY <1>2 DEF HandlersEvolve
  <2> QED  BY <1>1, <2>1, UsersTyped DEF TypeInv, WaitsSound, Attached
<1> QED  BY <1>1, <1>2, <1>3, <1>4 DEF TypeInv, ChecksSound, InboundTyped

\* A message is routed without a word to the accounts.
LEMMA RoutingTyped ==
    ASSUME TypeInv, NEW h \in Handlers, Dispatch(h), UNCHANGED cast
    PROVE  TypeInv'
<1>1. /\ UNCHANGED <<integrations, lastRow, issued, cookie, tab, creator, user, removing,
                     crossed, unread, serving, check, delivery, pin, call, file>>
      /\ route[h] \in Route
  BY DEF Dispatch, accountVars, toolVars, TypeInv, InboundTyped
<1>2. AccountsInv'
  BY <1>1
  DEF TypeInv, AccountsInv, RowsSound, TabsSound, CreatorsSound, HandlersSound, IsConnected
<1>3. \E r \in Route : Routing(h, r)
  <2>1. CASE FindWorkflow(h)
    <3> DEFINE r == [NoRoute EXCEPT
                        !.pc = IF serving = {} THEN "no_workflow" ELSE "provider",
                        !.handlers = serving]
    <3>1. r \in Route
      BY DEF TypeInv, InboundTyped, Route, NoRoute
    <3> QED  BY <2>1, <3>1 DEF FindWorkflow
  <2>2. CASE GetProvider(h)
    BY <1>1, <2>2 DEF GetProvider, Route, NoRoute
  <2>3. CASE Choose(h)
    <3>1. [route[h] EXCEPT !.pc = "classify", !.asked = TRUE] \in Route
      BY <1>1 DEF Route
    <3>2. \A a \in route[h].handlers : [route[h] EXCEPT !.pc = "run", !.agent = a] \in Route
      BY <1>1 DEF Route
    <3> DEFINE certain == IF Cardinality(route[h].handlers) = 1 THEN route[h].handlers
                          ELSE KeywordMatch(h)
    <3>3. certain \subseteq route[h].handlers
      BY DEF KeywordMatch
    <3> QED  BY <2>3, <3>1, <3>2, <3>3 DEF Choose
  <2>4. CASE Classify(h)
    <3>1. \A a \in route[h].handlers : [route[h] EXCEPT !.pc = "run", !.agent = a] \in Route
      BY <1>1 DEF Route
    <3>2. [route[h] EXCEPT !.pc = "no_match"] \in Route
      BY <1>1 DEF Route
    <3>3. [NoRoute EXCEPT !.pc = "threw"] \in Route
      BY DEF Route, NoRoute
    <3> QED  BY <2>4, <3>1, <3>2, <3>3 DEF Classify
  <2>5. CASE Run(h)
    <3>1. [route[h] EXCEPT !.pc = "matched"] \in Route
      BY <1>1 DEF Route
    <3>2. [NoRoute EXCEPT !.pc = "threw"] \in Route
      BY DEF Route, NoRoute
    <3> QED  BY <2>5, <3>1, <3>2 DEF Run
  <2> QED  BY <2>1, <2>2, <2>3, <2>4, <2>5 DEF Dispatch
<1>4. InboundTyped'
  BY <1>1, <1>3 DEF TypeInv, InboundTyped, Routing
<1> QED
  BY <1>1, <1>2, <1>4 DEF TypeInv, ChecksSound, ToolsTyped, WaitsSound, Attached

LEMMA DeliveriesTyped ==
    ASSUME TypeInv, NEW d \in Deliveries, Deliver(d) \/ Answer(d) \/ GiveUp(d),
           UNCHANGED cast
    PROVE  TypeInv'
<1>1. /\ UNCHANGED <<integrations, lastRow, issued, cookie, tab, creator, user, removing,
                     crossed, unread, serving, check, pin, call, file>>
      /\ delivery[d] \in Delivery
  BY DEF Deliver, Answer, GiveUp, DeliveryStep, accountVars, toolVars, TypeInv, InboundTyped
<1>2. AccountsInv'
  BY <1>1
  DEF TypeInv, AccountsInv, RowsSound, TabsSound, CreatorsSound, HandlersSound, IsConnected
<1>3. \E k \in Delivery : delivery' = [delivery EXCEPT ![d] = k]
  <2>1. CASE Deliver(d)
    BY <2>1 DEF Deliver, DeliveryStep, Delivery, NoDelivery
  <2>2. CASE Answer(d)
    <3>1. AnswerTo(route[d].pc) \in {"matched", "unmatched", "error"}
      BY <2>2 DEF Answer, AnswerTo
    <3>2. [delivery[d] EXCEPT !.pc = "answered", !.answer = AnswerTo(route[d].pc)] \in Delivery
      BY <1>1, <3>1 DEF Delivery
    <3> QED  BY <2>2, <3>2 DEF Answer, DeliveryStep
  <2>3. CASE GiveUp(d)
    BY <1>1, <2>3 DEF GiveUp, DeliveryStep, Delivery
  <2> QED  BY <2>1, <2>2, <2>3
<1>4. route' \in [Handlers -> Route]
  <2>1. NoRoute \in Route /\ [NoRoute EXCEPT !.pc = "workflow"] \in Route
    BY DEF NoRoute, Route
  <2>2. \E r \in Route : route' = route \/ Routing(d, r)
    BY <2>1 DEF Deliver, Answer, GiveUp
  <2> QED  BY <2>2 DEF Routing, TypeInv, InboundTyped
<1>5. delivery' \in [Deliveries -> Delivery]
  BY <1>3 DEF TypeInv, InboundTyped
<1> QED
  BY <1>1, <1>2, <1>4, <1>5
  DEF TypeInv, ChecksSound, ToolsTyped, WaitsSound, Attached, InboundTyped

\* What each step of a check makes of it.
LEMMA ChecksGo ==
    ASSUME TypeInv, NEW c \in Checks, CheckNext(c)
    PROVE  /\ user[c].pc # "store"
           /\ \E k : CheckSound(k) /\ Go(c, k)
<1> DEFINE k == check[c]
<1>1. Listed(k) /\ k \in Check /\ CheckSound(k)
  BY DEF TypeInv, ChecksSound, CheckSound, Listed
<1>2. CASE StartCheck(c)
  <2>1. CheckSound([NoCheck EXCEPT !.pc = "start"])
    BY DEF CheckSound, Listed, Check, NoCheck
  <2> QED  BY <1>2, <2>1 DEF StartCheck, TypeInv, WaitsSound
<1>3. CASE FindAccounts(c)
  <2> DEFINE found == {<<n, integrations[n].row>> :
                          n \in UNION {DefaultOf(p) : p \in EmailProviders}}
             with == [k EXCEPT !.accounts = found]
  <2>1. \A n \in UNION {DefaultOf(p) : p \in EmailProviders} :
            n \in Names /\ integrations[n].row \in Numbers /\ integrations[n].row # 0
    BY DEF DefaultOf, Earliest, OfProvider, IsConnected, TypeInv, AccountsInv, RowsSound, Row
  <2>2. found \subseteq Account /\ \A a \in found : a[2] # 0
    BY <2>1 DEF Account
  <2>3. check[c].pc = "start" /\ Go(c, IF found = {} THEN Thrown(k) ELSE Onward(with))
    BY <1>3 DEF FindAccounts
  <2> HIDE DEF found
  <2>4. Listed(with)
    BY <1>1, <2>2 DEF Listed, Check
  <2>5. CheckSound(Onward(with)) /\ CheckSound(Thrown(k))
    BY <1>1, <2>4, OnwardSound, ThrownSound
  <2> QED  BY <2>3, <2>5 DEF TypeInv, WaitsSound
<1>4. CASE WithoutToken(c)
  BY <1>1, <1>4, ThrownSound DEF WithoutToken
<1>5. CASE FindFolder(c)
  <2>1. CheckSound([k EXCEPT !.pc = "list"])
    BY <1>1, <1>5 DEF CheckSound, Listed, Check, FindFolder
  <2> QED  BY <1>1, <1>5, <2>1, ThrownSound DEF FindFolder
<1>6. CASE ListUnread(c)
  <2> DEFINE page == Page(k.account[1])
             box == Inbox(k.account[1])
             due == k.due \cup (IF page = box THEN box ELSE {})
             with == [k EXCEPT !.queue = page, !.due = due]
  <2>1. page \subseteq Mails /\ due \subseteq Mails
    BY <1>1 DEF Page, Inbox, TypeInv, InboundTyped, Check
  <2>2. user[c].pc # "store" /\ (Go(c, Onward(with)) \/ Go(c, Thrown(k)))
    BY <1>6 DEF ListUnread, TypeInv, WaitsSound
  <2> HIDE DEF page, due
  <2>3. Listed(with)
    BY <1>1, <2>1 DEF Listed, Check
  <2> QED  BY <1>1, <2>2, <2>3, OnwardSound, ThrownSound
<1>7. CASE GetMessage(c)
  <2>1. CheckSound([k EXCEPT !.pc = "dispatch"])
    BY <1>1, <1>7 DEF CheckSound, Listed, Check, GetMessage
  <2> QED  BY <1>1, <1>7, <2>1, ThrownSound DEF GetMessage, TypeInv, WaitsSound
<1>8. CASE MarkRead(c)
  <2> DEFINE with == [k EXCEPT !.processed = @ \cup {k.mail}]
  <2>1. check[c].pc = "dispatch" /\ (Go(c, Onward(with)) \/ Go(c, Thrown(k)))
    BY <1>8 DEF MarkRead
  <2>2. k.mail \in Mails
    BY <1>1, <2>1 DEF CheckSound, Check
  <2>3. Listed(with)
    BY <1>1, <2>2 DEF Listed, Check
  <2> QED  BY <1>1, <2>1, <2>3, OnwardSound, ThrownSound DEF TypeInv, WaitsSound
<1>9. CASE Skip(c)
  <2> DEFINE with == [k EXCEPT !.skipped = @ \cup {k.mail}]
  <2>1. check[c].pc = "dispatch" /\ Go(c, Onward(with))
    BY <1>9 DEF Skip
  <2>2. k.mail \in Mails
    BY <1>1, <2>1 DEF CheckSound, Check
  <2>3. Listed(with)
    BY <1>1, <2>2 DEF Listed, Check
  <2> QED  BY <1>1, <2>1, <2>3, OnwardSound DEF TypeInv, WaitsSound
<1>10. CASE Stop(c)
  <2>1. check[c].pc = "dispatch" /\ Go(c, Thrown(k))
    BY <1>10 DEF Stop, NoWorkflow
  <2> QED  BY <1>1, <2>1, ThrownSound DEF TypeInv, WaitsSound
<1> QED  BY <1>2, <1>3, <1>4, <1>5, <1>6, <1>7, <1>8, <1>9, <1>10 DEF CheckNext

LEMMA CheckNextTyped ==
    ASSUME TypeInv, NEW c \in Checks, CheckNext(c), UNCHANGED cast
    PROVE  TypeInv'
<1>1. PICK k : CheckSound(k) /\ Go(c, k)
  BY ChecksGo
<1>2. AccountsInv' /\ ChecksSound' /\ ToolsTyped' /\ WaitsSound' /\ UNCHANGED <<serving, delivery>>
  BY <1>1, GoSound
<1>3. unread' \subseteq Mails
  BY DEF CheckNext, StartCheck, FindAccounts, WithoutToken, FindFolder, ListUnread,
     GetMessage, MarkRead, Skip, Stop, Marked, TypeInv, InboundTyped
<1>4. route' \in [Handlers -> Route]
  <2>1. NoRoute \in Route /\ [NoRoute EXCEPT !.pc = "workflow"] \in Route
    BY DEF NoRoute, Route
  <2>2. \E r \in Route : route' = route \/ Routing(c, r)
    BY <2>1 DEF CheckNext, StartCheck, FindAccounts, WithoutToken, FindFolder, ListUnread,
       GetMessage, MarkRead, Skip, Stop
  <2> QED  BY <2>2 DEF Routing, TypeInv, InboundTyped
<1> QED  BY <1>2, <1>3, <1>4 DEF TypeInv, InboundTyped

LEMMA TypesStay == TypeInv /\ [Next]_vars => TypeInv'
<1> SUFFICES ASSUME TypeInv, [Next]_vars  PROVE TypeInv'
  OBVIOUS
<1>1. CASE UNCHANGED vars
  BY <1>1
  DEF vars, accountVars, toolVars, inboundVars, TypeInv, AccountsInv, RowsSound, TabsSound,
      CreatorsSound, HandlersSound, IsConnected, ChecksSound, ToolsTyped, InboundTyped,
      WaitsSound, Attached
<1>2. ASSUME Next  PROVE TypeInv'
  <2>1. CASE AccountStep
    BY <1>2, <2>1, AccountStepTyped DEF Next
  <2>2. CASE \E h \in Handlers : Dispatch(h)
    BY <1>2, <2>2, RoutingTyped DEF Next
  <2>3. CASE Reconfigure
    <3>1. serving' \subseteq Agents
      BY <2>3, InboundAssumption DEF Reconfigure
    <3> QED
      BY <1>2, <2>3, <3>1
      DEF Next, Reconfigure, accountVars, toolVars, TypeInv, AccountsInv, RowsSound,
          TabsSound, CreatorsSound, HandlersSound, IsConnected, ChecksSound, ToolsTyped,
          InboundTyped, WaitsSound, Attached
  <2>4. CASE \E c \in Checks : CheckNext(c)
    BY <1>2, <2>4, CheckNextTyped DEF Next
  <2>5. CASE \E d \in Deliveries : Deliver(d) \/ Answer(d) \/ GiveUp(d)
    BY <1>2, <2>5, DeliveriesTyped DEF Next
  <2>6. CASE ToolsNext /\ UNCHANGED inboundVars
    BY <1>2, <2>6, ToolsNextTyped DEF Next, inboundVars
  <2> QED  BY <1>2, <2>1, <2>2, <2>3, <2>4, <2>5, <2>6 DEF Next
<1> QED  BY <1>1, <1>2

LEMMA TypesAlways == Spec => []TypeInv
  BY TypesStart, TypesStay, PTL DEF Spec

LEMMA TypesRight == TypeInv => TypeOK
  BY DEF TypeInv, AccountsInv, RowsSound, TabsSound, CreatorsSound, HandlersSound,
     ChecksSound, CheckSound, Listed, ToolsTyped, InboundTyped, TypeOK, ToolsTypeOK

-----------------------------------------------------------------------------
(* The attempts of other providers, and the creations of other names, leave *)
(* an account alone.                                                        *)

\* An attempt without a rival has its provider's cookie, and its provider.
OwnCookie ==
    \A t \in Tabs :
        /\ tab[t].pc = "refused" => tab[t].rival
        /\ tab[t].pc = "consent" /\ ~tab[t].rival =>
              /\ cookie[tab[t].provider] = t
              /\ \A s \in Tabs \ {t} :
                    tab[s].pc = "consent" => tab[s].provider # tab[t].provider

\* A creation without a rival has its name, and its secret is the account's
\* while the row it created is there.
OwnSecret ==
    \A c \in Creators :
        LET k == creator[c]
        IN  /\ k.pc = "create" /\ ~k.rival =>
                  \A d \in Creators \ {c} : creator[d].pc = "create" => creator[d].name # k.name
            /\ k.pc = "shown" /\ ~k.rival /\ integrations[k.name].row = k.row =>
                  /\ integrations[k.name].credential = k.secret
                  /\ \A d \in Creators : creator[d].pc = "create" => creator[d].name # k.name

OwnInv == TypeInv /\ OwnCookie /\ OwnSecret

LEMMA OwnStart == Init => OwnInv
  BY TypesStart, NothingTyped DEF OwnInv, OwnCookie, OwnSecret, Init, AccountsInit

\* Whatever is no step of the accounts changes handlers, and calls, only.
LEMMA OthersLeave ==
    ASSUME TypeInv, Next
    PROVE  \/ AccountStep
           \/ NoAccountStep
<1>1. CASE \E h \in Handlers : Dispatch(h)
  BY <1>1 DEF Dispatch, accountVars, NoAccountStep
<1>2. CASE Reconfigure
  BY <1>2 DEF Reconfigure, accountVars, NoAccountStep
<1>3. CASE \E c \in Checks : CheckNext(c)
  BY <1>3, ChecksGo, GoSound
<1>4. CASE \E d \in Deliveries : Deliver(d) \/ Answer(d) \/ GiveUp(d)
  BY <1>4 DEF Deliver, Answer, GiveUp, DeliveryStep, accountVars, NoAccountStep
<1>5. CASE ToolsNext
  BY <1>5
  DEF ToolsNext, Load, BuildServer, Start, JoinAttachments, Resolve, NoToken, Act, Seek,
      Reach, FindSite, Download
<1> QED  BY <1>1, <1>2, <1>3, <1>4, <1>5 DEF Next

LEMMA CookiesUntouched ==
    ASSUME TypeInv, OwnCookie, cookie' = cookie,
           \/ tab' = tab
           \/ \E t \in Tabs : \E k : tab' = [tab EXCEPT ![t] = k] /\ k.pc \notin {"consent", "refused"}
    PROVE  OwnCookie'
<1>1. CASE tab' = tab
  BY <1>1 DEF OwnCookie
<1>2. CASE \E t \in Tabs : \E k : tab' = [tab EXCEPT ![t] = k] /\ k.pc \notin {"consent", "refused"}
  <2>1. PICK t \in Tabs : \E k : tab' = [tab EXCEPT ![t] = k] /\ k.pc \notin {"consent", "refused"}
    BY <1>2
  <2>2. PICK k : tab' = [tab EXCEPT ![t] = k] /\ k.pc \notin {"consent", "refused"}
    BY <2>1
  <2>3. \A s \in Tabs : tab'[s] = IF s = t THEN k ELSE tab[s]
    BY <2>2 DEF TypeInv, AccountsInv, TabsSound
  <2> QED  BY <2>2, <2>3 DEF OwnCookie
<1> QED  BY <1>1, <1>2

LEMMA StartConnectOwn ==
    ASSUME TypeInv, OwnCookie, NEW t \in Tabs, StartConnect(t)
    PROVE  OwnCookie'
<1>1. PICK p \in OAuthProviders \cap cast :
          LET rivals == {s \in Tabs \ {t} : tab[s].pc = "consent" /\ tab[s].provider = p}
          IN  /\ cookie' = [cookie EXCEPT ![CookieOf(p)] = t]
              /\ tab' = [s \in Tabs |->
                    CASE s = t -> [NoTab EXCEPT !.pc = "consent", !.provider = p,
                                                !.rival = rivals # {}]
                      [] s \in rivals -> [tab[s] EXCEPT !.rival = TRUE]
                      [] OTHER -> tab[s]]
  BY DEF StartConnect
<1> DEFINE rivals == {s \in Tabs \ {t} : tab[s].pc = "consent" /\ tab[s].provider = p}
           rival == rivals # {}
<1>2. \A q \in OAuthProviders : cookie'[q] = IF q = p THEN t ELSE cookie[q]
  BY <1>1 DEF CookieOf, TypeInv, AccountsInv
<1>3. tab'[t].pc = "consent" /\ tab'[t].provider = p /\ tab'[t].rival = rival
  <2>1. tab'[t] = [NoTab EXCEPT !.pc = "consent", !.provider = p, !.rival = rival]
    BY <1>1
  <2> HIDE DEF rival
  <2> QED  BY <2>1 DEF NoTab
<1>4. \A s \in Tabs \ {t} : /\ tab'[s].pc = tab[s].pc
                            /\ tab'[s].provider = tab[s].provider
                            /\ s \in rivals => tab'[s].rival
                            /\ s \notin rivals => tab'[s] = tab[s]
  <2>1. ASSUME NEW s \in Tabs \ {t}
        PROVE  tab'[s] = IF s \in rivals THEN [tab[s] EXCEPT !.rival = TRUE] ELSE tab[s]
    BY <1>1
  <2>2. \A s \in Tabs : tab[s] \in Tab
    BY DEF TypeInv, AccountsInv, TabsSound
  <2> HIDE DEF rivals
  <2> QED  BY <2>1, <2>2 DEF Tab
<1>5. ASSUME NEW s \in Tabs
      PROVE  /\ tab'[s].pc = "refused" => tab'[s].rival
             /\ tab'[s].pc = "consent" /\ ~tab'[s].rival =>
                   /\ cookie'[tab'[s].provider] = s
                   /\ \A r \in Tabs \ {s} :
                         tab'[r].pc = "consent" => tab'[r].provider # tab'[s].provider
  <2>1. CASE s = t
    <3>1. tab'[s].pc = "consent" /\ tab'[s].provider = p /\ cookie'[p] = t
      BY <1>2, <1>3, <2>1
    <3>2. ~tab'[s].rival => \A r \in Tabs \ {s} :
              ~(tab'[r].pc = "consent" /\ tab'[r].provider = p)
      BY <1>3, <1>4, <2>1
    <3> QED  BY <2>1, <3>1, <3>2
  <2>2. CASE s # t
    <3>1. CASE s \in rivals
      BY <1>4, <2>2, <3>1
    <3>2. CASE s \notin rivals
      <4>1. tab'[s] = tab[s]
        BY <1>4, <2>2, <3>2
      <4>2. tab[s].pc = "consent" => tab[s].provider # p /\ tab[s].provider \in OAuthProviders
        BY <2>2, <3>2 DEF TypeInv, AccountsInv, TabsSound, TabSound
      <4>3. tab[s].pc = "consent" /\ ~tab[s].rival => cookie'[tab[s].provider] = s
        BY <1>2, <4>2 DEF OwnCookie
      <4>4. \A r \in Tabs \ {s} : tab[s].pc = "consent" /\ ~tab[s].rival /\ tab'[r].pc = "consent"
                                  => tab'[r].provider # tab[s].provider
        BY <1>3, <1>4, <4>2 DEF OwnCookie
      <4>5. tab[s].pc = "refused" => tab[s].rival
        BY DEF OwnCookie
      <4> QED  BY <4>1, <4>3, <4>4, <4>5
    <3> QED  BY <3>1, <3>2
  <2> QED  BY <2>1, <2>2
<1> QED  BY <1>5 DEF OwnCookie

LEMMA CallbackOwn ==
    ASSUME TypeInv, OwnCookie, NEW t \in Tabs, Callback(t)
    PROVE  OwnCookie'
<1> DEFINE p == tab[t].provider
<1>1. /\ tab[t] \in Tab /\ tab[t].pc = "consent" /\ p \in OAuthProviders
      /\ cookie' = [cookie EXCEPT ![p] = None]
      /\ tab[t].rival \/ cookie[p] = t
  BY DEF Callback, CookieOf, TypeInv, AccountsInv, TabsSound, TabSound, OwnCookie
<1>2. PICK k : /\ tab' = [tab EXCEPT ![t] = k] /\ k.pc # "consent"
               /\ k.pc = "refused" => k.rival
  <2>1. CASE tab' = [tab EXCEPT ![t] = NoTab]
    BY <2>1, NothingTyped
  <2>2. CASE cookie[p] = t /\ tab' = [tab EXCEPT ![t].pc = "exchange"]
    <3> DEFINE k == [tab[t] EXCEPT !.pc = "exchange"]
    <3>1. k.pc = "exchange"
      BY <1>1 DEF Tab
    <3> QED  BY <2>2, <3>1
  <2>3. CASE cookie[p] # t /\ tab' = [tab EXCEPT ![t].pc = "refused"]
    <3> DEFINE k == [tab[t] EXCEPT !.pc = "refused"]
    <3>1. k.pc = "refused" /\ k.rival = tab[t].rival
      BY <1>1 DEF Tab
    <3> QED  BY <1>1, <2>3, <3>1
  <2> QED  BY <2>1, <2>2, <2>3 DEF Callback, CookieOf
<1>3. \A s \in Tabs : tab'[s] = IF s = t THEN k ELSE tab[s]
  BY <1>2 DEF TypeInv, AccountsInv, TabsSound
<1>4. \A q \in OAuthProviders : q # p => cookie'[q] = cookie[q]
  BY <1>1 DEF TypeInv, AccountsInv
<1>5. \A s \in Tabs \ {t} : tab[s].pc = "consent" /\ ~tab[s].rival =>
          tab[s].provider \in OAuthProviders /\ tab[s].provider # p
  BY <1>1 DEF OwnCookie, TypeInv, AccountsInv, TabsSound, TabSound
<1> HIDE DEF p
<1> QED  BY <1>2, <1>3, <1>4, <1>5 DEF OwnCookie

\* The rows of webhook accounts, but for those just created, stay or go.
LEMMA SecretsUntouched ==
    ASSUME TypeInv, OwnSecret, creator' = creator,
           \A n \in Names : ProviderOf[n] = "webhook" =>
               integrations'[n] = integrations[n] \/ integrations'[n].row = 0
    PROVE  OwnSecret'
<1>1. \A c \in Creators : creator[c].pc = "shown" =>
          /\ creator[c].name \in Names /\ ProviderOf[creator[c].name] = "webhook"
          /\ creator[c].row # 0
  BY BoundsTyped DEF TypeInv, AccountsInv, CreatorsSound, CreatorSound
<1>2. \A c \in Creators :
          creator[c].pc = "shown" /\ integrations'[creator[c].name].row = creator[c].row
          => integrations'[creator[c].name] = integrations[creator[c].name]
  BY <1>1
<1> QED  BY <1>2 DEF OwnSecret

LEMMA StartWebhookOwn ==
    ASSUME TypeInv, OwnSecret, NEW c \in Creators, StartWebhook(c)
    PROVE  OwnSecret'
<1>1. PICK n \in Names :
          LET rivals == {d \in Creators \ {c} : creator[d].pc = "create"
                                                /\ creator[d].name = n}
          IN  /\ ProviderOf[n] = "webhook" /\ ~NameTaken(n)
              /\ creator' = [d \in Creators |->
                    CASE d = c -> [NoCreator EXCEPT !.pc = "create", !.name = n,
                                                    !.rival = rivals # {}]
                      [] d \in rivals -> [creator[d] EXCEPT !.rival = TRUE]
                      [] OTHER -> creator[d]]
  BY DEF StartWebhook
<1> DEFINE rivals == {d \in Creators \ {c} : creator[d].pc = "create"
                                             /\ creator[d].name = n}
           rival == rivals # {}
<1>2. integrations' = integrations /\ integrations[n].row = 0
  BY <1>1 DEF StartWebhook, NameTaken, IsConnected
<1>3. creator'[c].pc = "create" /\ creator'[c].name = n /\ creator'[c].rival = rival
  <2>1. creator'[c] = [NoCreator EXCEPT !.pc = "create", !.name = n, !.rival = rival]
    BY <1>1
  <2> HIDE DEF rival
  <2> QED  BY <2>1 DEF NoCreator
<1>4. \A d \in Creators \ {c} :
          /\ creator'[d].pc = creator[d].pc /\ creator'[d].name = creator[d].name
          /\ creator'[d].row = creator[d].row /\ creator'[d].secret = creator[d].secret
          /\ d \in rivals => creator'[d].rival
          /\ d \notin rivals => creator'[d].rival = creator[d].rival
  <2>1. ASSUME NEW d \in Creators \ {c}
        PROVE  creator'[d] = IF d \in rivals THEN [creator[d] EXCEPT !.rival = TRUE]
                             ELSE creator[d]
    BY <1>1
  <2>2. \A d \in Creators : creator[d] \in Creator
    BY DEF TypeInv, AccountsInv, CreatorsSound
  <2> HIDE DEF rivals
  <2> QED  BY <2>1, <2>2 DEF Creator
<1>5. ASSUME NEW d \in Creators
      PROVE  LET k == creator'[d]
             IN  /\ k.pc = "create" /\ ~k.rival =>
                       \A e \in Creators \ {d} :
                          creator'[e].pc = "create" => creator'[e].name # k.name
                 /\ k.pc = "shown" /\ ~k.rival /\ integrations'[k.name].row = k.row =>
                       /\ integrations'[k.name].credential = k.secret
                       /\ \A e \in Creators :
                             creator'[e].pc = "create" => creator'[e].name # k.name
  <2>1. CASE d = c
    <3>1. ~rival => \A e \in Creators \ {c} : creator[e].pc = "create" => creator[e].name # n
      OBVIOUS
    <3> HIDE DEF rivals, rival
    <3> QED  BY <1>3, <1>4, <2>1, <3>1
  <2>2. CASE d # c
    <3>1. CASE d \in rivals
      BY <1>4, <2>2, <3>1
    <3>2. CASE d \notin rivals
      <4>1. /\ creator'[d].pc = creator[d].pc /\ creator'[d].name = creator[d].name
            /\ creator'[d].row = creator[d].row /\ creator'[d].secret = creator[d].secret
            /\ creator'[d].rival = creator[d].rival
        BY <1>4, <2>2, <3>2
      <4>2. creator[d].pc = "create" => creator[d].name # n
        BY <2>2, <3>2
      <4>3. creator[d].pc = "shown" => creator[d].row # 0
        BY BoundsTyped DEF TypeInv, AccountsInv, CreatorsSound, CreatorSound
      <4> HIDE DEF rivals, rival
      <4>4. creator[d].pc = "shown" /\ integrations[creator[d].name].row = creator[d].row
            => creator[d].name # n
        BY <1>2, <4>3
      <4>5. \A e \in Creators : creator'[e].pc = "create" =>
                \/ creator'[e].name = n
                \/ creator[e].pc = "create" /\ creator[e].name = creator'[e].name
        BY <1>3, <1>4
      <4>6. ASSUME creator[d].pc = "create", ~creator[d].rival,
                   NEW e \in Creators \ {d}, creator'[e].pc = "create"
            PROVE  creator'[e].name # creator[d].name
        <5>1. CASE creator'[e].name = n
          BY <4>2, <4>6, <5>1
        <5>2. CASE creator[e].pc = "create" /\ creator[e].name = creator'[e].name
          BY <4>6, <5>2 DEF OwnSecret
        <5> QED  BY <4>5, <4>6, <5>1, <5>2
      <4>7. ASSUME creator[d].pc = "shown", ~creator[d].rival,
                   integrations[creator[d].name].row = creator[d].row
            PROVE  /\ integrations[creator[d].name].credential = creator[d].secret
                   /\ \A e \in Creators :
                         creator'[e].pc = "create" => creator'[e].name # creator[d].name
        BY <4>4, <4>5, <4>7 DEF OwnSecret
      <4> QED  BY <1>2, <4>1, <4>6, <4>7
    <3> QED  BY <3>1, <3>2
  <2> QED  BY <2>1, <2>2
<1> QED  BY <1>5 DEF OwnSecret

LEMMA CreateWebhookOwn ==
    ASSUME TypeInv, OwnSecret, NEW c \in Creators, CreateWebhook(c)
    PROVE  OwnSecret'
<1> DEFINE n == creator[c].name
<1>1. /\ AccountsInv' /\ RowsEvolve
      /\ n \in Names
      /\ integrations'[n].credential = issued'[n]
      /\ \A m \in Names : m # n => integrations'[m] = integrations[m]
      /\ creator[c].pc = "create" /\ issued' = [issued EXCEPT ![n] = @ + 1]
  BY CreateWebhookSound DEF TypeInv, CreateWebhook
<1>2. issued'[n] = issued[n] + 1
  BY <1>1 DEF TypeInv, AccountsInv, RowsSound
<1>3. /\ \A d \in Creators : d # c => creator'[d] = creator[d]
      /\ creator'[c].pc = "shown" /\ creator'[c].name = n
      /\ creator'[c].secret = issued[n] + 1 /\ creator'[c].rival = creator[c].rival
  <2>1. creator[c] \in Creator
    BY DEF TypeInv, AccountsInv, CreatorsSound
  <2>2. creator' = [creator EXCEPT ![c] =
            [creator[c] EXCEPT !.pc = "shown", !.secret = issued[n] + 1,
                               !.row = integrations'[n].row]]
    BY DEF CreateWebhook
  <2> HIDE DEF n
  <2>3. n = creator[c].name
    BY DEF n
  <2> QED  BY <2>1, <2>2, <2>3 DEF TypeInv, AccountsInv, CreatorsSound, Creator
<1>4. ASSUME NEW d \in Creators \ {c}, creator[d].pc = "shown", ~creator[d].rival,
             integrations'[creator[d].name].row = creator[d].row
      PROVE  creator[d].name # n
  <2>1. /\ creator[d].name \in Names
        /\ creator[d].row \in 1 .. lastRow /\ lastRow \in Nat
    BY <1>4, BoundsTyped DEF TypeInv, AccountsInv, CreatorsSound, CreatorSound, RowsSound
  <2>2. integrations[creator[d].name].row = creator[d].row
    BY <1>1, <1>4, <2>1 DEF RowsEvolve
  <2> QED  BY <1>1, <1>4, <2>2 DEF OwnSecret
<1> HIDE DEF n
<1>5. ASSUME NEW d \in Creators \ {c}
      PROVE  LET k == creator'[d]
             IN  /\ k.pc = "create" /\ ~k.rival =>
                       \A e \in Creators \ {d} :
                          creator'[e].pc = "create" => creator'[e].name # k.name
                 /\ k.pc = "shown" /\ ~k.rival /\ integrations'[k.name].row = k.row =>
                       /\ integrations'[k.name].credential = k.secret
                       /\ \A e \in Creators :
                             creator'[e].pc = "create" => creator'[e].name # k.name
  <2>1. creator'[d] = creator[d]
    BY <1>3
  <2>2. creator[d].pc = "shown" => creator[d].name \in Names
    BY DEF TypeInv, AccountsInv, CreatorsSound, CreatorSound
  <2>3. \A e \in Creators : creator'[e].pc = "create" => e # c /\ creator'[e] = creator[e]
    BY <1>3
  <2> QED  BY <1>1, <1>4, <2>1, <2>2, <2>3 DEF OwnSecret
<1>6. ~creator[c].rival => \A e \in Creators :
          creator'[e].pc = "create" => creator'[e].name # n
  BY <1>1, <1>3 DEF OwnSecret, n
<1>7. LET k == creator'[c]
      IN  /\ k.pc = "create" /\ ~k.rival =>
                \A e \in Creators \ {c} :
                   creator'[e].pc = "create" => creator'[e].name # k.name
          /\ k.pc = "shown" /\ ~k.rival /\ integrations'[k.name].row = k.row =>
                /\ integrations'[k.name].credential = k.secret
                /\ \A e \in Creators :
                      creator'[e].pc = "create" => creator'[e].name # k.name
  BY <1>1, <1>2, <1>3, <1>6
<1> QED  BY <1>5, <1>7 DEF OwnSecret

\* An account that is upserted, or whose token is stored, is no webhook.
LEMMA OtherNamesUntouched ==
    ASSUME AccountsInv, NEW n \in Names, ProviderOf[n] # "webhook",
           \A m \in Names : m # n => integrations'[m] = integrations[m]
    PROVE  \A m \in Names : ProviderOf[m] = "webhook" => integrations'[m] = integrations[m]
  OBVIOUS

LEMMA AccountsOwn ==
    ASSUME OwnInv, AccountsNext
    PROVE  OwnCookie' /\ OwnSecret'
<1>1. TypeInv /\ AccountsInv /\ OwnCookie /\ OwnSecret
  BY DEF OwnInv, TypeInv
<1>2. ASSUME cookie' = cookie, tab' = tab  PROVE OwnCookie'
  BY <1>1, <1>2, CookiesUntouched
<1>3. ASSUME creator' = creator, integrations' = integrations  PROVE OwnSecret'
  BY <1>1, <1>3, SecretsUntouched
<1>4. ASSUME NEW t \in Tabs, StartConnect(t)  PROVE OwnCookie' /\ OwnSecret'
  BY <1>1, <1>3, <1>4, StartConnectOwn DEF StartConnect
<1>5. ASSUME NEW t \in Tabs, Callback(t)  PROVE OwnCookie' /\ OwnSecret'
  BY <1>1, <1>3, <1>5, CallbackOwn DEF Callback
<1>6. ASSUME NEW t \in Tabs, Exchange(t)  PROVE OwnCookie' /\ OwnSecret'
  <2>1. OwnSecret' /\ cookie' = cookie
    BY <1>3, <1>6 DEF Exchange
  <2>2. \E k : tab' = [tab EXCEPT ![t] = k] /\ k.pc \notin {"consent", "refused"}
    <3>1. CASE tab' = [tab EXCEPT ![t] = NoTab]
      BY <3>1, NothingTyped
    <3>2. CASE tab' # [tab EXCEPT ![t] = NoTab]
      <4>1. tab[t] \in Tab /\ tab[t].provider \in OAuthProviders
        BY <1>1, <1>6 DEF AccountsInv, TabsSound, TabSound, Exchange
      <4>2. PICK n \in Names, next \in AfterExchange(tab[t].provider) :
                tab' = [tab EXCEPT ![t].pc = next, ![t].name = n,
                                   ![t].credential = issued[n] + 1]
        BY <1>6, <3>2 DEF Exchange
      <4>3. next \in {"profile", "upsert"}
        BY <4>1, AccountsAssumption
        DEF AfterExchange, AfterSlack, AfterMicrosoft, AfterGoogle
      <4> DEFINE k == [tab[t] EXCEPT !.pc = next, !.name = n, !.credential = issued[n] + 1]
      <4>4. tab' = [tab EXCEPT ![t] = k] /\ k.pc = next
        BY <4>1, <4>2 DEF Tab
      <4> QED  BY <4>3, <4>4
    <3> QED  BY <3>1, <3>2
  <2> QED  BY <1>1, <2>1, <2>2, CookiesUntouched
<1>7. ASSUME NEW t \in Tabs, Profile(t)  PROVE OwnCookie' /\ OwnSecret'
  <2>1. OwnSecret' /\ cookie' = cookie
    BY <1>3, <1>7 DEF Profile
  <2>2. \E k : tab' = [tab EXCEPT ![t] = k] /\ k.pc \notin {"consent", "refused"}
    <3>1. tab[t] \in Tab
      BY <1>1 DEF AccountsInv, TabsSound
    <3> DEFINE k == [tab[t] EXCEPT !.pc = "upsert"]
    <3>2. k.pc = "upsert"
      BY <3>1 DEF Tab
    <3> QED  BY <1>7, <3>2, NothingTyped DEF Profile
  <2> QED  BY <1>1, <2>1, <2>2, CookiesUntouched
<1>8. ASSUME NEW t \in Tabs, UpsertAccount(t)  PROVE OwnCookie' /\ OwnSecret'
  <2>1. /\ cookie' = cookie /\ creator' = creator /\ issued' = issued
        /\ tab' = [tab EXCEPT ![t] = NoTab] /\ tab[t].pc = "upsert"
    BY <1>8 DEF UpsertAccount
  <2>2. OwnCookie'
    BY <1>1, <2>1, CookiesUntouched, NothingTyped
  <2>3. /\ tab[t].name \in Names /\ ProviderOf[tab[t].name] # "webhook"
        /\ tab[t].credential \in 1 .. issued[tab[t].name]
    BY <1>1, <2>1 DEF AccountsInv, TabsSound, TabSound, OAuthProviders
  <2>4. \A m \in Names : m # tab[t].name => integrations'[m] = integrations[m]
    <3>1. CASE integrations' = integrations
      BY <3>1
    <3>2. CASE Upserted(tab[t].name, tab[t].credential)
      <4>1. IssuedGrows
        BY <1>1, <2>1, BoundsTyped DEF AccountsInv, RowsSound, IssuedGrows
      <4> QED  BY <1>1, <2>1, <2>3, <3>2, <4>1, RowUpserted DEF AccountsInv
    <3> QED  BY <1>8, <3>1, <3>2 DEF UpsertAccount
  <2> QED  BY <1>1, <2>1, <2>2, <2>3, <2>4, OtherNamesUntouched, SecretsUntouched
<1>9. ASSUME NEW c \in Creators, StartWebhook(c)  PROVE OwnCookie' /\ OwnSecret'
  BY <1>1, <1>2, <1>9, StartWebhookOwn DEF StartWebhook
<1>10. ASSUME NEW c \in Creators, CreateWebhook(c)  PROVE OwnCookie' /\ OwnSecret'
  BY <1>1, <1>2, <1>10, CreateWebhookOwn DEF CreateWebhook
<1>11. ASSUME NEW u \in Users, FindAccount(u) \/ Refresh(u)
       PROVE  OwnCookie' /\ OwnSecret'
  BY <1>2, <1>3, <1>11 DEF FindAccount, Refresh
<1>12. ASSUME NEW u \in Users, StoreRefreshed(u)  PROVE OwnCookie' /\ OwnSecret'
  <2>1. /\ OwnCookie' /\ creator' = creator /\ user[u].pc = "store"
    BY <1>2, <1>12 DEF StoreRefreshed
  <2>2. user[u].name \in Names /\ ProviderOf[user[u].name] # "webhook"
    BY <1>1, <2>1
    DEF AccountsInv, HandlersSound, HandlerSound, GoogleProviders, MicrosoftProviders
  <2>3. \A m \in Names : m # user[u].name => integrations'[m] = integrations[m]
    BY <1>1, <1>12 DEF StoreRefreshed, AccountsInv, RowsSound
  <2> QED  BY <1>1, <2>1, <2>2, <2>3, OtherNamesUntouched, SecretsUntouched
<1>13. ASSUME NEW n \in Names, Expire(n)  PROVE OwnCookie' /\ OwnSecret'
  <2>1. /\ OwnCookie' /\ creator' = creator
    BY <1>2, <1>13 DEF Expire
  <2>2. ProviderOf[n] # "webhook"
    BY <1>13 DEF Expire, GoogleProviders, MicrosoftProviders
  <2>3. \A m \in Names : m # n => integrations'[m] = integrations[m]
    BY <1>1, <1>13 DEF Expire, AccountsInv, RowsSound
  <2> QED  BY <1>1, <2>1, <2>2, <2>3, OtherNamesUntouched, SecretsUntouched
<1>14. ASSUME NEW n \in Names, Without(n), creator' = creator  PROVE OwnSecret'
  <2>1. \A m \in Names : integrations'[m] = IF m = n THEN NoRow ELSE integrations[m]
    BY <1>1, <1>14 DEF Without, AccountsInv, RowsSound
  <2> QED  BY <1>1, <1>14, <2>1, SecretsUntouched DEF NoRow
<1>15. ASSUME NEW n \in Names, Disconnect(n)  PROVE OwnCookie' /\ OwnSecret'
  BY <1>2, <1>14, <1>15 DEF Disconnect
<1>16. ASSUME NEW p, ListToRemove(p)  PROVE OwnCookie' /\ OwnSecret'
  BY <1>2, <1>3, <1>16 DEF ListToRemove
<1>17. ASSUME NEW row, RemoveListed(row)  PROVE OwnCookie' /\ OwnSecret'
  <2>1. cookie' = cookie /\ tab' = tab /\ creator' = creator
    BY <1>17 DEF RemoveListed
  <2>2. integrations' = integrations \/ \E n \in Names : Without(n)
    BY <1>17 DEF RemoveListed
  <2> QED  BY <1>2, <1>3, <1>14, <2>1, <2>2
<1> QED
  BY <1>4, <1>5, <1>6, <1>7, <1>8, <1>9, <1>10, <1>11, <1>12, <1>13, <1>15, <1>16, <1>17
  DEF AccountsNext

LEMMA OwnStays == OwnInv /\ [Next]_vars => OwnInv'
<1> SUFFICES ASSUME OwnInv, [Next]_vars  PROVE OwnInv'
  OBVIOUS
<1>1. TypeInv'
  BY TypesStay DEF OwnInv
<1>2. CASE UNCHANGED <<integrations, cookie, tab, creator>>
  BY <1>1, <1>2, CookiesUntouched, SecretsUntouched DEF OwnInv
<1>3. CASE AccountStep
  BY <1>1, <1>3, AccountsOwn DEF OwnInv, AccountStep
<1> QED  BY <1>2, <1>3, OthersLeave DEF OwnInv, NoAccountStep, vars, accountVars

\* AccountsSound: whatever tabs, requests, checks and tools do at once, rows
\* and credentials stay well-formed, an attempt to connect is only refused for
\* the state of another one for the same provider, and the secret shown for a
\* webhook verifies as long as its row is there.
THEOREM AccountsAlwaysSound == Spec => []AccountsSound
<1>1. OwnInv => AccountsSound
  <2> SUFFICES ASSUME OwnInv  PROVE AccountsSound
    OBVIOUS
  <2>1. TypeOK
    BY TypesRight DEF OwnInv
  <2>2. OwnProviderOnly
    BY DEF OwnInv, OwnCookie, OwnProviderOnly
  <2>3. SecretsKept
    <3>1. \A c \in Creators : creator[c].pc = "shown" =>
              /\ creator[c].name \in Names /\ ProviderOf[creator[c].name] = "webhook"
              /\ creator[c].row # 0
      BY BoundsTyped DEF OwnInv, TypeInv, AccountsInv, CreatorsSound, CreatorSound
    <3> QED  BY <3>1 DEF OwnInv, OwnSecret, SecretsKept, Verified
  <2> QED  BY <2>1, <2>2, <2>3 DEF AccountsSound
<1> QED  BY <1>1, OwnStart, OwnStays, PTL DEF Spec

-----------------------------------------------------------------------------
(* The stored credential is the newest.                                     *)

\* The credential of an account may differ from the newest issued.
Excepted(n) ==
    \/ ~IsConnected(n) \/ n \in crossed
    \/ \E u \in Users : user[u].pc = "store" /\ user[u].name = n
    \/ \E t \in Tabs : tab[t].pc \in {"profile", "upsert"} /\ tab[t].name = n

LEMMA LatestMeans ==
    LatestStored <=> \A n \in Names : Excepted(n) \/ integrations[n].credential = issued[n]
  BY DEF LatestStored, Excepted

\* A handler that is about to store a token is interrupted by nobody.
LEMMA StoringStays ==
    ASSUME TypeInv, Next, NoAccountStep, NEW u \in Users, user[u].pc = "store"
    PROVE  user'[u] = user[u] \/ AccountStep
<1>1. user \in [Users -> User]
  BY DEF TypeInv, AccountsInv, HandlersSound
<1>2. CASE \E h \in Handlers : Dispatch(h)
  BY <1>2 DEF Dispatch, accountVars
<1>3. CASE Reconfigure
  BY <1>3 DEF Reconfigure, accountVars
<1>4. CASE \E c \in Checks : CheckNext(c)
  <2>1. PICK c \in Checks : CheckNext(c)
    BY <1>4
  <2> QED  BY <2>1, ChecksGo, GoSound
<1>5. CASE \E d \in Deliveries : Deliver(d) \/ Answer(d) \/ GiveUp(d)
  BY <1>5 DEF Deliver, Answer, GiveUp, DeliveryStep, accountVars
<1>6. CASE ToolsNext
  <2>1. CASE user' = user
    BY <2>1
  <2>2. ASSUME NEW c \in Callers, Resolve(c) \/ Act(c)  PROVE user'[u] = user[u]
    <3>1. user[c].pc # "store"
      BY <2>2 DEF Resolve, Act, TypeInv, WaitsSound
    <3>2. user' = user \/ \E h : user' = [user EXCEPT ![c] = h]
      BY <2>2 DEF Resolve, ResolveEmail, ResolveSlack, ResolveMicrosoft, ResolveNone, With, Act
    <3> QED  BY <1>1, <3>1, <3>2
  <2>3. ASSUME NEW a \in Attachments, Seek(a) \/ Reach(a)  PROVE user'[u] = user[u]
    <3>1. user[a].pc # "store"
      BY <2>3 DEF Seek, Reach, TypeInv, WaitsSound
    <3>2. user' = user \/ \E h : user' = [user EXCEPT ![a] = h]
      BY <2>3 DEF Seek, Reach
    <3> QED  BY <1>1, <3>1, <3>2
  <2> QED
    BY <1>6, <2>1, <2>2, <2>3
    DEF ToolsNext, Load, BuildServer, Start, JoinAttachments, NoToken, FindSite, Download
<1> QED  BY <1>2, <1>3, <1>4, <1>5, <1>6 DEF Next

\* What is issued is stored, or somebody is about to, unless it is lost.
LEMMA LatestOf ==
    ASSUME TypeInv, LatestStored, AccountsNext, NEW n \in Names
    PROVE  Excepted(n)' \/ integrations'[n].credential = issued'[n]
<1>1. AccountsInv /\ (Excepted(n) \/ integrations[n].credential = issued[n])
  BY LatestMeans DEF TypeInv
<1>2. /\ integrations \in [Names -> Row] /\ issued \in [Names -> 0 .. MaxIssued]
      /\ tab \in [Tabs -> Tab] /\ user \in [Users -> User]
  BY <1>1 DEF AccountsInv, RowsSound, TabsSound, HandlersSound
<1>3. ASSUME UNCHANGED <<integrations, issued, crossed>>,
             \A u \in Users : user[u].pc = "store" => user'[u] = user[u],
             \A t \in Tabs : tab[t].pc \in {"profile", "upsert"} => tab'[t] = tab[t]
      PROVE  Excepted(n)' \/ integrations'[n].credential = issued'[n]
  BY <1>1, <1>3 DEF Excepted, IsConnected
<1>4. ASSUME NEW t \in Tabs, StartConnect(t)
      PROVE  Excepted(n)' \/ integrations'[n].credential = issued'[n]
  <2>1. \A s \in Tabs : tab[s].pc \in {"profile", "upsert"} => tab'[s] = tab[s]
    BY <1>4 DEF StartConnect
  <2> QED  BY <1>3, <1>4, <2>1 DEF StartConnect
<1>5. ASSUME NEW t \in Tabs, Callback(t)
      PROVE  Excepted(n)' \/ integrations'[n].credential = issued'[n]
  <2>1. tab[t].pc = "consent" /\ \E k : tab' = [tab EXCEPT ![t] = k]
    BY <1>5 DEF Callback
  <2>2. \A s \in Tabs : tab[s].pc \in {"profile", "upsert"} => tab'[s] = tab[s]
    BY <1>2, <2>1
  <2> QED  BY <1>3, <1>5, <2>2 DEF Callback
<1>6. ASSUME NEW t \in Tabs, Exchange(t)
      PROVE  Excepted(n)' \/ integrations'[n].credential = issued'[n]
  <2>1. tab[t].pc = "exchange" /\ tab[t].provider \in OAuthProviders /\ tab[t] \in Tab
    BY <1>1, <1>6 DEF Exchange, AccountsInv, TabsSound, TabSound
  <2>2. UNCHANGED <<integrations, crossed, user>>
    BY <1>6 DEF Exchange
  <2>3. CASE UNCHANGED issued
    <3>1. \E k : tab' = [tab EXCEPT ![t] = k]
      BY <1>6 DEF Exchange
    <3>2. \A s \in Tabs : tab[s].pc \in {"profile", "upsert"} => tab'[s] = tab[s]
      BY <1>2, <2>1, <3>1
    <3> QED  BY <1>3, <2>2, <2>3, <3>2
  <2>4. CASE \E m \in Names, next \in AfterExchange(tab[t].provider) :
                 /\ issued' = [issued EXCEPT ![m] = @ + 1]
                 /\ tab' = [tab EXCEPT ![t].pc = next, ![t].name = m,
                                       ![t].credential = issued[m] + 1]
    <3>1. PICK m \in Names, next \in AfterExchange(tab[t].provider) :
                 /\ issued' = [issued EXCEPT ![m] = @ + 1]
                 /\ tab' = [tab EXCEPT ![t].pc = next, ![t].name = m,
                                       ![t].credential = issued[m] + 1]
      BY <2>4
    <3> DEFINE k == [tab[t] EXCEPT !.pc = next, !.name = m, !.credential = issued[m] + 1]
    <3>2. next \in {"profile", "upsert"}
      BY <2>1, AccountsAssumption DEF AfterExchange, AfterSlack, AfterMicrosoft, AfterGoogle
    <3>3. k.pc = next /\ k.name = m /\ tab' = [tab EXCEPT ![t] = k]
      BY <2>1, <3>1 DEF Tab
    <3> HIDE DEF k
    <3>4. \A s \in Tabs : tab'[s] = IF s = t THEN k ELSE tab[s]
      BY <1>2, <3>3
    <3>5. CASE n = m
      BY <3>2, <3>3, <3>4, <3>5 DEF Excepted
    <3>6. CASE n # m
      <4>1. issued'[n] = issued[n]
        BY <1>2, <3>1, <3>6
      <4>2. \A s \in Tabs : tab[s].pc \in {"profile", "upsert"} => tab'[s] = tab[s]
        BY <2>1, <3>4
      <4> QED  BY <1>1, <2>2, <4>1, <4>2 DEF Excepted, IsConnected
    <3> QED  BY <3>5, <3>6
  <2> QED  BY <1>6, <2>3, <2>4 DEF Exchange
<1>7. ASSUME NEW t \in Tabs, Profile(t)
      PROVE  Excepted(n)' \/ integrations'[n].credential = issued'[n]
  <2>1. UNCHANGED <<integrations, issued, user>> /\ tab[t].pc = "profile" /\ tab[t] \in Tab
    BY <1>2, <1>7 DEF Profile
  <2>2. CASE tab' = [tab EXCEPT ![t].pc = "upsert"] /\ UNCHANGED crossed
    <3> DEFINE k == [tab[t] EXCEPT !.pc = "upsert"]
    <3>1. k.pc = "upsert" /\ k.name = tab[t].name /\ tab' = [tab EXCEPT ![t] = k]
      BY <2>1, <2>2 DEF Tab
    <3> HIDE DEF k
    <3>2. \A s \in Tabs : tab'[s] = IF s = t THEN k ELSE tab[s]
      BY <1>2, <3>1
    <3>3. \A s \in Tabs : tab[s].pc \in {"profile", "upsert"} =>
              tab'[s].pc \in {"profile", "upsert"} /\ tab'[s].name = tab[s].name
      BY <3>1, <3>2
    <3> QED  BY <1>1, <2>1, <2>2, <3>3 DEF Excepted, IsConnected
  <2>3. CASE tab' = [tab EXCEPT ![t] = NoTab] /\ crossed' = crossed \cup {tab[t].name}
    <3>1. \A s \in Tabs : s # t => tab'[s] = tab[s]
      BY <1>2, <2>3
    <3> QED  BY <1>1, <2>1, <2>3, <3>1 DEF Excepted, IsConnected
  <2> QED  BY <1>7, <2>2, <2>3 DEF Profile
<1>8. ASSUME NEW t \in Tabs, UpsertAccount(t)
      PROVE  Excepted(n)' \/ integrations'[n].credential = issued'[n]
  <2> DEFINE k == tab[t]
  <2>1. UNCHANGED <<issued, user>> /\ k.pc = "upsert" /\ tab' = [tab EXCEPT ![t] = NoTab]
    BY <1>8 DEF UpsertAccount
  <2>2. k.name \in Names /\ k.credential \in 1 .. issued[k.name]
    BY <1>1, <2>1 DEF AccountsInv, TabsSound, TabSound
  <2>3. \A s \in Tabs : s # t => tab'[s] = tab[s]
    BY <1>2, <2>1
  <2>4. CASE crossed' = crossed \cup {k.name} /\ UNCHANGED integrations
    BY <1>1, <2>1, <2>3, <2>4 DEF Excepted, IsConnected
  <2>5. CASE Upserted(k.name, k.credential) /\ crossed' = Crossing(k.name, k.credential)
    <3>1. IssuedGrows
      BY <1>1, <2>1, BoundsTyped DEF AccountsInv, RowsSound, IssuedGrows
    <3>2. /\ integrations'[k.name].credential = k.credential
          /\ \A m \in Names : m # k.name => integrations'[m] = integrations[m]
      BY <1>1, <2>1, <2>2, <2>5, <3>1, RowUpserted DEF AccountsInv
    <3>3. CASE n = k.name
      BY <2>1, <2>5, <3>2, <3>3 DEF Crossing, Excepted
    <3>4. CASE n # k.name
      <4>1. integrations'[n] = integrations[n] /\ (n \in crossed <=> n \in crossed')
        BY <2>5, <3>2, <3>4 DEF Crossing
      <4> QED  BY <1>1, <2>1, <2>3, <3>4, <4>1 DEF Excepted, IsConnected
    <3> QED  BY <3>3, <3>4
  <2> QED  BY <1>8, <2>4, <2>5 DEF UpsertAccount
<1>9. ASSUME NEW c \in Creators, StartWebhook(c)
      PROVE  Excepted(n)' \/ integrations'[n].credential = issued'[n]
  BY <1>3, <1>9 DEF StartWebhook
<1>10. ASSUME NEW c \in Creators, CreateWebhook(c)
       PROVE  Excepted(n)' \/ integrations'[n].credential = issued'[n]
  <2>1. UNCHANGED <<tab, user, crossed>>
    BY <1>10 DEF CreateWebhook
  <2> QED  BY <1>1, <1>10, <2>1, CreateWebhookSound DEF Excepted, IsConnected
<1>11. ASSUME NEW u \in Users, FindAccount(u)
       PROVE  Excepted(n)' \/ integrations'[n].credential = issued'[n]
  <2>1. UNCHANGED <<integrations, issued, crossed, tab>> /\ user[u].pc = "find"
        /\ \A v \in Users : v # u => user'[v] = user[v]
    BY <1>2, <1>11 DEF FindAccount
  <2> QED  BY <1>3, <2>1
<1>12. ASSUME NEW u \in Users, Refresh(u)
       PROVE  Excepted(n)' \/ integrations'[n].credential = issued'[n]
  <2>1. UNCHANGED <<integrations, crossed, tab>> /\ user[u].pc = "refresh" /\ user[u] \in User
        /\ \A v \in Users : v # u => user'[v] = user[v]
    BY <1>2, <1>12
    DEF Refresh, RefreshGoogle, RefreshMicrosoft, Refreshed
  <2>2. CASE UNCHANGED issued
    BY <1>3, <2>1, <2>2
  <2>3. CASE \E returned : /\ issued' = [issued EXCEPT ![user[u].name] = @ + 1]
                           /\ Refreshed(u, returned)
    <3>1. user'[u].pc = "store" /\ user'[u].name = user[u].name
      <4>1. PICK returned : Refreshed(u, returned)
        BY <2>3
      <4> DEFINE left == IF returned = 0 THEN user[u].stored ELSE returned
                 h == [user[u] EXCEPT !.pc = "store", !.got = ToStore(user[u], returned),
                                      !.left = left]
      <4>2. user' = [user EXCEPT ![u] = h]
        BY <4>1 DEF Refreshed
      <4>3. h.pc = "store" /\ h.name = user[u].name
        BY <2>1 DEF User
      <4> HIDE DEF h
      <4> QED  BY <1>2, <4>2, <4>3
    <3>2. CASE n = user[u].name
      BY <3>1, <3>2 DEF Excepted
    <3>3. CASE n # user[u].name
      <4>1. issued'[n] = issued[n]
        BY <1>2, <2>3, <3>3
      <4> QED  BY <1>1, <2>1, <4>1 DEF Excepted, IsConnected
    <3> QED  BY <3>2, <3>3
  <2> QED  BY <1>12, <2>2, <2>3 DEF Refresh, RefreshGoogle, RefreshMicrosoft
<1>13. ASSUME NEW u \in Users, StoreRefreshed(u)
       PROVE  Excepted(n)' \/ integrations'[n].credential = issued'[n]
  <2> DEFINE k == user[u]
  <2>1. UNCHANGED <<issued, tab>> /\ k.pc = "store"
        /\ \A v \in Users : v # u => user'[v] = user[v]
    BY <1>2, <1>13 DEF StoreRefreshed
  <2>2. k.name \in Names /\ k.left = k.got
    BY <1>1, <2>1 DEF AccountsInv, HandlersSound, HandlerSound
  <2>3. CASE crossed' = crossed \cup {k.name} /\ UNCHANGED integrations
    BY <1>1, <2>1, <2>3 DEF Excepted, IsConnected
  <2>4. CASE /\ integrations' = [integrations EXCEPT
                     ![k.name].credential = k.got, ![k.name].fresh = TRUE]
             /\ crossed' = Crossing(k.name, k.left)
    <3>1. /\ integrations'[k.name].credential = k.got
          /\ \A m \in Names : m # k.name => integrations'[m] = integrations[m]
      <4> DEFINE r == [integrations[k.name] EXCEPT !.credential = k.got, !.fresh = TRUE]
      <4>1. r.credential = k.got
        BY <1>2, <2>2 DEF Row
      <4>2. integrations' = [integrations EXCEPT ![k.name] = r]
        BY <2>4
      <4> HIDE DEF r
      <4> QED  BY <1>2, <2>2, <4>1, <4>2
    <3>2. CASE n = k.name
      BY <2>1, <2>2, <2>4, <3>1, <3>2 DEF Crossing, Excepted
    <3>3. CASE n # k.name
      <4>1. integrations'[n] = integrations[n] /\ (n \in crossed <=> n \in crossed')
        BY <2>4, <3>1, <3>3 DEF Crossing
      <4> QED  BY <1>1, <2>1, <3>3, <4>1 DEF Excepted, IsConnected
    <3> QED  BY <3>2, <3>3
  <2> QED  BY <1>13, <2>3, <2>4 DEF StoreRefreshed
<1>14. ASSUME NEW m \in Names, Expire(m)
       PROVE  Excepted(n)' \/ integrations'[n].credential = issued'[n]
  <2>1. UNCHANGED <<issued, crossed, tab, user>>
    BY <1>14 DEF Expire
  <2> DEFINE r == [integrations[m] EXCEPT !.fresh = FALSE]
  <2>2. r.row = integrations[m].row /\ r.credential = integrations[m].credential
    BY <1>2 DEF Row
  <2>3. integrations' = [integrations EXCEPT ![m] = r]
    BY <1>14 DEF Expire
  <2> HIDE DEF r
  <2>4. /\ integrations'[n].row = integrations[n].row
        /\ integrations'[n].credential = integrations[n].credential
    BY <1>2, <2>2, <2>3
  <2> QED  BY <1>1, <2>1, <2>4 DEF Excepted, IsConnected
<1>15. ASSUME NEW m \in Names, Without(m), UNCHANGED <<issued, crossed, tab, user>>
       PROVE  Excepted(n)' \/ integrations'[n].credential = issued'[n]
  <2>1. integrations'[n] = IF n = m THEN NoRow ELSE integrations[n]
    BY <1>2, <1>15 DEF Without
  <2> QED  BY <1>1, <1>15, <2>1 DEF Excepted, IsConnected, NoRow
<1>16. ASSUME NEW m \in Names, Disconnect(m)
       PROVE  Excepted(n)' \/ integrations'[n].credential = issued'[n]
  BY <1>15, <1>16 DEF Disconnect
<1>17. ASSUME NEW p, ListToRemove(p)
       PROVE  Excepted(n)' \/ integrations'[n].credential = issued'[n]
  BY <1>3, <1>17 DEF ListToRemove
<1>18. ASSUME NEW row, RemoveListed(row)
       PROVE  Excepted(n)' \/ integrations'[n].credential = issued'[n]
  BY <1>3, <1>15, <1>18 DEF RemoveListed
<1> QED
  BY <1>4, <1>5, <1>6, <1>7, <1>8, <1>9, <1>10, <1>11, <1>12, <1>13, <1>14, <1>16, <1>17,
     <1>18
  DEF AccountsNext

\* LatestStored: the credential stored for a connected account is the newest
\* its provider issued, unless a refresh or a connection is about to store it,
\* or one crossed another: whoever fails to store what it got, or stores what
\* is no longer the newest, is an exception the model names.
THEOREM LatestAlwaysStored == Spec => []LatestStored
<1>1. Init => LatestStored
  <2> SUFFICES ASSUME Init, NEW n \in Names  PROVE ~IsConnected(n) \/ integrations[n].credential = issued[n]
    BY DEF LatestStored
  <2> QED  BY DEF Init, AccountsInit, IsConnected, NoRow
<1>2. TypeInv /\ LatestStored /\ [Next]_vars => LatestStored'
  <2> SUFFICES ASSUME TypeInv, LatestStored, [Next]_vars  PROVE LatestStored'
    OBVIOUS
  <2>1. CASE AccountStep
    BY <2>1, LatestOf, LatestMeans DEF AccountStep, Excepted, LatestStored
  <2>2. CASE Next /\ ~AccountStep
    <3>1. NoAccountStep
      BY <2>2, OthersLeave
    <3>2. \A u \in Users : user[u].pc = "store" => user'[u] = user[u]
      BY <2>2, <3>1, StoringStays
    <3> QED  BY <3>1, <3>2 DEF LatestStored, NoAccountStep, IsConnected
  <2>3. CASE UNCHANGED vars
    BY <2>3 DEF vars, accountVars, LatestStored, IsConnected
  <2> QED  BY <2>1, <2>2, <2>3
<1> QED  BY <1>1, <1>2, TypesAlways, PTL DEF Spec

-----------------------------------------------------------------------------
(* Tools act through the account of their run, or through the default.      *)

\* The row of an account that was there at the start is never another's, and
\* a pin that is there names it.
RowsRemembered ==
    /\ \A m, n \in Names : Rows[m] # 0 /\ integrations[n].row = Rows[m] => m = n
    /\ \A n \in Names : Rows[n] <= lastRow
    /\ \A c \in Callers : pin[c] # None =>
          pin[c] = Pins[c] /\ integrations[Pins[c]].row = Rows[Pins[c]]

\* What the run of c knows of its pin p.
PinKnown(c, p, k) ==
    /\ k.pinned # 0 => Pins[c] # None /\ k.pinned = Rows[Pins[c]]
    /\ k.provider # None => Pins[c] # None /\ k.provider = ProviderOf[Pins[c]]
    /\ p # None /\ k.pc # "idle" => k.pinned = Rows[Pins[c]]
    /\ p # None /\ k.pc \notin {"idle", "build"} => k.provider = ProviderOf[Pins[c]]

\* The account n, by its row, is the one for the call k of c: its pin, or the
\* earliest of those that are connected.
Chosen(c, k, n, row, rows, last) ==
    /\ n \in Names /\ ProviderOf[n] \in ProvidersFor(k.tool)
    /\ row \in 1 .. last
    /\ PinnedFor(k) # 0 => n = Pins[c] /\ row = k.pinned
    /\ PinnedFor(k) = 0 =>
          \A m \in Names : rows[m].row # 0 /\ ProviderOf[m] \in ProvidersFor(k.tool)
                              => row <= rows[m].row

\* The call k of c, with the handler h of its token.
ChoiceSound(c, k, h, files, rows, last) ==
    /\ k.pc = "token" /\ h.pc # "failed" => Chosen(c, k, h.name, h.row, rows, last)
    /\ k.pc = "done" => Chosen(c, k, k.name, k.row, rows, last)
    /\ k.tool = "send_email" /\ k.pc \in {"resolve", "token", "done"} =>
          \A a \in Attached(c) : files[a] = "fetched"

PinsKnown == \A c \in Callers : PinKnown(c, pin[c], call[c])

ChoicesSound ==
    \A c \in Callers : ChoiceSound(c, call[c], user[c], file, integrations, lastRow)

ChoicesInv == TypeInv /\ RowsRemembered /\ PinsKnown /\ ChoicesSound

LEMMA ChoicesStart == Init => ChoicesInv
<1> SUFFICES ASSUME Init  PROVE ChoicesInv
  OBVIOUS
<1>1. TypeInv
  BY TypesStart
<1>2. ASSUME NEW n \in Names
      PROVE  integrations[n].row = Rows[n] /\ Rows[n] \in Nat /\ Rows[n] <= lastRow
  BY BoundsTyped, AccountsAssumption DEF Init, AccountsInit, NoRow
<1>3. RowsRemembered
  <2>1. \A m, n \in Names : Rows[m] # 0 /\ Rows[n] = Rows[m] => m = n
    BY AccountsAssumption
  <2>2. \A c \in Callers : pin[c] = Pins[c] /\ Pins[c] \in Names \cup {None}
    BY ToolsAssumption DEF Init, ToolsInit
  <2> QED  BY <1>2, <2>1, <2>2 DEF RowsRemembered
<1>4. \A c \in Callers : call[c] = NoCall
  BY DEF Init, ToolsInit
<1>5. PinsKnown /\ ChoicesSound
  BY <1>4 DEF PinsKnown, PinKnown, ChoicesSound, ChoiceSound, NoCall
<1> QED  BY <1>1, <1>3, <1>5 DEF ChoicesInv

LEMMA ChosenAlike ==
    ASSUME NEW c, NEW j, NEW k, NEW n, NEW row, NEW rows, NEW last,
           j.tool = k.tool, j.provider = k.provider, j.pinned = k.pinned,
           Chosen(c, k, n, row, rows, last)
    PROVE  Chosen(c, j, n, row, rows, last)
  BY DEF Chosen, PinnedFor

\* Accounts that are connected later never come first.
LEMMA ChosenStays ==
    ASSUME AccountsInv, AccountsInv', RowsEvolve,
           NEW c, NEW k, NEW n, NEW row, Chosen(c, k, n, row, integrations, lastRow)
    PROVE  Chosen(c, k, n, row, integrations', lastRow')
<1>1. /\ lastRow \in Nat /\ lastRow' \in Nat /\ lastRow <= lastRow'
      /\ \A m \in Names : integrations'[m].row \in Nat
  BY BoundsTyped DEF AccountsInv, RowsSound, RowsEvolve, Row
<1>2. row \in 1 .. lastRow /\ row \in 1 .. lastRow'
  BY <1>1 DEF Chosen
<1>3. ASSUME NEW m \in Names, integrations'[m].row # 0,
             integrations[m].row # 0 => row <= integrations[m].row
      PROVE  row <= integrations'[m].row
  <2>1. integrations'[m].row = integrations[m].row \/ integrations'[m].row > lastRow
    BY <1>3 DEF RowsEvolve
  <2>2. integrations[m].row \in Nat
    BY BoundsTyped DEF AccountsInv, RowsSound, Row
  <2>3. CASE integrations'[m].row = integrations[m].row
    BY <1>3, <2>3
  <2>4. CASE integrations'[m].row > lastRow /\ integrations'[m].row # integrations[m].row
    <3>1. integrations[m].row = 0 /\ integrations'[m].row > lastRow
      BY <1>3, <2>4 DEF RowsEvolve
    <3> QED  BY <1>1, <1>2, <3>1
  <2> QED  BY <2>1, <2>3, <2>4
<1> QED  BY <1>2, <1>3 DEF Chosen

LEMMA AccountStepChoices ==
    ASSUME ChoicesInv, AccountStep, UNCHANGED cast
    PROVE  ChoicesInv'
<1>1. /\ TypeInv /\ TypeInv' /\ RowsEvolve /\ HandlersEvolve
      /\ PinsKept /\ UNCHANGED <<call, file>>
  BY AccountStepTyped DEF ChoicesInv, AccountStep
<1>2. /\ lastRow \in Nat /\ lastRow' \in Nat /\ lastRow <= lastRow'
      /\ \A n \in Names : /\ integrations[n].row \in Nat /\ integrations'[n].row \in Nat
                          /\ Rows[n] \in Nat /\ Rows[n] <= lastRow
  BY <1>1, BoundsTyped, AccountsAssumption
  DEF TypeInv, AccountsInv, RowsSound, RowsEvolve, Row, ChoicesInv, RowsRemembered
<1>3. \A c \in Callers : Pins[c] # None => Pins[c] \in Names /\ Rows[Pins[c]] # 0
  BY ToolsAssumption
<1>4. ASSUME NEW c \in Callers, pin'[c] # None
      PROVE  /\ pin[c] # None /\ pin'[c] = pin[c] /\ pin[c] = Pins[c]
             /\ integrations'[Pins[c]].row = Rows[Pins[c]]
  <2>1. /\ pin[c] # None /\ pin'[c] = pin[c]
        /\ ~(integrations[pin[c]].row # 0 /\ integrations'[pin[c]].row # integrations[pin[c]].row)
    BY <1>1, <1>4 DEF PinsKept
  <2>2. pin[c] = Pins[c] /\ integrations[Pins[c]].row = Rows[Pins[c]]
    BY <2>1 DEF ChoicesInv, RowsRemembered
  <2> QED  BY <1>3, <2>1, <2>2
<1>5. \A m, n \in Names : Rows[m] # 0 /\ integrations'[n].row = Rows[m] => m = n
  <2> SUFFICES ASSUME NEW m \in Names, NEW n \in Names, Rows[m] # 0,
                      integrations'[n].row = Rows[m]
               PROVE  m = n
    OBVIOUS
  <2>1. ~(integrations'[n].row > lastRow)
    BY <1>2
  <2> QED  BY <1>1, <2>1 DEF RowsEvolve, ChoicesInv, RowsRemembered
<1>6. RowsRemembered'
  BY <1>2, <1>4, <1>5 DEF RowsRemembered
<1>7. PinsKnown'
  BY <1>1, <1>4 DEF ChoicesInv, PinsKnown, PinKnown
<1>8. ASSUME NEW c \in Callers
      PROVE  ChoiceSound(c, call'[c], user'[c], file', integrations', lastRow')
  <2>1. ChoiceSound(c, call[c], user[c], file, integrations, lastRow)
    BY DEF ChoicesInv, ChoicesSound
  <2>2. \A n, row : Chosen(c, call[c], n, row, integrations, lastRow)
                       => Chosen(c, call[c], n, row, integrations', lastRow')
    BY <1>1, <1>2, ChosenStays DEF TypeInv
  <2>3. user'[c].pc # "failed" => /\ user[c].pc # "failed"
                                  /\ user'[c].name = user[c].name
                                  /\ user'[c].row = user[c].row
    BY <1>1, UsersTyped DEF HandlersEvolve
  <2> QED  BY <1>1, <2>1, <2>2, <2>3 DEF ChoiceSound
<1> QED  BY <1>1, <1>6, <1>7, <1>8 DEF ChoicesInv, ChoicesSound

\* A step of one run's call, or of none.
LEMMA ChoiceMoved ==
    ASSUME ChoicesInv, TypeInv', NoAccountStep, pin' = pin, NEW c \in Callers, NEW k,
           call' = [call EXCEPT ![c] = k], PinKnown(c, pin[c], k),
           ChoiceSound(c, k, user'[c], file', integrations, lastRow),
           \A d \in Callers \ {c} : user'[d] = user[d],
           \A d \in Callers \ {c}, a \in Attachments : AttachedTo[a] = d /\ file[a] = "fetched"
                                                          => file'[a] = "fetched"
    PROVE  ChoicesInv'
<1>1. \A d \in Callers : call'[d] = IF d = c THEN k ELSE call[d]
  BY DEF ChoicesInv, TypeInv, ToolsTyped
<1>2. integrations' = integrations /\ lastRow' = lastRow
  BY DEF NoAccountStep
<1>3. RowsRemembered'
  BY <1>2 DEF ChoicesInv, RowsRemembered
<1>4. PinsKnown'
  BY <1>1 DEF ChoicesInv, PinsKnown
<1>5. ASSUME NEW d \in Callers
      PROVE  ChoiceSound(d, call'[d], user'[d], file', integrations', lastRow')
  <2>1. CASE d = c
    BY <1>1, <1>2, <2>1
  <2>2. CASE d # c
    <3>1. ChoiceSound(d, call[d], user[d], file, integrations, lastRow)
      BY DEF ChoicesInv, ChoicesSound
    <3>2. \A a \in Attached(d) : file[a] = "fetched" => file'[a] = "fetched"
      BY <2>2 DEF Attached
    <3> QED  BY <1>1, <1>2, <2>2, <3>1, <3>2 DEF ChoiceSound
  <2> QED  BY <2>1, <2>2
<1> QED  BY <1>3, <1>4, <1>5 DEF ChoicesInv, ChoicesSound

LEMMA ChoicesUnmoved ==
    ASSUME ChoicesInv, TypeInv', NoAccountStep, UNCHANGED <<pin, call>>,
           \A d \in Callers : user'[d] = user[d],
           \A a \in Attachments : file[a] = "fetched" => file'[a] = "fetched"
    PROVE  ChoicesInv'
<1>1. integrations' = integrations /\ lastRow' = lastRow
  BY DEF NoAccountStep
<1>2. RowsRemembered' /\ PinsKnown'
  BY <1>1 DEF ChoicesInv, RowsRemembered, PinsKnown
<1>3. ASSUME NEW d \in Callers
      PROVE  ChoiceSound(d, call'[d], user'[d], file', integrations', lastRow')
  <2>1. ChoiceSound(d, call[d], user[d], file, integrations, lastRow)
    BY DEF ChoicesInv, ChoicesSound
  <2>2. \A a \in Attached(d) : file[a] = "fetched" => file'[a] = "fetched"
    BY DEF Attached
  <2> QED  BY <1>1, <2>1, <2>2 DEF ChoiceSound
<1> QED  BY <1>2, <1>3 DEF ChoicesInv, ChoicesSound

\* The account a tool finds is the one for it.
LEMMA ChosenFound ==
    ASSUME ChoicesInv, NEW c \in Callers, NEW n \in Candidates(call[c])
    PROVE  Chosen(c, call[c], n, integrations[n].row, integrations, lastRow)
<1> DEFINE k == call[c]
           of == {m \in Names : IsConnected(m) /\ ProviderOf[m] \in ProvidersFor(k.tool)}
<1>1. CASE PinnedFor(k) = 0
  <2>1. n \in DefaultFor(k.tool)
    BY <1>1 DEF Candidates
  <2>2. n \in Earliest(of)
    <3>1. CASE k.tool = "send_email"
      <4>1. OfProvider("gmail") \cup OfProvider("outlook") = of
        BY <3>1 DEF OfProvider, ProvidersFor, EmailProviders
      <4> QED  BY <2>1, <3>1, <4>1 DEF DefaultFor, DefaultEmail
    <3>2. CASE k.tool # "send_email"
      <4>1. PICK p : ProvidersFor(k.tool) = {p}
        BY <3>2 DEF ProvidersFor
      <4>2. OfProvider(p) = of
        BY <4>1 DEF OfProvider
      <4>3. n \in DefaultOf(p)
        BY <2>1, <3>2, <4>1 DEF DefaultFor
      <4> QED  BY <4>2, <4>3 DEF DefaultOf
    <3> QED  BY <3>1, <3>2
  <2>3. /\ n \in Names /\ IsConnected(n) /\ ProviderOf[n] \in ProvidersFor(k.tool)
        /\ \A m \in of : integrations[n].row <= integrations[m].row
    BY <2>2 DEF Earliest
  <2>4. integrations[n].row \in 1 .. lastRow
    BY <2>3, BoundsTyped DEF ChoicesInv, TypeInv, AccountsInv, RowsSound, Row, IsConnected
  <2> QED  BY <1>1, <2>3, <2>4 DEF Chosen, IsConnected
<1>2. CASE PinnedFor(k) # 0
  <2>1. /\ n \in Names /\ integrations[n].row = PinnedFor(k)
        /\ ProviderOf[n] \in ProvidersFor(k.tool)
    BY <1>2 DEF Candidates
  <2>2. PinnedFor(k) = k.pinned
    BY <1>2 DEF PinnedFor
  <2>3. Pins[c] # None /\ k.pinned = Rows[Pins[c]]
    BY <1>2, <2>2 DEF ChoicesInv, PinsKnown, PinKnown
  <2>4. Pins[c] \in Names
    BY <2>3, ToolsAssumption
  <2>5. n = Pins[c]
    BY <1>2, <2>1, <2>2, <2>3, <2>4 DEF ChoicesInv, RowsRemembered
  <2>6. integrations[n].row \in 1 .. lastRow
    BY <1>2, <2>1, BoundsTyped DEF ChoicesInv, TypeInv, AccountsInv, RowsSound, Row
  <2> QED  BY <1>2, <2>1, <2>2, <2>5, <2>6 DEF Chosen
<1> QED  BY <1>1, <1>2

LEMMA LoadChosen ==
    ASSUME ChoicesInv, TypeInv', NEW c \in Callers, Load(c)
    PROVE  ChoicesInv'
<1> DEFINE pinned == IF pin[c] = None THEN 0 ELSE integrations[pin[c]].row
           k == [NoCall EXCEPT !.pc = "build", !.pinned = pinned]
<1>1. call' = [call EXCEPT ![c] = k] /\ NoAccountStep /\ UNCHANGED <<user, pin, file>>
  BY DEF Load, Goes
<1>2. k.pc = "build" /\ k.pinned = pinned /\ k.tool = None /\ k.provider = None
  BY DEF NoCall
<1>3. pin[c] # None => pin[c] = Pins[c] /\ pinned = Rows[Pins[c]]
  BY DEF ChoicesInv, RowsRemembered
<1>4. pin[c] = None => pinned = 0
  OBVIOUS
<1> HIDE DEF pinned, k
<1>5. PinKnown(c, pin[c], k)
  BY <1>2, <1>3, <1>4 DEF PinKnown
<1>6. ChoiceSound(c, k, user'[c], file', integrations, lastRow)
  BY <1>2 DEF ChoiceSound
<1> QED  BY <1>1, <1>5, <1>6, ChoiceMoved

LEMMA BuildServerChosen ==
    ASSUME ChoicesInv, TypeInv', NEW c \in Callers, BuildServer(c)
    PROVE  ChoicesInv'
<1> DEFINE owner == {n \in Names : integrations[n].row = call[c].pinned
                                   /\ call[c].pinned # 0}
<1>1. /\ call[c].pc = "build" /\ NoAccountStep /\ UNCHANGED <<user, pin, file>>
      /\ call[c] \in Call
  BY CallTyped DEF BuildServer, ChoicesInv, TypeInv
<1>2. PinKnown(c, pin[c], call[c])
  BY DEF ChoicesInv, PinsKnown
<1>3. Pins[c] # None => Pins[c] \in Names /\ Rows[Pins[c]] # 0
  BY ToolsAssumption
<1>4. \A n \in owner : n = Pins[c]
  BY <1>2, <1>3 DEF PinKnown, ChoicesInv, RowsRemembered
<1>5. pin[c] # None => Pins[c] \in owner
  <2> SUFFICES ASSUME pin[c] # None  PROVE Pins[c] \in owner
    OBVIOUS
  <2>1. pin[c] = Pins[c] /\ integrations[Pins[c]].row = Rows[Pins[c]]
    BY DEF ChoicesInv, RowsRemembered
  <2>2. call[c].pinned = Rows[Pins[c]]
    BY <1>1, <1>2 DEF PinKnown
  <2> QED  BY <1>3, <2>1, <2>2
<1>6. PICK k : /\ call' = [call EXCEPT ![c] = k] /\ k.pc = "serving"
               /\ k.pinned = call[c].pinned
               /\ pin[c] # None => k.provider = ProviderOf[Pins[c]]
               /\ \/ k.provider = call[c].provider
                  \/ Pins[c] # None /\ k.provider = ProviderOf[Pins[c]]
  <2>1. CASE \E n \in owner : Goes(c, [call[c] EXCEPT !.pc = "serving",
                                                      !.provider = ProviderOf[n]])
    <3>1. PICK n \in owner : Goes(c, [call[c] EXCEPT !.pc = "serving",
                                                     !.provider = ProviderOf[n]])
      BY <2>1
    <3>2. n = Pins[c] /\ Pins[c] # None
      BY <1>2, <1>4 DEF PinKnown
    <3> DEFINE k == [call[c] EXCEPT !.pc = "serving", !.provider = ProviderOf[n]]
    <3>3. k.pc = "serving" /\ k.pinned = call[c].pinned /\ k.provider = ProviderOf[n]
      BY <1>1 DEF Call
    <3>4. call' = [call EXCEPT ![c] = k]
      BY <3>1 DEF Goes
    <3> HIDE DEF k, owner
    <3> QED  BY <3>2, <3>3, <3>4
  <2>2. CASE owner = {} /\ Goes(c, [call[c] EXCEPT !.pc = "serving"])
    <3> DEFINE k == [call[c] EXCEPT !.pc = "serving"]
    <3>1. k.pc = "serving" /\ k.pinned = call[c].pinned /\ k.provider = call[c].provider
      BY <1>1 DEF Call
    <3>2. call' = [call EXCEPT ![c] = k] /\ pin[c] = None
      BY <1>5, <2>2 DEF Goes
    <3> HIDE DEF k
    <3> QED  BY <3>1, <3>2
  <2> QED  BY <2>1, <2>2 DEF BuildServer
<1> HIDE DEF owner
<1>7. PinKnown(c, pin[c], k)
  BY <1>1, <1>2, <1>6 DEF PinKnown
<1>8. ChoiceSound(c, k, user'[c], file', integrations, lastRow)
  BY <1>6 DEF ChoiceSound
<1> QED  BY <1>1, <1>6, <1>7, <1>8, ChoiceMoved

\* A call that goes on knows what it knew of its pin.
LEMMA PinStillKnown ==
    ASSUME ChoicesInv, NEW c \in Callers, call[c].pc \notin {"idle", "build"}, NEW k,
           k.pinned = call[c].pinned, k.provider = call[c].provider
    PROVE  PinKnown(c, pin[c], k)
  BY DEF ChoicesInv, PinsKnown, PinKnown

LEMMA RefusesChosen ==
    ASSUME ChoicesInv, TypeInv', NEW c \in Callers, Refuses(c), NoAccountStep,
           UNCHANGED <<pin, file>>, call[c].pc \notin {"idle", "build"},
           \A d \in Callers \ {c} : user'[d] = user[d]
    PROVE  ChoicesInv'
<1> DEFINE k == [call[c] EXCEPT !.pc = "refused"]
<1>1. k.pc = "refused" /\ k.pinned = call[c].pinned /\ k.provider = call[c].provider
  BY CallTyped DEF ChoicesInv, TypeInv, Call
<1>2. call' = [call EXCEPT ![c] = k]
  BY DEF Refuses, Goes
<1> HIDE DEF k
<1>3. PinKnown(c, pin[c], k)
  BY <1>1, PinStillKnown
<1>4. ChoiceSound(c, k, user'[c], file', integrations, lastRow)
  BY <1>1 DEF ChoiceSound
<1> QED  BY <1>2, <1>3, <1>4, ChoiceMoved

LEMMA StartChosen ==
    ASSUME ChoicesInv, TypeInv', NEW c \in Callers, Start(c)
    PROVE  ChoicesInv'
<1>1. /\ call[c].pc = "serving" /\ NoAccountStep /\ UNCHANGED <<user, pin>>
      /\ call[c] \in Call
  BY CallTyped DEF Start, ChoicesInv, TypeInv
<1>2. PICK tool, pc : /\ call' = [call EXCEPT ![c] = [call[c] EXCEPT !.tool = tool, !.pc = pc]]
                      /\ \/ tool = "send_email" /\ pc = "attach"
                         \/ tool # "send_email" /\ pc \in {"resolve", "refused"} /\ file' = file
  <2> DEFINE Moves(tool, pc) ==
                 call' = [call EXCEPT ![c] = [call[c] EXCEPT !.tool = tool, !.pc = pc]]
  <2>1. CASE StartMail(c)
    <3>1. Moves("send_email", "attach")
      BY <2>1 DEF StartMail, Goes
    <3> QED  BY <3>1
  <2>2. CASE StartSlack(c)
    <3>1. Moves("notify_slack", "resolve") /\ file' = file
      BY <2>2 DEF StartSlack, Goes
    <3> WITNESS "notify_slack", "resolve"
    <3> QED  BY <3>1
  <2>3. CASE StartTeams(c)
    <3>1. PICK pc \in {"resolve", "refused"} : Moves("notify_teams", pc) /\ file' = file
      BY <2>3 DEF StartTeams, Goes
    <3> WITNESS "notify_teams", pc
    <3> QED  BY <3>1
  <2>4. CASE StartAvailability(c)
    <3>1. Moves("check_calendar_availability", "resolve") /\ file' = file
      BY <2>4 DEF StartAvailability, Goes
    <3> WITNESS "check_calendar_availability", "resolve"
    <3> QED  BY <3>1
  <2>5. CASE StartEvent(c)
    <3>1. Moves("create_calendar_event", "resolve") /\ file' = file
      BY <2>5 DEF StartEvent, Goes
    <3> WITNESS "create_calendar_event", "resolve"
    <3> QED  BY <3>1
  <2> QED  BY <2>1, <2>2, <2>3, <2>4, <2>5 DEF Start
<1> DEFINE k == [call[c] EXCEPT !.tool = tool, !.pc = pc]
<1>3. /\ k.pc = pc /\ k.tool = tool /\ k.pinned = call[c].pinned
      /\ k.provider = call[c].provider
  BY <1>1 DEF Call
<1>4. call' = [call EXCEPT ![c] = k]
  BY <1>2
<1> HIDE DEF k
<1>5. PinKnown(c, pin[c], k)
  BY <1>1, <1>3, PinStillKnown
<1>6. ChoiceSound(c, k, user'[c], file', integrations, lastRow)
  BY <1>2, <1>3 DEF ChoiceSound
<1>7. \A d \in Callers \ {c}, a \in Attachments : AttachedTo[a] = d /\ file[a] = "fetched"
                                                      => file'[a] = "fetched"
  <2>1. file' = file \/ file' = [a \in Attachments |-> IF a \in Attached(c) THEN "seek"
                                                         ELSE file[a]]
    BY DEF Start, StartMail, StartSlack, StartTeams, StartAvailability, StartEvent
  <2> QED  BY <2>1 DEF Attached
<1> QED  BY <1>1, <1>4, <1>5, <1>6, <1>7, ChoiceMoved

LEMMA JoinChosen ==
    ASSUME ChoicesInv, TypeInv', NEW c \in Callers, JoinAttachments(c)
    PROVE  ChoicesInv'
<1>1. /\ call[c].pc = "attach" /\ NoAccountStep /\ UNCHANGED <<user, pin, file>>
      /\ call[c] \in Call
  BY CallTyped DEF JoinAttachments, ChoicesInv, TypeInv
<1>2. CASE Refuses(c)
  BY <1>1, <1>2, RefusesChosen
<1>3. CASE Complete(c) /\ Goes(c, [call[c] EXCEPT !.pc = "resolve"])
  <2> DEFINE k == [call[c] EXCEPT !.pc = "resolve"]
  <2>1. k.pc = "resolve" /\ k.pinned = call[c].pinned /\ k.provider = call[c].provider
    BY <1>1 DEF Call
  <2>2. call' = [call EXCEPT ![c] = k]
    BY <1>3 DEF Goes
  <2> HIDE DEF k
  <2>3. PinKnown(c, pin[c], k)
    BY <1>1, <2>1, PinStillKnown
  <2>4. ChoiceSound(c, k, user'[c], file', integrations, lastRow)
    BY <1>1, <1>3, <2>1 DEF ChoiceSound, Complete
  <2> QED  BY <1>1, <2>2, <2>3, <2>4, ChoiceMoved
<1> QED  BY <1>2, <1>3 DEF JoinAttachments

\* The token is one of the account that was found.
LEMMA ResolveFinds ==
    ASSUME ChoicesInv, NEW c \in Callers, ResolveEmail(c) \/ ResolveSlack(c) \/ ResolveMicrosoft(c)
    PROVE  \E n \in Candidates(call[c]) : \E h :
               With(c, h) /\ h.name = n /\ h.row = integrations[n].row
<1>1. \A n \in Candidates(call[c]) : n \in Names /\ IsConnected(n)
  BY BoundsTyped DEF Candidates, DefaultFor, DefaultEmail, DefaultOf, Earliest, OfProvider,
     IsConnected, PinnedFor
<1>2. CASE ResolveEmail(c)
  BY <1>1, <1>2, TokenSound DEF ResolveEmail, ChoicesInv, TypeInv
<1>3. CASE ResolveSlack(c)
  <2>1. PICK n \in Candidates(call[c]) :
            With(c, [NoUser EXCEPT !.pc = "ready", !.name = n, !.row = integrations[n].row])
    BY <1>3 DEF ResolveSlack
  <2> DEFINE h == [NoUser EXCEPT !.pc = "ready", !.name = n, !.row = integrations[n].row]
  <2>2. h.name = n /\ h.row = integrations[n].row
    BY DEF NoUser
  <2> HIDE DEF h
  <2> QED  BY <2>1, <2>2 DEF h
<1>4. CASE ResolveMicrosoft(c)
  BY <1>1, <1>4, TokenSound DEF ResolveMicrosoft, ChoicesInv, TypeInv
<1> QED  BY <1>2, <1>3, <1>4

LEMMA ResolveChosen ==
    ASSUME ChoicesInv, TypeInv', NEW c \in Callers, Resolve(c)
    PROVE  ChoicesInv'
<1>1. /\ call[c].pc = "resolve" /\ NoAccountStep /\ UNCHANGED <<pin, file>>
      /\ call[c] \in Call /\ c \in Users /\ user \in [Users -> User]
  BY CallTyped, UsersTyped DEF Resolve, ChoicesInv, TypeInv, AccountsInv, HandlersSound
<1>2. CASE ResolveNone(c)
  BY <1>1, <1>2, RefusesChosen DEF ResolveNone
<1>3. CASE ~ResolveNone(c)
  <2>0. PICK n \in Candidates(call[c]) : \E h :
            With(c, h) /\ h.name = n /\ h.row = integrations[n].row
    BY <1>3, ResolveFinds DEF Resolve
  <2>1. PICK h : With(c, h) /\ h.name = n /\ h.row = integrations[n].row
    BY <2>0
  <2> DEFINE k == [call[c] EXCEPT !.pc = "token"]
  <2>2. /\ k.pc = "token" /\ k.pinned = call[c].pinned /\ k.provider = call[c].provider
        /\ k.tool = call[c].tool
    BY <1>1 DEF Call
  <2>3. call' = [call EXCEPT ![c] = k] /\ user' = [user EXCEPT ![c] = h]
    BY <2>1 DEF With, Goes
  <2> HIDE DEF k
  <2>4. PinKnown(c, pin[c], k)
    BY <1>1, <2>2, PinStillKnown
  <2>5. user'[c] = h /\ \A d \in Callers \ {c} : user'[d] = user[d]
    BY <1>1, <2>3, UsersTyped
  <2>6. Chosen(c, k, n, integrations[n].row, integrations, lastRow)
    <3>1. Chosen(c, call[c], n, integrations[n].row, integrations, lastRow)
      BY ChosenFound
    <3> QED  BY <2>2, <3>1, ChosenAlike
  <2>7. ChoiceSound(c, k, user'[c], file', integrations, lastRow)
    <3>1. ChoiceSound(c, call[c], user[c], file, integrations, lastRow)
      BY DEF ChoicesInv, ChoicesSound
    <3> QED  BY <1>1, <2>1, <2>2, <2>5, <2>6, <3>1 DEF ChoiceSound
  <2> QED  BY <1>1, <2>3, <2>4, <2>5, <2>7, ChoiceMoved
<1> QED  BY <1>2, <1>3

LEMMA ActChosen ==
    ASSUME ChoicesInv, TypeInv', NEW c \in Callers, Act(c)
    PROVE  ChoicesInv'
<1>1. /\ call[c].pc = "token" /\ user[c].pc = "ready" /\ NoAccountStep
      /\ UNCHANGED <<pin, file>> /\ call[c] \in Call /\ c \in Users
      /\ user \in [Users -> User] /\ user' = [user EXCEPT ![c] = NoUser]
  BY CallTyped, UsersTyped DEF Act, ChoicesInv, TypeInv, AccountsInv, HandlersSound
<1>2. \A d \in Callers \ {c} : user'[d] = user[d]
  BY <1>1, UsersTyped
<1>3. CASE Refuses(c)
  BY <1>1, <1>2, <1>3, RefusesChosen
<1>4. CASE Goes(c, [call[c] EXCEPT !.pc = "done", !.name = user[c].name, !.row = user[c].row])
  <2> DEFINE k == [call[c] EXCEPT !.pc = "done", !.name = user[c].name, !.row = user[c].row]
  <2>1. /\ k.pc = "done" /\ k.pinned = call[c].pinned /\ k.provider = call[c].provider
        /\ k.tool = call[c].tool /\ k.name = user[c].name /\ k.row = user[c].row
    BY <1>1 DEF Call
  <2>2. call' = [call EXCEPT ![c] = k]
    BY <1>4 DEF Goes
  <2> HIDE DEF k
  <2>3. PinKnown(c, pin[c], k)
    BY <1>1, <2>1, PinStillKnown
  <2>4. ChoiceSound(c, call[c], user[c], file, integrations, lastRow)
    BY DEF ChoicesInv, ChoicesSound
  <2>5. Chosen(c, k, k.name, k.row, integrations, lastRow)
    BY <1>1, <2>1, <2>4, ChosenAlike DEF ChoiceSound
  <2>6. ChoiceSound(c, k, user'[c], file', integrations, lastRow)
    BY <1>1, <2>1, <2>4, <2>5 DEF ChoiceSound
  <2> QED  BY <1>1, <1>2, <2>2, <2>3, <2>6, ChoiceMoved
<1> QED
  BY <1>3, <1>4 DEF Act, SendMessage, PostSlack, PostTeams, FindTimes, CreateEvent, Answered

LEMMA FilesChosen ==
    ASSUME ChoicesInv, TypeInv', NEW a \in Attachments,
           Seek(a) \/ Reach(a) \/ FindSite(a) \/ Download(a)
    PROVE  ChoicesInv'
<1>1. /\ NoAccountStep /\ UNCHANGED <<pin, call>> /\ user \in [Users -> User]
      /\ file[a] # "fetched" /\ a \in Users
      /\ file \in [Attachments -> {"none", "fetched", "failed"} \cup Fetching]
  BY UsersTyped
  DEF Seek, Reach, FindSite, Download, ChoicesInv, TypeInv, AccountsInv, HandlersSound,
      ToolsTyped
<1>2. user' = user \/ \E h : user' = [user EXCEPT ![a] = h]
  BY DEF Seek, Reach, FindSite, Download
<1>3. \A d \in Callers : user'[d] = user[d]
  BY <1>1, <1>2, UsersTyped
<1>4. \E how : file' = [file EXCEPT ![a] = how]
  BY DEF Seek, Reach, FindSite, Download, Fetches
<1>5. \A b \in Attachments : file[b] = "fetched" => file'[b] = "fetched"
  BY <1>1, <1>4
<1> QED  BY <1>1, <1>3, <1>5, ChoicesUnmoved

LEMMA ChoicesStay == ChoicesInv /\ [Next]_vars => ChoicesInv'
<1> SUFFICES ASSUME ChoicesInv, [Next]_vars  PROVE ChoicesInv'
  OBVIOUS
<1>1. TypeInv /\ TypeInv'
  BY TypesStay DEF ChoicesInv
<1>2. CASE UNCHANGED <<integrations, lastRow, issued, cookie, tab, creator, user, removing,
                       crossed, pin, call, file>>
  BY <1>1, <1>2, ChoicesUnmoved DEF NoAccountStep
<1>3. CASE Next /\ AccountStep
  BY <1>3, AccountStepChoices DEF Next
<1>4. CASE \E h \in Handlers : Dispatch(h)
  BY <1>2, <1>4 DEF Dispatch, accountVars, toolVars
<1>5. CASE Reconfigure
  BY <1>2, <1>5 DEF Reconfigure, accountVars, toolVars
<1>6. CASE \E c \in Checks : CheckNext(c)
  <2>1. PICK c \in Checks : CheckNext(c)
    BY <1>6
  <2>2. /\ NoAccountStep /\ UNCHANGED <<pin, call, file>>
        /\ \A u \in Users : u # c => user'[u] = user[u]
    BY <1>1, <2>1, ChecksGo, GoSound DEF toolVars
  <2> QED  BY <1>1, <2>2, UsersTyped, ChoicesUnmoved
<1>7. CASE \E d \in Deliveries : Deliver(d) \/ Answer(d) \/ GiveUp(d)
  BY <1>2, <1>7 DEF Deliver, Answer, GiveUp, DeliveryStep, accountVars, toolVars
<1>8. CASE ToolsNext
  <2>1. ASSUME NEW c \in Callers, NoToken(c)  PROVE ChoicesInv'
    BY <1>1, <2>1, RefusesChosen DEF NoToken
  <2> QED
    BY <1>1, <1>8, <2>1, LoadChosen, BuildServerChosen, StartChosen, JoinChosen,
       ResolveChosen, ActChosen, FilesChosen
    DEF ToolsNext
<1>9. CASE UNCHANGED vars
  BY <1>2, <1>9 DEF vars, accountVars, toolVars
<1> QED  BY <1>3, <1>4, <1>5, <1>6, <1>7, <1>8, <1>9 DEF Next

LEMMA ChoicesAlways == Spec => []ChoicesInv
  BY ChoicesStart, ChoicesStay, PTL DEF Spec

\* ActsAsChosen: whatever is connected, disconnected and refreshed meanwhile, a
\* tool of an agent pinned to an account of its providers acts through that
\* account as long as the pin is there, and any other tool through the account
\* of its providers that was connected first.
THEOREM AlwaysActsAsChosen == Spec => []ActsAsChosen
<1>1. ChoicesInv => ActsAsChosen
  <2> SUFFICES ASSUME ChoicesInv  PROVE ActsAsChosen
    OBVIOUS
  <2>1. ASSUME NEW c \in Callers, call[c].pc = "done"
        PROVE  Chosen(c, call[c], call[c].name, call[c].row, integrations, lastRow)
    BY <2>1 DEF ChoicesInv, ChoicesSound, ChoiceSound
  <2>2. ActsAsPinned
    <3> SUFFICES ASSUME NEW c \in Callers, call[c].pc = "done", Pins[c] # None,
                        ProviderOf[Pins[c]] \in ProvidersFor(call[c].tool), pin[c] # None
                 PROVE  call[c].name = Pins[c]
      BY DEF ActsAsPinned, Acted
    <3>1. call[c].pinned = Rows[Pins[c]] /\ call[c].provider = ProviderOf[Pins[c]]
      BY DEF ChoicesInv, PinsKnown, PinKnown
    <3>2. PinnedFor(call[c]) # 0
      BY <3>1, ToolsAssumption DEF PinnedFor
    <3> QED  BY <2>1, <3>2 DEF Chosen
  <2>3. ActsAsDefault
    <3> SUFFICES ASSUME NEW c \in Callers, call[c].pc = "done"
                 PROVE  /\ ProviderOf[call[c].name] \in ProvidersFor(call[c].tool)
                        /\ \/ call[c].row = call[c].pinned
                           \/ \A n \in UNION {OfProvider(p) : p \in ProvidersFor(call[c].tool)} :
                                 integrations[n].row >= call[c].row
      BY DEF ActsAsDefault, Acted
    <3>1. Chosen(c, call[c], call[c].name, call[c].row, integrations, lastRow)
      BY <2>1
    <3>2. ASSUME PinnedFor(call[c]) = 0,
                 NEW n \in UNION {OfProvider(p) : p \in ProvidersFor(call[c].tool)}
          PROVE  integrations[n].row >= call[c].row
      <4>1. n \in Names /\ integrations[n].row # 0 /\ ProviderOf[n] \in ProvidersFor(call[c].tool)
        BY DEF OfProvider, IsConnected
      <4>2. call[c].row <= integrations[n].row
        BY <3>1, <3>2, <4>1 DEF Chosen
      <4>3. call[c].row \in Nat /\ integrations[n].row \in Nat
        BY <4>1, BoundsTyped DEF ChoicesInv, TypeInv, ToolsTyped, Call, AccountsInv, RowsSound, Row
      <4> QED  BY <4>2, <4>3
    <3> QED  BY <3>1, <3>2 DEF Chosen
  <2> QED  BY <2>2, <2>3 DEF ActsAsChosen
<1> QED  BY <1>1, ChoicesAlways, PTL

\* SentWhole: an e-mail leaves with every attachment it names, or not at all.
THEOREM AlwaysSentWhole == Spec => []SentWhole
<1>1. ChoicesInv => SentWhole
  BY DEF ChoicesInv, ChoicesSound, ChoiceSound, SentWhole, Attached
<1> QED  BY <1>1, ChoicesAlways, PTL

-----------------------------------------------------------------------------
(* The default of a provider, and the tools it is there for.                *)

\* A set of natural numbers that is not empty has a least one.
LEMMA LeastNumber ==
    ASSUME NEW T, T \subseteq Nat, T # {}
    PROVE  \E x \in T : \A y \in T : x <= y
<1> DEFINE R == OpToRel(<, Nat)
<1>1. IsWellFoundedOn(R, Nat)
  BY NatLessThanWellFounded
<1> HIDE DEF R
<1>2. PICK x \in T : \A y \in T : <<y, x>> \notin R
  BY <1>1, WFMin
<1>3. \A x1, y \in Nat : <<y, x1>> \notin R => x1 <= y
  BY DEF R, OpToRel
<1>4. \A y \in T : x <= y
  BY <1>2, <1>3
<1> QED  BY <1>4

\* Among accounts that are connected, one was connected first.
LEMMA EarliestThere ==
    ASSUME AccountsInv, NEW names, names \subseteq Names, names # {}
    PROVE  Earliest(names) # {}
<1> DEFINE rows == {integrations[n].row : n \in names}
<1>1. rows \subseteq Nat /\ rows # {}
  BY BoundsTyped DEF AccountsInv, RowsSound, Row
<1>2. PICK x \in rows : \A y \in rows : x <= y
  BY <1>1, LeastNumber
<1>3. PICK n \in names : integrations[n].row = x
  OBVIOUS
<1>4. \A m \in names : integrations[n].row <= integrations[m].row
  BY <1>2, <1>3
<1> QED  BY <1>4 DEF Earliest

LEMMA RowsAlwaysEvolve ==
    ASSUME TypeInv, [Next]_vars
    PROVE  RowsEvolve
<1>1. CASE AccountStep
  BY <1>1, AccountsKept DEF AccountStep, TypeInv
<1>2. CASE NoAccountStep
  BY <1>2, AccountsUntouched DEF TypeInv
<1>3. CASE UNCHANGED vars
  BY <1>3, NothingGrows DEF vars, accountVars, TypeInv, AccountsInv
<1> QED  BY <1>1, <1>2, <1>3, OthersLeave

LEMMA DefaultsStay ==
    ASSUME TypeInv, TypeInv', RowsEvolve, NEW p, NEW n \in DefaultOf(p)
    PROVE  n \in DefaultOf(p)' \/ ~IsConnected(n)'
<1>1. /\ n \in Names /\ integrations[n].row # 0 /\ ProviderOf[n] = p
      /\ \A m \in Names : integrations[m].row # 0 /\ ProviderOf[m] = p
                             => integrations[n].row <= integrations[m].row
  BY DEF DefaultOf, Earliest, OfProvider, IsConnected
<1>2. /\ lastRow \in Nat /\ integrations[n].row <= lastRow
      /\ \A m \in Names : integrations[m].row \in Nat /\ integrations'[m].row \in Nat
  BY <1>1, BoundsTyped DEF TypeInv, AccountsInv, RowsSound, Row
<1> SUFFICES ASSUME integrations'[n].row # 0
             PROVE  n \in DefaultOf(p)'
  BY DEF IsConnected
<1>3. integrations'[n].row = integrations[n].row
  BY <1>1 DEF RowsEvolve
<1>4. ASSUME NEW m \in Names, integrations'[m].row # 0, ProviderOf[m] = p
      PROVE  integrations'[n].row <= integrations'[m].row
  <2>1. CASE integrations'[m].row = integrations[m].row
    BY <1>1, <1>3, <1>4, <2>1
  <2>2. CASE integrations'[m].row # integrations[m].row
    <3>1. integrations'[m].row > lastRow
      BY <1>4, <2>2 DEF RowsEvolve
    <3>2. /\ integrations[n].row \in Nat /\ integrations'[m].row \in Nat
          /\ integrations[n].row <= lastRow
      BY <1>1, <1>2
    <3> QED  BY <1>2, <1>3, <3>1, <3>2
  <2> QED  BY <2>1, <2>2
<1> QED  BY <1>1, <1>4 DEF DefaultOf, Earliest, OfProvider, IsConnected

\* A tool that finds no account has lost its pin, or has none to find.
LEMMA NoneFound ==
    ASSUME ChoicesInv, NEW c \in Callers, call[c].pc = "resolve", Candidates(call[c]) = {}
    PROVE  \/ /\ Pins[c] # None
              /\ ProviderOf[Pins[c]] \in ProvidersFor(call[c].tool)
              /\ pin[c] = None
           \/ \A p \in ProvidersFor(call[c].tool) : OfProvider(p) = {}
<1> DEFINE k == call[c]
<1>1. AccountsInv
  BY DEF ChoicesInv, TypeInv
<1>2. CASE PinnedFor(k) = 0
  <2>1. DefaultFor(k.tool) = {}
    BY <1>2 DEF Candidates
  <2>2. CASE k.tool = "send_email"
    <3> DEFINE of == OfProvider("gmail") \cup OfProvider("outlook")
    <3>1. Earliest(of) = {}
      BY <2>1, <2>2 DEF DefaultFor, DefaultEmail
    <3>2. of \subseteq Names
      BY DEF OfProvider
    <3>3. of = {}
      BY <1>1, <3>1, <3>2, EarliestThere
    <3> QED  BY <2>2, <3>3 DEF ProvidersFor, EmailProviders
  <2>3. CASE k.tool # "send_email"
    <3>1. ASSUME NEW p \in ProvidersFor(k.tool)  PROVE OfProvider(p) = {}
      <4>1. Earliest(OfProvider(p)) = {}
        BY <2>1, <2>3 DEF DefaultFor, DefaultOf
      <4>2. OfProvider(p) \subseteq Names
        BY DEF OfProvider
      <4> QED  BY <1>1, <4>1, <4>2, EarliestThere
    <3> QED  BY <3>1
  <2> QED  BY <2>2, <2>3
<1>3. CASE PinnedFor(k) # 0
  <2>1. /\ PinnedFor(k) = k.pinned /\ k.provider \in ProvidersFor(k.tool)
        /\ k.pinned # 0
    BY <1>3 DEF PinnedFor
  <2>2. k.provider # None
    BY <2>1, AccountsAssumption DEF ProvidersFor, EmailProviders, MicrosoftProviders
  <2>3. Pins[c] # None /\ k.pinned = Rows[Pins[c]] /\ k.provider = ProviderOf[Pins[c]]
    BY <2>1, <2>2 DEF ChoicesInv, PinsKnown, PinKnown
  <2>4. Pins[c] \in Names
    BY <2>3, ToolsAssumption
  <2>5. pin[c] = None
    <3> SUFFICES ASSUME pin[c] # None  PROVE FALSE
      OBVIOUS
    <3>1. integrations[Pins[c]].row = k.pinned
      BY <2>3 DEF ChoicesInv, RowsRemembered
    <3>2. Pins[c] \in Candidates(k)
      BY <2>1, <2>3, <2>4, <3>1 DEF Candidates
    <3> QED  BY <3>2
  <2> QED  BY <2>1, <2>3, <2>5
<1> QED  BY <1>2, <1>3

\* Only the resolution of its account ends a call that is to be resolved.
LEMMA OnlyUnresolved ==
    ASSUME ChoicesInv, Next, NEW c \in Callers, call[c].pc = "resolve",
           call'[c].pc = "refused"
    PROVE  Candidates(call[c]) = {}
<1>1. call \in [Callers -> Call] /\ call'[c] # call[c]
  BY DEF ChoicesInv, TypeInv, ToolsTyped
<1>2. CASE AccountStep
  BY <1>1, <1>2 DEF AccountStep
<1>3. CASE \E h \in Handlers : Dispatch(h)
  BY <1>1, <1>3 DEF Dispatch, toolVars
<1>4. CASE Reconfigure
  BY <1>1, <1>4 DEF Reconfigure, toolVars
<1>5. CASE \E d \in Checks : CheckNext(d)
  BY <1>1, <1>5, ChecksGo, GoSound DEF toolVars, ChoicesInv
<1>6. CASE \E d \in Deliveries : Deliver(d) \/ Answer(d) \/ GiveUp(d)
  BY <1>1, <1>6 DEF Deliver, Answer, GiveUp, DeliveryStep, toolVars
<1>7. CASE ToolsNext
  <2>1. \A d \in Callers : \A k : Goes(d, k) => d = c
    BY <1>1 DEF Goes
  <2>2. PICK d \in Callers :
            Load(d) \/ BuildServer(d) \/ Start(d) \/ JoinAttachments(d) \/ Resolve(d)
            \/ NoToken(d) \/ Act(d)
    BY <1>1, <1>7 DEF ToolsNext, Seek, Reach, FindSite, Download
  <2>3. \E k : call' = [call EXCEPT ![d] = k]
    BY <2>2
    DEF Load, BuildServer, Start, StartMail, StartSlack, StartTeams, StartAvailability,
        StartEvent, JoinAttachments, Resolve, ResolveEmail, ResolveSlack, ResolveMicrosoft,
        ResolveNone, With, NoToken, Act, SendMessage, PostSlack, PostTeams, FindTimes,
        CreateEvent, Answered, Refuses, Goes
  <2>4. d = c
    BY <1>1, <2>3
  <2>5. Resolve(c)
    BY <2>2, <2>4 DEF Load, BuildServer, Start, JoinAttachments, NoToken, Act
  <2>6. ResolveNone(c)
    <3>1. ASSUME NEW h, With(c, h)  PROVE FALSE
      <4>1. call'[c] = [call[c] EXCEPT !.pc = "token"]
        BY <1>1, <3>1 DEF With, Goes
      <4>2. call'[c].pc = "token"
        BY <1>1, <4>1 DEF Call
      <4> QED  BY <4>2
    <3> QED  BY <2>5, <3>1 DEF Resolve, ResolveEmail, ResolveSlack, ResolveMicrosoft
  <2> QED  BY <2>6 DEF ResolveNone
<1> QED  BY <1>2, <1>3, <1>4, <1>5, <1>6, <1>7 DEF Next

\* DefaultsHold: only its disconnection takes an account its place as the
\* default of its provider, and a tool is never refused for a pin to an account
\* of another provider.
THEOREM DefaultsAlwaysHold == Spec => DefaultsHold
<1>1. ChoicesInv /\ ChoicesInv' /\ [Next]_vars
      => [\A p \in EmailProviders : \A n \in DefaultOf(p) :
             n \in DefaultOf(p)' \/ ~IsConnected(n)']_vars
  BY RowsAlwaysEvolve, DefaultsStay DEF ChoicesInv
<1>2. ChoicesInv /\ [Next]_vars
      => [\A c \in Callers :
             call[c].pc = "resolve" /\ call'[c].pc = "refused"
                 => \/ /\ Pins[c] # None
                       /\ ProviderOf[Pins[c]] \in ProvidersFor(call[c].tool)
                       /\ pin[c] = None
                    \/ \A p \in ProvidersFor(call[c].tool) : OfProvider(p) = {}]_toolVars
  BY OnlyUnresolved, NoneFound DEF vars
<1> QED
  BY <1>1, <1>2, ChoicesAlways, PTL DEF Spec, DefaultsHold, DefaultStays, PinNeverBlocks
=============================================================================
