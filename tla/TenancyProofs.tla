---------------------------- MODULE TenancyProofs ----------------------------
(***************************************************************************)
(* What holds of every tenancy: built-in templates are seeded once and     *)
(* listed in full, the rows of an organisation are all there and agree     *)
(* with each other, the people's rows follow Clerk, and neither an         *)
(* organisation nor a person that is gone leaves rows behind.              *)
(*                                                                         *)
(* The three parts of a tenant, its templates, its rows and its people,    *)
(* each have an invariant of their own.                                    *)
(***************************************************************************)
EXTENDS Tenancy, FiniteSetTheorems, TLAPS

-----------------------------------------------------------------------------
(* Templates.                                                               *)

RowsTyped ==
    /\ templates \subseteq Template /\ IsFiniteSet(templates)
    /\ lastTemplate \in 0 .. MaxTemplates
    /\ \A s, t \in templates : s.id = t.id => s = t
    /\ \A t \in templates : t.id <= lastTemplate /\ (t.owner = "all" => t.name \in Names)

ReaderSound(k) ==
    /\ k \in Reader
    /\ k.pc \in {"find", "write"} => k.at # 0
    /\ k.pc # "write" => k.found = 0

ReadersSound ==
    /\ reader \in [Readers -> Reader]
    /\ \A l \in Readers : ReaderSound(reader[l])

\* Is a reader about to create the row of a built-in?
Makes(k, name) == k.pc = "write" /\ k.found = 0 /\ BuiltIns[k.at] = name

\* There is one row of a built-in or one reader about to create it, not both.
Single(name, rows, readers) ==
    /\ \A s, t \in rows : s = t
    /\ \A l \in Readers : Makes(readers[l], name) => rows = {}
    /\ \A k, l \in Readers : Makes(readers[k], name) /\ Makes(readers[l], name) => k = l

OnceSeeded == \A name \in Names \ contested : Single(name, OfBuiltIn(name), reader)

\* The built-ins before the nth are among the rows.
SeededBelow(n, rows) ==
    \A i \in DOMAIN BuiltIns : i < n => \E t \in rows : t.owner = "all" /\ t.name = BuiltIns[i]

\* What a reader has passed is there.
Passed(k, rows) ==
    /\ k.pc \in {"find", "write"} => SeededBelow(k.at, rows)
    /\ k.pc = "write" /\ k.found # 0 => SeededBelow(k.at + 1, rows)
    /\ k.pc = "list" => SeededBelow(Len(BuiltIns) + 1, rows)
    /\ k.pc = "listed" => SeededBelow(Len(BuiltIns) + 1, k.rows)

AllPassed == contested = {} => \A l \in Readers : Passed(reader[l], templates)

TemplatesInv == RowsTyped /\ ReadersSound /\ OnceSeeded /\ AllPassed

LEMMA BuiltInsTyped ==
    /\ Len(BuiltIns) \in Nat /\ Len(BuiltIns) >= 1
    /\ DOMAIN BuiltIns = 1 .. Len(BuiltIns)
    /\ \A i \in 1 .. Len(BuiltIns) : BuiltIns[i] \in Names
    /\ 0 \in 0 .. MaxTemplates /\ 0 \in 0 .. Len(BuiltIns) /\ 1 \in 0 .. Len(BuiltIns)
    /\ \A i, k \in 1 .. Len(BuiltIns) : BuiltIns[i] = BuiltIns[k] => i = k
    /\ MaxTemplates \in Nat /\ "ours" \in Businesses /\ "all" \notin Businesses
  BY TemplatesAssumption DEF Names

LEMMA TemplatesStart == TemplatesInit => TemplatesInv
<1> SUFFICES ASSUME TemplatesInit PROVE TemplatesInv
  OBVIOUS
<1>1. NoReader \in Reader /\ NoReader.pc = "idle" /\ NoReader.found = 0
  BY BuiltInsTyped DEF NoReader, Reader
<1>2. IsFiniteSet(templates)
  BY FS_EmptySet DEF TemplatesInit
<1>3. RowsTyped
  BY <1>2, BuiltInsTyped DEF TemplatesInit, RowsTyped
<1>4. ReadersSound
  BY <1>1 DEF TemplatesInit, ReadersSound, ReaderSound
<1>5. OnceSeeded
  BY <1>1 DEF TemplatesInit, OnceSeeded, OfBuiltIn, Single, Makes
<1>6. AllPassed
  BY <1>1 DEF TemplatesInit, AllPassed, Passed
<1> QED  BY <1>3, <1>4, <1>5, <1>6 DEF TemplatesInv

\* A reader that goes on without a row to create disturbs nobody.
LEMMA ReaderMoves ==
    ASSUME TemplatesInv, NEW l \in Readers, NEW k,
           UNCHANGED <<templates, lastTemplate, contested>>,
           reader' = [reader EXCEPT ![l] = k],
           ReaderSound(k), k.pc # "write" \/ k.found # 0,
           contested = {} => Passed(k, templates)
    PROVE  TemplatesInv'
<1>1. \A m \in Readers : reader'[m] = IF m = l THEN k ELSE reader[m]
  BY DEF TemplatesInv, ReadersSound
<1>2. RowsTyped'
  BY DEF TemplatesInv, RowsTyped
<1>3. ReadersSound'
  BY <1>1 DEF TemplatesInv, ReadersSound, ReaderSound
<1>4. OnceSeeded'
  BY <1>1 DEF TemplatesInv, OnceSeeded, OfBuiltIn, Single, Makes
<1>5. AllPassed'
  BY <1>1 DEF TemplatesInv, AllPassed
<1> QED  BY <1>2, <1>3, <1>4, <1>5 DEF TemplatesInv

\* Rows of the businesses come and go.
LEMMA OwnRows ==
    ASSUME TemplatesInv, UNCHANGED <<reader, contested>>, RowsTyped',
           \A t : t.owner = "all" => (t \in templates <=> t \in templates')
    PROVE  TemplatesInv'
<1>1. \A name \in Names : OfBuiltIn(name)' = OfBuiltIn(name)
  BY DEF OfBuiltIn
<1>2. OnceSeeded'
  BY <1>1 DEF TemplatesInv, OnceSeeded
<1>3. \A n : SeededBelow(n, templates) => SeededBelow(n, templates')
  BY DEF SeededBelow
<1>4. AllPassed'
  BY <1>3 DEF TemplatesInv, AllPassed, Passed
<1> QED  BY <1>2, <1>4 DEF TemplatesInv, ReadersSound

LEMMA CreatedTyped ==
    ASSUME RowsTyped, NEW owner \in Businesses \cup {"all"}, NEW name \in Names \cup {"own"},
           owner = "all" => name \in Names, Created(owner, name)
    PROVE  RowsTyped'
<1> DEFINE new == [id |-> lastTemplate + 1, owner |-> owner, name |-> name]
<1>1. /\ lastTemplate' = lastTemplate + 1 /\ lastTemplate' \in 1 .. MaxTemplates
      /\ templates' = templates \cup {new}
  BY BuiltInsTyped DEF Created, RowsTyped
<1>2. new \in Template /\ new.id = lastTemplate + 1 /\ new.owner = owner /\ new.name = name
  BY <1>1 DEF Template
<1>3. IsFiniteSet(templates')
  BY <1>1, FS_AddElement DEF RowsTyped
<1>4. \A t \in templates : t.id \in Nat /\ t.id < new.id
  BY <1>2 DEF RowsTyped, Template
<1> HIDE DEF new
<1> QED  BY <1>1, <1>2, <1>3, <1>4 DEF RowsTyped

LEMMA SaveTemplateSeeds ==
    ASSUME TemplatesInv, NEW b \in Businesses, SaveTemplate(b)
    PROVE  TemplatesInv'
<1>1. RowsTyped'
  BY CreatedTyped, BuiltInsTyped DEF TemplatesInv, SaveTemplate
<1> QED  BY <1>1, BuiltInsTyped, OwnRows DEF SaveTemplate, Created

LEMMA DeleteTemplateSeeds ==
    ASSUME TemplatesInv, NEW b \in Businesses, DeleteTemplate(b)
    PROVE  TemplatesInv'
<1>1. PICK id \in 1 .. lastTemplate : templates' = templates \ Deletable(b, id)
  BY DEF DeleteTemplate
<1>2. IsFiniteSet(templates')
  BY <1>1, FS_Subset DEF TemplatesInv, RowsTyped
<1>3. RowsTyped'
  BY <1>1, <1>2 DEF TemplatesInv, RowsTyped, DeleteTemplate
<1> QED  BY <1>1, <1>3, BuiltInsTyped, OwnRows DEF DeleteTemplate, Deletable

LEMMA StartListSeeds ==
    ASSUME TemplatesInv, NEW l \in Readers, StartList(l)
    PROVE  TemplatesInv'
<1>1. PICK b \in Businesses :
          reader' = [reader EXCEPT ![l] = [NoReader EXCEPT !.pc = "count", !.owner = b]]
  BY DEF StartList
<1> DEFINE k == [NoReader EXCEPT !.pc = "count", !.owner = b]
<1>2. NoReader \in Reader /\ NoReader.found = 0
  BY BuiltInsTyped DEF NoReader, Reader
<1>3. k \in Reader /\ k.pc = "count" /\ k.found = 0
  BY <1>2 DEF Reader
<1> HIDE DEF k
<1>4. reader' = [reader EXCEPT ![l] = k]
  BY <1>1 DEF k
<1> QED  BY <1>3, <1>4, ReaderMoves DEF StartList, ReaderSound, Passed

\* As many rows as there are built-ins, all of different names, are all of them.
LEMMA CountTells ==
    ASSUME TemplatesInv, contested = {},
           ~(Cardinality({t \in templates : t.owner = "all"}) < Len(BuiltIns))
    PROVE  SeededBelow(Len(BuiltIns) + 1, templates)
<1> DEFINE Own == {t \in templates : t.owner = "all"}
           name == [t \in Own |-> t.name]
<1>1. IsFiniteSet(Own) /\ Cardinality(Own) \in Nat
  BY FS_Subset, FS_CardinalityType DEF TemplatesInv, RowsTyped
<1>2. IsFiniteSet(Names) /\ Cardinality(Names) <= Len(BuiltIns)
  <2>1. IsFiniteSet(1 .. Len(BuiltIns)) /\ Cardinality(1 .. Len(BuiltIns)) = Len(BuiltIns)
    BY BuiltInsTyped, FS_Interval
  <2> DEFINE builtIn == [i \in 1 .. Len(BuiltIns) |-> BuiltIns[i]]
  <2>2. builtIn \in Surjection(1 .. Len(BuiltIns), Names)
    BY BuiltInsTyped DEF Surjection, Names
  <2> HIDE DEF builtIn
  <2> QED  BY <2>1, <2>2, FS_Surjection
<1>3. Cardinality(Names) \in Nat
  BY <1>2, FS_CardinalityType
<1>4. \A t \in Own : t.name \in Names
  BY DEF TemplatesInv, RowsTyped
<1>5. \A s, t \in Own : s.name = t.name => s = t
  BY <1>4 DEF TemplatesInv, OnceSeeded, Single, OfBuiltIn
<1>6. name \in Injection(Own, Names)
  BY <1>4, <1>5 DEF Injection, IsInjective
<1>7. Cardinality(Own) <= Cardinality(Names)
  BY <1>2, <1>6, FS_Injection
<1>8. Cardinality(Own) = Cardinality(Names)
  BY <1>1, <1>2, <1>3, <1>7, BuiltInsTyped
<1>9. name \in Surjection(Own, Names)
  BY <1>2, <1>6, <1>8, FS_Injection
<1>10. \A n \in Names : \E t \in Own : t.name = n
  BY <1>9 DEF Surjection
<1> QED  BY <1>10, BuiltInsTyped DEF SeededBelow

LEMMA CountSeeds ==
    ASSUME TemplatesInv, NEW l \in Readers, Count(l)
    PROVE  TemplatesInv'
<1> DEFINE few == Cardinality({t \in templates : t.owner = "all"}) < Len(BuiltIns)
           next == IF few THEN "find" ELSE "list"
           k == [reader[l] EXCEPT !.pc = next, !.at = 1]
<1>1. reader[l].pc = "count" /\ reader[l] \in Reader /\ reader[l].found = 0
  BY DEF Count, TemplatesInv, ReadersSound, ReaderSound
<1>2. reader' = [reader EXCEPT ![l] = k]
  BY DEF Count, TemplatesInv, ReadersSound
<1>9. next \in {"find", "list"} /\ 1 \in 0 .. Len(BuiltIns)
  BY BuiltInsTyped
<1> HIDE DEF next
<1>3. k \in Reader /\ k.pc = next /\ k.at = 1 /\ k.found = 0
  BY <1>1, <1>9 DEF Reader
<1>4. SeededBelow(1, templates)
  BY BuiltInsTyped DEF SeededBelow
<1>5. contested = {} /\ ~few => SeededBelow(Len(BuiltIns) + 1, templates)
  BY CountTells
<1> HIDE DEF k, few
<1>6. contested = {} => Passed(k, templates)
  BY <1>3, <1>4, <1>5 DEF Passed, next
<1>7. ReaderSound(k) /\ k.pc # "write"
  BY <1>3, <1>9 DEF ReaderSound
<1> QED  BY <1>2, <1>6, <1>7, ReaderMoves DEF Count

LEMMA ListTemplatesSeeds ==
    ASSUME TemplatesInv, NEW l \in Readers, ListTemplates(l)
    PROVE  TemplatesInv'
<1> DEFINE seen == {t \in templates : t.owner \in {"all", reader[l].owner}}
           k == [reader[l] EXCEPT !.pc = "listed", !.at = 0, !.rows = seen]
<1>1. reader[l].pc = "list" /\ reader[l] \in Reader /\ reader[l].found = 0
  BY DEF ListTemplates, TemplatesInv, ReadersSound, ReaderSound
<1>2. reader' = [reader EXCEPT ![l] = k]
  BY DEF ListTemplates, TemplatesInv, ReadersSound
<1>3. seen \subseteq Template
  BY DEF TemplatesInv, RowsTyped
<1>6. 0 \in 0 .. Len(BuiltIns)
  BY BuiltInsTyped
<1>5. contested = {} => SeededBelow(Len(BuiltIns) + 1, seen)
  BY <1>1 DEF TemplatesInv, AllPassed, Passed, SeededBelow
<1> HIDE DEF seen
<1>4. k \in Reader /\ k.pc = "listed" /\ k.found = 0 /\ k.rows = seen
  BY <1>1, <1>3, <1>6 DEF Reader
<1> HIDE DEF k
<1> QED  BY <1>2, <1>4, <1>5, ReaderMoves DEF ListTemplates, Passed, ReaderSound

LEMMA ReadFailsSeeds ==
    ASSUME TemplatesInv, NEW l \in Readers, ReadFails(l)
    PROVE  TemplatesInv'
<1>1. NoReader \in Reader /\ NoReader.pc = "idle" /\ NoReader.found = 0
  BY BuiltInsTyped DEF NoReader, Reader
<1> QED  BY <1>1, ReaderMoves DEF ReadFails, ReaderSound, Passed

LEMMA FindBuiltInSeeds ==
    ASSUME TemplatesInv, NEW l \in Readers, FindBuiltIn(l)
    PROVE  TemplatesInv'
<1> DEFINE name == BuiltIns[reader[l].at]
           rivals == {k \in Readers \ {l} : reader[k].pc = "write"
                                            /\ reader[k].at = reader[l].at
                                            /\ reader[k].found = 0}
<1>1. /\ reader[l].pc = "find" /\ reader[l] \in Reader /\ reader[l].found = 0
      /\ reader[l].at \in 1 .. Len(BuiltIns)
      /\ contested' = IF rivals = {} THEN contested ELSE contested \cup {name}
      /\ templates' = templates /\ lastTemplate' = lastTemplate
  BY BuiltInsTyped DEF FindBuiltIn, TemplatesInv, ReadersSound, ReaderSound, Reader
<1>2. PICK k \in Reader :
          /\ reader' = [reader EXCEPT ![l] = k]
          /\ k.pc = "write" /\ k.at = reader[l].at
          /\ k.found = 0 => OfBuiltIn(name) = {}
          /\ k.found # 0 => OfBuiltIn(name) # {}
  <2>1. CASE Existing(name) = {} /\ reader' = [reader EXCEPT ![l].pc = "write"]
    <3> DEFINE k == [reader[l] EXCEPT !.pc = "write"]
    <3>1. reader' = [reader EXCEPT ![l] = k]
      BY <2>1 DEF TemplatesInv, ReadersSound
    <3>2. k \in Reader /\ k.pc = "write" /\ k.at = reader[l].at /\ k.found = 0
      BY <1>1 DEF Reader
    <3> HIDE DEF k
    <3> QED  BY <2>1, <3>1, <3>2 DEF Existing
  <2>2. CASE \E t \in Existing(name) :
                reader' = [reader EXCEPT ![l].pc = "write", ![l].found = t.id]
    <3>1. PICK t \in Existing(name) :
                reader' = [reader EXCEPT ![l].pc = "write", ![l].found = t.id]
      BY <2>2
    <3>2. t \in OfBuiltIn(name) /\ t.id \in 1 .. MaxTemplates
      BY <3>1 DEF Existing, OfBuiltIn, TemplatesInv, RowsTyped, Template
    <3>5. t.id \in 0 .. MaxTemplates /\ t.id # 0
      BY <3>2, BuiltInsTyped
    <3> DEFINE k == [reader[l] EXCEPT !.pc = "write", !.found = t.id]
    <3>3. reader' = [reader EXCEPT ![l] = k]
      BY <3>1 DEF TemplatesInv, ReadersSound
    <3>4. k \in Reader /\ k.pc = "write" /\ k.at = reader[l].at /\ k.found = t.id
      BY <1>1, <3>5 DEF Reader
    <3> HIDE DEF k
    <3> QED  BY <3>2, <3>3, <3>4, <3>5
  <2> QED  BY <2>1, <2>2 DEF FindBuiltIn
<1>4. \A m \in Readers : reader'[m] = IF m = l THEN k ELSE reader[m]
  BY <1>2 DEF TemplatesInv, ReadersSound
<1>5. RowsTyped'
  BY <1>1 DEF TemplatesInv, RowsTyped
<1>6. ReadersSound'
  <2>1. ReaderSound(k)
    BY <1>1, <1>2 DEF ReaderSound
  <2> QED  BY <1>2, <1>4, <2>1 DEF TemplatesInv, ReadersSound
<1>7. OnceSeeded'
  <2> SUFFICES ASSUME NEW n \in Names \ contested'
               PROVE  Single(n, OfBuiltIn(n), reader')
    BY <1>1 DEF OnceSeeded, OfBuiltIn
  <2>1. Single(n, OfBuiltIn(n), reader)
    BY <1>1 DEF TemplatesInv, OnceSeeded
  <2>2. CASE Makes(k, n)
    <3>1. n = name /\ OfBuiltIn(n) = {}
      BY <1>2, <2>2 DEF Makes
    <3>2. \A m \in Readers \ {l} : ~Makes(reader[m], n)
      <4> SUFFICES ASSUME NEW m \in Readers \ {l}, Makes(reader[m], n) PROVE FALSE
        OBVIOUS
      <4>1. reader[m].at \in 1 .. Len(BuiltIns)
        BY BuiltInsTyped DEF TemplatesInv, ReadersSound, ReaderSound, Reader, Makes
      <4>2. reader[m].at = reader[l].at
        BY <1>1, <3>1, <4>1, BuiltInsTyped DEF Makes
      <4> QED  BY <1>1, <3>1, <4>2 DEF Makes
    <3> QED  BY <1>4, <2>1, <3>1, <3>2 DEF Single
  <2>3. CASE ~Makes(k, n)
    BY <1>4, <2>1, <2>3 DEF Single
  <2> QED  BY <2>2, <2>3
<1>8. AllPassed'
  <2> SUFFICES ASSUME contested' = {} PROVE \A m \in Readers : Passed(reader'[m], templates)
    BY <1>1 DEF AllPassed
  <2>1. contested = {}
    BY <1>1
  <2>2. SeededBelow(reader[l].at, templates)
    BY <1>1, <2>1 DEF TemplatesInv, AllPassed, Passed
  <2>3. k.found # 0 => SeededBelow(reader[l].at + 1, templates)
    <3> SUFFICES ASSUME k.found # 0, NEW i \in 1 .. Len(BuiltIns), i < reader[l].at + 1
                 PROVE  \E t \in templates : t.owner = "all" /\ t.name = BuiltIns[i]
      BY BuiltInsTyped DEF SeededBelow
    <3>1. CASE i = reader[l].at
      BY <1>2, <3>1 DEF OfBuiltIn
    <3>2. CASE i < reader[l].at
      BY <2>2, <3>2, BuiltInsTyped DEF SeededBelow
    <3> QED  BY <1>1, <3>1, <3>2
  <2> QED  BY <1>2, <1>4, <2>1, <2>2, <2>3 DEF TemplatesInv, AllPassed, Passed
<1> QED  BY <1>5, <1>6, <1>7, <1>8 DEF TemplatesInv

LEMMA WriteBuiltInSeeds ==
    ASSUME TemplatesInv, NEW l \in Readers, WriteBuiltIn(l)
    PROVE  TemplatesInv'
<1> DEFINE j == reader[l]
           k == IF j.at < Len(BuiltIns)
                THEN [j EXCEPT !.pc = "find", !.at = j.at + 1, !.found = 0]
                ELSE [j EXCEPT !.pc = "list", !.found = 0]
<1>1. /\ j.pc = "write" /\ j \in Reader /\ j.at \in 1 .. Len(BuiltIns)
      /\ contested' = contested /\ reader' = [reader EXCEPT ![l] = k]
      /\ IF j.found # 0 THEN UNCHANGED <<templates, lastTemplate>>
         ELSE Created("all", BuiltIns[j.at])
  BY BuiltInsTyped DEF WriteBuiltIn, TemplatesInv, ReadersSound, ReaderSound, Reader
<1>2. /\ k \in Reader /\ k.found = 0 /\ k.rows = j.rows
      /\ k.pc = (IF j.at < Len(BuiltIns) THEN "find" ELSE "list")
      /\ j.at < Len(BuiltIns) => k.at = j.at + 1
  <2>1. CASE j.at < Len(BuiltIns)
    <3> DEFINE h == [j EXCEPT !.pc = "find", !.at = j.at + 1, !.found = 0]
    <3>1. j.at + 1 \in 0 .. Len(BuiltIns) /\ 0 \in 0 .. MaxTemplates
      BY <1>1, <2>1, BuiltInsTyped
    <3>2. h \in Reader /\ h.found = 0 /\ h.rows = j.rows /\ h.pc = "find" /\ h.at = j.at + 1
      BY <1>1, <3>1 DEF Reader
    <3>3. k = h
      BY <2>1
    <3> HIDE DEF h, k
    <3> QED  BY <2>1, <3>2, <3>3
  <2>2. CASE ~(j.at < Len(BuiltIns))
    <3> DEFINE h == [j EXCEPT !.pc = "list", !.found = 0]
    <3>1. h \in Reader /\ h.found = 0 /\ h.rows = j.rows /\ h.pc = "list"
      BY <1>1, BuiltInsTyped DEF Reader
    <3>2. k = h
      BY <2>2
    <3> HIDE DEF h, k
    <3> QED  BY <2>2, <3>1, <3>2
  <2> QED  BY <2>1, <2>2
<1> HIDE DEF k
<1>3. \A m \in Readers : reader'[m] = IF m = l THEN k ELSE reader[m]
  BY <1>1 DEF TemplatesInv, ReadersSound
<1>4. RowsTyped'
  <2>1. BuiltIns[j.at] \in Names
    BY <1>1, BuiltInsTyped
  <2>2. CASE j.found = 0
    BY <1>1, <2>1, <2>2, CreatedTyped DEF TemplatesInv
  <2>3. CASE j.found # 0
    BY <1>1, <2>3 DEF TemplatesInv, RowsTyped
  <2> QED  BY <2>2, <2>3
<1>5. ReadersSound'
  <2>1. ReaderSound(k)
    BY <1>1, <1>2, BuiltInsTyped DEF ReaderSound
  <2> QED  BY <1>1, <1>2, <1>3, <2>1 DEF TemplatesInv, ReadersSound
<1>6. /\ templates \subseteq templates'
      /\ \A n \in Names : OfBuiltIn(n)' # OfBuiltIn(n) =>
             j.found = 0 /\ n = BuiltIns[j.at] /\ \E t : OfBuiltIn(n)' = OfBuiltIn(n) \cup {t}
      /\ j.found = 0 => \E t \in templates' : t.owner = "all" /\ t.name = BuiltIns[j.at]
  <2>1. CASE j.found # 0
    BY <1>1, <2>1 DEF OfBuiltIn
  <2>2. CASE j.found = 0
    <3> DEFINE new == [id |-> lastTemplate + 1, owner |-> "all", name |-> BuiltIns[j.at]]
    <3>1. templates' = templates \cup {new}
      BY <1>1, <2>2 DEF Created
    <3>2. new.owner = "all" /\ new.name = BuiltIns[j.at]
      OBVIOUS
    <3> HIDE DEF new
    <3>3. \A n : OfBuiltIn(n)' = OfBuiltIn(n) \cup (IF n = BuiltIns[j.at] THEN {new} ELSE {})
      BY <3>1, <3>2 DEF OfBuiltIn
    <3> QED  BY <2>2, <3>1, <3>2, <3>3
  <2> QED  BY <2>1, <2>2
<1>7. OnceSeeded'
  <2> SUFFICES ASSUME NEW n \in Names \ contested
               PROVE  Single(n, OfBuiltIn(n)', reader')
    BY <1>1 DEF OnceSeeded
  <2>1. Single(n, OfBuiltIn(n), reader)
    BY DEF TemplatesInv, OnceSeeded
  <2>2. ~Makes(k, n)
    BY <1>2 DEF Makes
  <2>3. CASE OfBuiltIn(n)' = OfBuiltIn(n)
    BY <1>3, <2>1, <2>2, <2>3 DEF Single
  <2>4. CASE OfBuiltIn(n)' # OfBuiltIn(n)
    <3>1. Makes(j, n) /\ \E t : OfBuiltIn(n)' = OfBuiltIn(n) \cup {t}
      BY <1>1, <1>6, <2>4 DEF Makes
    <3>2. OfBuiltIn(n) = {} /\ \A m \in Readers \ {l} : ~Makes(reader[m], n)
      BY <2>1, <3>1 DEF Single
    <3> QED  BY <1>3, <2>2, <3>1, <3>2 DEF Single
  <2> QED  BY <2>3, <2>4
<1>8. AllPassed'
  <2> SUFFICES ASSUME contested = {}
               PROVE  \A m \in Readers : Passed(reader'[m], templates')
    BY <1>1 DEF AllPassed
  <2>1. \A m \in Readers : Passed(reader[m], templates)
    BY DEF TemplatesInv, AllPassed
  <2>2. \A n : SeededBelow(n, templates) => SeededBelow(n, templates')
    BY <1>6 DEF SeededBelow
  <2>3. SeededBelow(j.at + 1, templates')
    <3>1. CASE j.found # 0
      BY <1>1, <2>1, <2>2, <3>1 DEF Passed
    <3>2. CASE j.found = 0
      <4> SUFFICES ASSUME NEW i \in 1 .. Len(BuiltIns), i < j.at + 1
                   PROVE  \E t \in templates' : t.owner = "all" /\ t.name = BuiltIns[i]
        BY BuiltInsTyped DEF SeededBelow
      <4>1. CASE i = j.at
        BY <1>6, <3>2, <4>1
      <4>2. CASE i < j.at
        BY <1>1, <2>1, <2>2, <4>2, BuiltInsTyped DEF SeededBelow, Passed
      <4> QED  BY <1>1, <4>1, <4>2
    <3> QED  BY <3>1, <3>2
  <2>4. ~(j.at < Len(BuiltIns)) => j.at = Len(BuiltIns)
    BY <1>1, BuiltInsTyped
  <2>5. Passed(k, templates')
    BY <1>2, <2>3, <2>4 DEF Passed
  <2>6. \A m \in Readers : Passed(reader[m], templates')
    BY <2>1, <2>2 DEF Passed
  <2> QED  BY <1>3, <2>5, <2>6
<1> QED  BY <1>4, <1>5, <1>7, <1>8 DEF TemplatesInv

LEMMA TemplatesStep ==
    ASSUME TemplatesInv, TemplatesNext \/ UNCHANGED templateVars
    PROVE  TemplatesInv'
<1>1. CASE UNCHANGED templateVars
  <2>1. \A name : OfBuiltIn(name)' = OfBuiltIn(name)
    BY <1>1 DEF templateVars, OfBuiltIn
  <2> QED
    BY <1>1, <2>1 DEF templateVars, TemplatesInv, RowsTyped, ReadersSound, OnceSeeded, AllPassed
<1>2. CASE TemplatesNext
  BY <1>2, SaveTemplateSeeds, DeleteTemplateSeeds, StartListSeeds, CountSeeds,
     ListTemplatesSeeds, ReadFailsSeeds, FindBuiltInSeeds, WriteBuiltInSeeds
  DEF TemplatesNext
<1> QED  BY <1>1, <1>2

LEMMA SeededByInv == TemplatesInv => BuiltInsSeeded
<1> SUFFICES ASSUME TemplatesInv PROVE BuiltInsSeeded
  OBVIOUS
<1>1. BuiltInsOnce
  <2> SUFFICES ASSUME NEW name \in Names \ contested
               PROVE  ~(Cardinality(OfBuiltIn(name)) > 1)
    BY DEF BuiltInsOnce
  <2>1. \A s, t \in OfBuiltIn(name) : s = t
    BY DEF TemplatesInv, OnceSeeded, Single
  <2>2. CASE OfBuiltIn(name) = {}
    BY <2>2, FS_EmptySet
  <2>3. CASE OfBuiltIn(name) # {}
    <3>1. PICK t : t \in OfBuiltIn(name)
      BY <2>3
    <3>2. OfBuiltIn(name) = {t}
      BY <2>1, <3>1
    <3>3. Cardinality(OfBuiltIn(name)) = 1
      BY <3>2, FS_Singleton
    <3> QED  BY <3>3
  <2> QED  BY <2>2, <2>3
<1>2. BuiltInsListed
  <2> SUFFICES ASSUME NEW l \in Readers, reader[l].pc = "listed", contested = {},
                      NEW name \in Names
               PROVE  \E t \in reader[l].rows : t.owner = "all" /\ t.name = name
    BY DEF BuiltInsListed
  <2>1. PICK i \in DOMAIN BuiltIns : name = BuiltIns[i]
    BY DEF Names
  <2>2. i < Len(BuiltIns) + 1
    BY BuiltInsTyped
  <2> QED  BY <2>1, <2>2 DEF TemplatesInv, AllPassed, Passed, SeededBelow
<1> QED  BY <1>1, <1>2 DEF BuiltInsSeeded

-----------------------------------------------------------------------------
(* The rows of the organisation: what is known of them and of whoever       *)
(* works on them.                                                           *)

Hands == Editors \cup Requests

AtWork(g) == g.pc \in {"clear", "insert"}

OwnTyped ==
    /\ organisation \in 0 .. MaxOrganisations
    /\ agents \in [Agents -> Writers \cup {None}]
    /\ tools \in [Agents -> SUBSET ToolRow]
    /\ \A a \in Agents : agents[a] = None => tools[a] = {} /\ a \notin members
    /\ \A a \in Agents : \A s, t \in tools[a] : s[1] = t[1] => s = t
    /\ types \subseteq Types /\ members \subseteq Agents
    /\ organisation = 0 => /\ ~currency /\ ~workflow /\ ~documents /\ types = {}
                           /\ \A a \in Agents : agents[a] = None

RequestSound(k, last) ==
    /\ k \in Request /\ k.row <= last
    /\ k.pc \in Provisioning \cup {"resolved", "cascade"} => k.row # 0
    /\ k.pc \in {"agent", "grant", "member"} => k.at \in DOMAIN Starters
    /\ k.pc \in {"type", "newtype"} => k.at \in DOMAIN StarterTypes

GrantSound(g, last) ==
    /\ g \in Grant /\ g.row <= last
    /\ AtWork(g) => g.agent # None /\ g.row # 0

\* A request sets the tools of the agent it has just upserted.
Matches(k, g) ==
    /\ AtWork(g) <=> k.pc = "grant"
    /\ k.pc = "grant" => g.row = k.row /\ g.agent = Starters[k.at]

\* A row is provisioned by the one request that created it.
OneProvisions(k) ==
    \A r, s \in Requests : k[r].pc \in Provisioning /\ k[s].pc \in Provisioning
                               /\ k[r].row = k[s].row => r = s

LocalSound ==
    /\ lastOrganisation \in 0 .. MaxOrganisations /\ organisation <= lastOrganisation
    /\ request \in [Requests -> Request] /\ grant \in [Hands -> Grant]
    /\ \A r \in Requests : RequestSound(request[r], lastOrganisation)
    /\ \A w \in Hands : GrantSound(grant[w], lastOrganisation)
    /\ \A r \in Requests : Matches(request[r], grant[r])
    /\ OneProvisions(request)

LEMMA ListsTyped ==
    /\ Len(Starters) \in Nat /\ Len(Starters) >= 1 /\ DOMAIN Starters = 1 .. Len(Starters)
    /\ Len(StarterTypes) \in Nat /\ Len(StarterTypes) >= 1
    /\ DOMAIN StarterTypes = 1 .. Len(StarterTypes)
    /\ \A i \in 1 .. Len(Starters) : Starters[i] \in StarterAgents /\ Starters[i] \in Agents
    /\ \A i \in 1 .. Len(StarterTypes) : StarterTypes[i] \in Types
    /\ MaxOrganisations \in Nat /\ MaxOrganisations >= 1
    /\ \A r \in Requests : r \notin Editors /\ r \in Hands
    /\ \A e \in Editors : e \notin Requests /\ e \in Hands
    /\ "template" \notin Editors /\ None \notin Agents /\ None \notin Writers
<1>1. /\ Len(Starters) \in Nat /\ DOMAIN Starters = 1 .. Len(Starters) /\ Starters # <<>>
      /\ Starters \in Seq(StarterAgents)
  BY ProvisioningAssumption
<1>2. /\ Len(StarterTypes) \in Nat /\ DOMAIN StarterTypes = 1 .. Len(StarterTypes)
      /\ StarterTypes # <<>> /\ StarterTypes \in Seq(Types)
  BY ProvisioningAssumption
<1>3. Len(Starters) >= 1 /\ Len(StarterTypes) >= 1
  BY <1>1, <1>2
<1> QED  BY <1>1, <1>2, <1>3, ProvisioningAssumption DEF Agents, Hands, StarterAgents, Types

LEMMA NothingYet ==
    /\ NoRequest \in Request /\ NoRequest.pc = "idle" /\ NoRequest.row = 0
    /\ NoGrant \in Grant /\ NoGrant.pc = "idle" /\ NoGrant.row = 0
    /\ ~AtWork(NoGrant)
  BY ListsTyped DEF NoRequest, Request, RequestPc, NoGrant, Grant, AtWork

\* One request goes on, with its grant.
LEMMA RequestTurns ==
    ASSUME LocalSound, NEW r \in Requests, NEW k, NEW g,
           request' = [request EXCEPT ![r] = k],
           grant' = [grant EXCEPT ![r] = g],
           lastOrganisation' \in 0 .. MaxOrganisations,
           lastOrganisation <= lastOrganisation', organisation' <= lastOrganisation',
           RequestSound(k, lastOrganisation'), GrantSound(g, lastOrganisation'),
           Matches(k, g),
           k.pc \in Provisioning =>
               \/ request[r].pc \in Provisioning /\ k.row = request[r].row
               \/ k.row > lastOrganisation
    PROVE  LocalSound'
<1>1. \A s \in Requests : request'[s] = IF s = r THEN k ELSE request[s]
  BY DEF LocalSound
<1>2. \A w \in Hands : grant'[w] = IF w = r THEN g ELSE grant[w]
  BY ListsTyped DEF LocalSound
<1>3. request' \in [Requests -> Request] /\ grant' \in [Hands -> Grant]
  BY DEF LocalSound, RequestSound, GrantSound
<1>4. ASSUME NEW s \in Requests PROVE RequestSound(request'[s], lastOrganisation')
  BY <1>1 DEF LocalSound, RequestSound, Request
<1>5. ASSUME NEW w \in Hands PROVE GrantSound(grant'[w], lastOrganisation')
  BY <1>2 DEF LocalSound, GrantSound, Grant
<1>6. \A s \in Requests : Matches(request'[s], grant'[s])
  BY <1>1, <1>2, ListsTyped DEF LocalSound
<1>7. \A s \in Requests : request[s].row \in Nat /\ request[s].row <= lastOrganisation
  BY DEF LocalSound, RequestSound, Request
<1>8. OneProvisions(request')
  <2>1. \A s \in Requests \ {r} : ~(k.row > lastOrganisation /\ k.row = request[s].row)
    BY <1>7 DEF LocalSound
  <2> QED  BY <1>1, <2>1 DEF OneProvisions, LocalSound
<1> QED  BY <1>3, <1>4, <1>5, <1>6, <1>8 DEF LocalSound

\* One grant goes on for its editor.
LEMMA GrantTurns ==
    ASSUME LocalSound, NEW w \in Hands, NEW g,
           UNCHANGED <<organisation, lastOrganisation, request>>,
           grant' = [grant EXCEPT ![w] = g],
           GrantSound(g, lastOrganisation),
           w \in Requests => Matches(request[w], g)
    PROVE  LocalSound'
<1>1. \A v \in Hands : grant'[v] = IF v = w THEN g ELSE grant[v]
  BY DEF LocalSound
<1>2. grant' \in [Hands -> Grant]
  BY DEF LocalSound, GrantSound
<1>3. \A v \in Hands : GrantSound(grant'[v], lastOrganisation')
  BY <1>1 DEF LocalSound
<1>4. \A s \in Requests : Matches(request'[s], grant'[s])
  BY <1>1, ListsTyped DEF LocalSound
<1> QED  BY <1>2, <1>3, <1>4 DEF LocalSound, OneProvisions

-----------------------------------------------------------------------------
(* The tools of the agents: an agent whose edits did not overlap has one    *)
(* grant at work at most, which sees its rows as they are.                  *)

GrantOf(w, a) == AtWork(grant[w]) /\ grant[w].agent = a

AgentSound(a) ==
    /\ \A v, w \in Hands : GrantOf(v, a) /\ GrantOf(w, a) => v = w
    /\ \A w \in Hands : GrantOf(w, a) =>
           /\ grant[w].row = organisation /\ agents[a] = WriterOf(w)
           /\ grant[w].pc = "insert" => grant[w].seen = tools[a]
    /\ (\E w \in Hands : GrantOf(w, a)) \/ {row[1] : row \in tools[a]} = Wanted(agents[a], a)

GrantsSound == \A a \in Agents \ mixed : agents[a] # None => AgentSound(a)

LEMMA AtWorkKnown ==
    ASSUME LocalSound, NEW a
    PROVE  IsAtWork(a) <=> \E w \in Hands : GrantOf(w, a)
  BY DEF LocalSound, IsAtWork, GrantOf, AtWork

LEMMA GrantsWholeByInv == LocalSound /\ GrantsSound => GrantsWhole
  BY AtWorkKnown DEF GrantsSound, GrantsWhole, AgentSound

\* Nothing happens to the grants at work, nor to the rows.
LEMMA GrantsKept ==
    ASSUME GrantsSound, UNCHANGED <<organisation, agents, tools>>, mixed \subseteq mixed',
           \A w \in Hands : \/ grant'[w] = grant[w]
                            \/ ~AtWork(grant[w]) /\ ~AtWork(grant'[w])
    PROVE  GrantsSound'
<1> SUFFICES ASSUME NEW a \in Agents \ mixed, agents[a] # None PROVE AgentSound(a)'
  BY DEF GrantsSound
<1>1. AgentSound(a)
  BY DEF GrantsSound
<1>2. \A w \in Hands : GrantOf(w, a)' <=> GrantOf(w, a)
  BY DEF GrantOf
<1>3. \A w \in Hands : GrantOf(w, a) => grant'[w] = grant[w]
  BY DEF GrantOf
<1> QED  BY <1>1, <1>2, <1>3 DEF AgentSound, WriterOf, Wanted

\* A grant of an agent that is there breaks off: its agent is mixed from now on.
LEMMA GrantsBreak ==
    ASSUME LocalSound, GrantsSound, UNCHANGED <<organisation, agents, tools>>,
           mixed \subseteq mixed', NEW w \in Hands, NEW g, ~AtWork(g),
           grant' = [grant EXCEPT ![w] = g],
           AtWork(grant[w]) /\ grant[w].row = organisation => grant[w].agent \in mixed'
    PROVE  GrantsSound'
<1> SUFFICES ASSUME NEW a \in Agents \ mixed', agents[a] # None PROVE AgentSound(a)'
  BY DEF GrantsSound
<1>1. AgentSound(a)
  BY DEF GrantsSound
<1>2. \A v \in Hands : grant'[v] = IF v = w THEN g ELSE grant[v]
  BY DEF LocalSound
<1>3. ~GrantOf(w, a)
  BY <1>1 DEF AgentSound, GrantOf
<1>4. \A v \in Hands : GrantOf(v, a)' <=> GrantOf(v, a)
  BY <1>2, <1>3 DEF GrantOf
<1>5. \A v \in Hands : GrantOf(v, a) => grant'[v] = grant[v]
  BY <1>2, <1>3
<1> QED  BY <1>1, <1>4, <1>5 DEF AgentSound, WriterOf, Wanted

\* The columns of an agent are written, and its tools come next.
LEMMA GrantBegins ==
    ASSUME LocalSound, GrantsSound, UNCHANGED <<organisation, tools>>,
           NEW w \in Hands, NEW a \in Agents, ~AtWork(grant[w]),
           agents \in [Agents -> Writers \cup {None}],
           agents' = [agents EXCEPT ![a] = WriterOf(w)],
           grant' = [grant EXCEPT ![w] =
               [NoGrant EXCEPT !.pc = "clear", !.agent = a, !.row = organisation]],
           mixed' = IF IsAtWork(a) THEN mixed \cup {a} ELSE mixed
    PROVE  GrantsSound'
<1> DEFINE g == [NoGrant EXCEPT !.pc = "clear", !.agent = a, !.row = organisation]
<1>1. g.pc = "clear" /\ g.agent = a /\ g.row = organisation
  BY DEF NoGrant
<1>2. \A v \in Hands : grant'[v] = IF v = w THEN g ELSE grant[v]
  BY DEF LocalSound
<1> HIDE DEF g
<1> SUFFICES ASSUME NEW b \in Agents \ mixed', agents'[b] # None PROVE AgentSound(b)'
  BY DEF GrantsSound
<1>3. CASE b = a
  <2>1. \A v \in Hands : ~GrantOf(v, a)
    BY <1>3, AtWorkKnown
  <2>2. \A v \in Hands : GrantOf(v, a)' <=> v = w
    BY <1>1, <1>2, <2>1 DEF GrantOf, AtWork
  <2>3. agents'[a] = WriterOf(w)
    OBVIOUS
  <2> QED  BY <1>1, <1>2, <1>3, <2>2, <2>3 DEF AgentSound, WriterOf
<1>4. CASE b # a
  <2>1. agents'[b] = agents[b] /\ b \notin mixed
    BY <1>4
  <2>2. AgentSound(b)
    BY <2>1 DEF GrantsSound
  <2>3. \A v \in Hands : GrantOf(v, b)' <=> GrantOf(v, b)
    BY <1>1, <1>2, <1>4 DEF GrantOf, AtWork
  <2>4. \A v \in Hands : GrantOf(v, b) => grant'[v] = grant[v]
    BY <1>2 DEF GrantOf
  <2> QED  BY <2>1, <2>2, <2>3, <2>4 DEF AgentSound, WriterOf, Wanted
<1> QED  BY <1>3, <1>4

\* Without agents there is nothing to say.
LEMMA NoAgentsLeft ==
    ASSUME \A a \in Agents : agents'[a] = None
    PROVE  GrantsSound'
  BY DEF GrantsSound

-----------------------------------------------------------------------------
(* The starter workflow: how far its provisioning has come.                 *)

Made == types \cup altered
Joined == members \cup altered
Equipped == {a \in StarterAgents : a \in altered \/ tools[a] = TemplateTools[a] \X {"template"}}

Runs(k, row) == k.pc \in Provisioning /\ k.row = row

Progress(k, hasCurrency, hasWorkflow, made, joined, equipped) ==
    /\ k.pc # "currency" => hasCurrency
    /\ \A i \in DOMAIN Starters :
           k.pc # "currency" /\ (k.pc \in {"agent", "grant"} => i < k.at) => Starters[i] \in equipped
    /\ \A i \in DOMAIN StarterTypes :
           k.pc \in {"type", "newtype"} /\ i < k.at => StarterTypes[i] \in made
    /\ k.pc \in {"workflow", "member"} => Types \subseteq made
    /\ k.pc = "member" => hasWorkflow
    /\ \A i \in DOMAIN Starters : k.pc = "member" /\ i < k.at => Starters[i] \in joined

Whole(hasCurrency, hasWorkflow, made, joined, equipped) ==
    /\ hasCurrency /\ hasWorkflow
    /\ Types \subseteq made /\ StarterAgents \subseteq joined /\ StarterAgents \subseteq equipped

\* The agent whose tools are being set is there, and its rows are seen.
Inserting(k, g) ==
    k.pc = "grant" /\ k.row = organisation /\ g.agent \notin altered =>
        /\ agents[g.agent] # None
        /\ g.pc = "insert" => tools[g.agent] \subseteq g.seen

EditsNoted ==
    \A e \in Editors : AtWork(grant[e]) /\ grant[e].row = organisation
                           /\ grant[e].agent \in StarterAgents => grant[e].agent \in altered

StarterSound ==
    /\ \/ organisation = 0 \/ interrupted
       \/ \E r \in Requests : Runs(request[r], organisation)
       \/ Whole(currency, workflow, Made, Joined, Equipped)
    /\ \A r \in Requests : Runs(request[r], organisation)
           => Progress(request[r], currency, workflow, Made, Joined, Equipped)
    /\ \A r \in Requests : Inserting(request[r], grant[r])
    /\ EditsNoted

LEMMA CompleteByInv == StarterSound => Complete
  BY DEF StarterSound, Complete, Runs, IsGone, Whole, Made, Joined, Equipped

\* What is there stays, unless people alter it.
Grows ==
    /\ organisation' = organisation /\ (interrupted => interrupted')
    /\ (currency => currency') /\ (workflow => workflow')
    /\ Made \subseteq Made' /\ Joined \cap StarterAgents \subseteq Joined'
    /\ Equipped \subseteq Equipped'

LEMMA ProgressGrows ==
    ASSUME Grows, NEW k, Progress(k, currency, workflow, Made, Joined, Equipped)
    PROVE  Progress(k, currency', workflow', Made', Joined', Equipped')
<1>1. \A i \in DOMAIN Starters : Starters[i] \in StarterAgents
  BY ListsTyped
<1> QED  BY <1>1 DEF Grows, Progress

LEMMA WholeGrows ==
    ASSUME Grows, Whole(currency, workflow, Made, Joined, Equipped)
    PROVE  Whole(currency', workflow', Made', Joined', Equipped')
  BY DEF Grows, Whole

\* One request goes on: it does not leave the provisioning unnoticed.
LEMMA StarterTurns ==
    ASSUME LocalSound, StarterSound, Grows, NEW r \in Requests, NEW k,
           request' = [request EXCEPT ![r] = k],
           Runs(k, organisation) => Progress(k, currency', workflow', Made', Joined', Equipped'),
           Runs(request[r], organisation) =>
               \/ Runs(k, organisation) \/ interrupted'
               \/ Whole(currency', workflow', Made', Joined', Equipped'),
           \A s \in Requests : Inserting(request[s], grant[s])',
           EditsNoted'
    PROVE  StarterSound'
<1>1. \A s \in Requests : request'[s] = IF s = r THEN k ELSE request[s]
  BY DEF LocalSound
<1>2. \A s \in Requests : Runs(request'[s], organisation)
           => Progress(request'[s], currency', workflow', Made', Joined', Equipped')
  BY <1>1, ProgressGrows DEF StarterSound
<1>3. \/ organisation = 0 \/ interrupted'
      \/ \E s \in Requests : Runs(request'[s], organisation)
      \/ Whole(currency', workflow', Made', Joined', Equipped')
  <2>1. CASE organisation = 0 \/ interrupted
    BY <2>1 DEF Grows
  <2>2. CASE \E s \in Requests : Runs(request[s], organisation)
    BY <1>1, <2>2
  <2>3. CASE Whole(currency, workflow, Made, Joined, Equipped)
    BY <2>3, WholeGrows
  <2> QED  BY <2>1, <2>2, <2>3 DEF StarterSound
<1> QED  BY <1>2, <1>3 DEF StarterSound, Grows

-----------------------------------------------------------------------------
(* The organisation's invariant, action by action.                          *)

OrgInv == OwnTyped /\ LocalSound /\ GrantsSound /\ StarterSound

LEMMA FirstsOf ==
    ASSUME NEW names, NEW writer
    PROVE  {row[1] : row \in names \X {writer}} = names
<1>1. \A x \in names : <<x, writer>> \in names \X {writer} /\ <<x, writer>>[1] = x
  OBVIOUS
<1>2. \A row \in names \X {writer} : row[1] \in names
  OBVIOUS
<1> QED  BY <1>1, <1>2

LEMMA OrgStart == ProvisioningInit => OrgInv
<1> SUFFICES ASSUME ProvisioningInit PROVE OrgInv
  OBVIOUS
<1>1. \A r \in Requests : request[r] = NoRequest
  BY DEF ProvisioningInit
<1>2. \A w \in Hands : grant[w] = NoGrant
  BY DEF ProvisioningInit, Hands
<1>3. organisation \in {0, 1} /\ lastOrganisation = organisation
  BY DEF ProvisioningInit
<1>4. \A a \in StarterAgents : TemplateTools[a] \X {"template"} \subseteq ToolRow
  BY DEF ToolRow, Tools, Writers
<1>5. OwnTyped
  <2>1. tools \in [Agents -> SUBSET ToolRow]
    BY <1>4 DEF ProvisioningInit
  <2>2. agents \in [Agents -> Writers \cup {None}]
    BY DEF ProvisioningInit, Writers
  <2>3. \A a \in Agents : agents[a] = None => tools[a] = {} /\ a \notin members
    BY ListsTyped DEF ProvisioningInit, Writers
  <2>4. \A a \in Agents : \A s, t \in tools[a] : s[1] = t[1] => s = t
    BY DEF ProvisioningInit
  <2>5. types \subseteq Types /\ members \subseteq Agents
    BY DEF ProvisioningInit, Agents
  <2>6. organisation \in 0 .. MaxOrganisations
    BY <1>3, ListsTyped
  <2>7. organisation = 0 => ~currency /\ ~workflow /\ ~documents /\ types = {}
    BY DEF ProvisioningInit
  <2>8. organisation = 0 => \A a \in Agents : agents[a] = None
    BY DEF ProvisioningInit
  <2> QED  BY <2>1, <2>2, <2>3, <2>4, <2>5, <2>6, <2>7, <2>8 DEF OwnTyped
<1>6. LocalSound
  <2>1. request \in [Requests -> Request] /\ grant \in [Hands -> Grant]
    BY NothingYet DEF ProvisioningInit, Hands
  <2>2. RequestSound(NoRequest, lastOrganisation) /\ GrantSound(NoGrant, lastOrganisation)
    BY <1>3, NothingYet DEF RequestSound, GrantSound, Provisioning
  <2>3. \A r \in Requests : Matches(request[r], grant[r])
    BY <1>1, <1>2, NothingYet, ListsTyped DEF Matches
  <2>4. OneProvisions(request)
    BY <1>1, NothingYet DEF OneProvisions, Provisioning
  <2> QED  BY <1>1, <1>2, <1>3, <2>1, <2>2, <2>3, <2>4, ListsTyped DEF LocalSound
<1>7. GrantsSound
  <2> SUFFICES ASSUME NEW a \in Agents, agents[a] # None PROVE AgentSound(a)
    BY DEF GrantsSound
  <2>1. \A w \in Hands : ~GrantOf(w, a)
    BY <1>2, NothingYet DEF GrantOf
  <2>2. agents[a] = "template" /\ tools[a] = TemplateTools[a] \X {"template"}
    BY DEF ProvisioningInit
  <2>4. {row[1] : row \in TemplateTools[a] \X {"template"}} = TemplateTools[a]
    BY FirstsOf
  <2>3. {row[1] : row \in tools[a]} = TemplateTools[a]
    BY <2>2, <2>4, Zenon
  <2> QED  BY <2>1, <2>2, <2>3, ListsTyped DEF AgentSound, Wanted
<1>8. StarterSound
  <2>1. organisation = 0 \/ Whole(currency, workflow, Made, Joined, Equipped)
    <3> SUFFICES ASSUME Founded PROVE Whole(currency, workflow, Made, Joined, Equipped)
      BY DEF ProvisioningInit
    <3>1. currency /\ workflow /\ types = Types /\ members = StarterAgents
      BY DEF ProvisioningInit
    <3>2. \A a \in StarterAgents : tools[a] = TemplateTools[a] \X {"template"}
      BY DEF ProvisioningInit, Agents
    <3> QED  BY <3>1, <3>2 DEF Whole, Made, Joined, Equipped
  <2>2. \A r \in Requests : ~Runs(request[r], organisation) /\ request[r].pc # "grant"
    BY <1>1, NothingYet DEF Runs, Provisioning
  <2>3. EditsNoted
    BY <1>2, NothingYet, ListsTyped DEF EditsNoted
  <2> QED  BY <2>1, <2>2, <2>3 DEF StarterSound, Inserting
<1> QED  BY <1>5, <1>6, <1>7, <1>8 DEF OrgInv

\* A request that sets no tools goes on, perhaps with a row it has added.
LEMMA RequestMoves ==
    ASSUME OrgInv, NEW r \in Requests, NEW k,
           request' = [request EXCEPT ![r] = k],
           UNCHANGED <<organisation, lastOrganisation, agents, tools, grant, ghosts>>,
           Grows, OwnTyped',
           RequestSound(k, lastOrganisation), request[r].pc # "grant", k.pc # "grant",
           k.pc \in Provisioning => request[r].pc \in Provisioning /\ k.row = request[r].row,
           Runs(k, organisation) => Progress(k, currency', workflow', Made', Joined', Equipped'),
           Runs(request[r], organisation) =>
               \/ Runs(k, organisation)
               \/ Whole(currency', workflow', Made', Joined', Equipped')
    PROVE  OrgInv'
<1>1. UNCHANGED <<mixed, interrupted, altered, revived>>
  BY DEF ghosts
<1>2. LocalSound'
  <2>1. grant' = [grant EXCEPT ![r] = grant[r]]
    BY ListsTyped DEF OrgInv, LocalSound
  <2>2. Matches(k, grant[r]) /\ GrantSound(grant[r], lastOrganisation)
    BY ListsTyped DEF OrgInv, LocalSound, Matches
  <2>3. /\ lastOrganisation' \in 0 .. MaxOrganisations
        /\ lastOrganisation <= lastOrganisation' /\ organisation' <= lastOrganisation'
    BY DEF OrgInv, LocalSound
  <2> QED  BY <2>1, <2>2, <2>3, RequestTurns DEF OrgInv
<1>3. GrantsSound'
  BY <1>1, GrantsKept DEF OrgInv
<1>4. StarterSound'
  <2>1. \A s \in Requests : request'[s] = IF s = r THEN k ELSE request[s]
    BY DEF OrgInv, LocalSound
  <2>2. \A s \in Requests : Inserting(request[s], grant[s])'
    BY <1>1, <2>1 DEF OrgInv, StarterSound, Inserting
  <2>3. EditsNoted'
    BY <1>1 DEF OrgInv, StarterSound, EditsNoted
  <2> QED  BY <2>2, <2>3, StarterTurns DEF OrgInv
<1> QED  BY <1>2, <1>3, <1>4 DEF OrgInv

\* The request only turns to something else: no row changes.
LEMMA RequestTurnsTo ==
    ASSUME OrgInv, NEW r \in Requests, NEW k,
           request' = [request EXCEPT ![r] = k],
           UNCHANGED <<organisation, lastOrganisation, documents, ownRows, grant, ghosts>>,
           RequestSound(k, lastOrganisation), request[r].pc # "grant", k.pc # "grant",
           k.pc \in Provisioning => request[r].pc \in Provisioning /\ k.row = request[r].row,
           Runs(k, organisation) => Progress(k, currency, workflow, Made, Joined, Equipped),
           Runs(request[r], organisation) => Runs(k, organisation)
    PROVE  OrgInv'
<1>1. /\ UNCHANGED <<currency, agents, tools, types, workflow, members>>
      /\ UNCHANGED <<mixed, interrupted, altered, revived>>
  BY DEF ownRows, ghosts
<1>2. Made' = Made /\ Joined' = Joined /\ Equipped' = Equipped
  BY <1>1 DEF Made, Joined, Equipped
<1>3. Grows
  BY <1>1, <1>2 DEF Grows
<1>4. OwnTyped'
  BY <1>1 DEF OrgInv, OwnTyped
<1> QED  BY <1>1, <1>2, <1>3, <1>4, RequestMoves

\* What Throws does to the request.
Broken(r) ==
    /\ \E k \in {NoRequest, [NoRequest EXCEPT !.pc = "reread"]} :
           request' = [request EXCEPT ![r] = k]
    /\ grant' = [grant EXCEPT ![r] = NoGrant]
    /\ (interrupted => interrupted')
    /\ (request[r].pc \in Provisioning /\ organisation = request[r].row => interrupted')
    /\ mixed \subseteq mixed'
    /\ AtWork(grant[r]) /\ organisation = request[r].row => grant[r].agent \in mixed'

LEMMA ThrowsBreaks ==
    ASSUME NEW r \in Requests, Throws(r, TRUE) \/ Throws(r, FALSE)
    PROVE  Broken(r)
  BY DEF Throws, To, Broken, IsGone, AtWork

LEMMA RequestBreaks ==
    ASSUME OrgInv, NEW r \in Requests, Broken(r),
           UNCHANGED <<organisation, lastOrganisation, documents, ownRows, altered>>
    PROVE  OrgInv'
<1>1. PICK k \in {NoRequest, [NoRequest EXCEPT !.pc = "reread"]} :
          request' = [request EXCEPT ![r] = k]
  BY DEF Broken
<1>2. k \in Request /\ k.pc \in {"idle", "reread"} /\ k.row = 0
  <2>1. CASE k = NoRequest
    BY <2>1, NothingYet
  <2>2. CASE k = [NoRequest EXCEPT !.pc = "reread"]
    BY <2>2, NothingYet DEF Request, RequestPc
  <2> QED  BY <1>1, <2>1, <2>2
<1>3. /\ UNCHANGED <<currency, agents, tools, types, workflow, members>>
      /\ lastOrganisation \in 0 .. MaxOrganisations /\ lastOrganisation >= 0
  BY DEF ownRows, OrgInv, LocalSound
<1>4. RequestSound(k, lastOrganisation) /\ GrantSound(NoGrant, lastOrganisation)
      /\ Matches(k, NoGrant) /\ k.pc \notin Provisioning
  BY <1>2, <1>3, NothingYet DEF RequestSound, GrantSound, Matches, Provisioning
<1>5. OwnTyped'
  BY <1>3 DEF OrgInv, OwnTyped
<1>6. LocalSound'
  <2>1. grant' = [grant EXCEPT ![r] = NoGrant]
    BY DEF Broken
  <2>2. /\ lastOrganisation' \in 0 .. MaxOrganisations
        /\ lastOrganisation <= lastOrganisation' /\ organisation' <= lastOrganisation'
    BY DEF OrgInv, LocalSound
  <2> QED  BY <1>1, <1>4, <2>1, <2>2, RequestTurns DEF OrgInv
<1>7. GrantsSound'
  <2>1. AtWork(grant[r]) => grant[r].row = request[r].row
    BY DEF OrgInv, LocalSound, Matches
  <2>2. AtWork(grant[r]) /\ grant[r].row = organisation => grant[r].agent \in mixed'
    BY <2>1 DEF Broken
  <2> QED  BY <1>3, <2>2, NothingYet, ListsTyped, GrantsBreak DEF OrgInv, Broken
<1>8. StarterSound'
  <2>1. Made' = Made /\ Joined' = Joined /\ Equipped' = Equipped
    BY <1>3 DEF Made, Joined, Equipped
  <2>2. Grows
    BY <1>3, <2>1 DEF Grows, Broken
  <2>3. \A s \in Requests : /\ request'[s] = IF s = r THEN k ELSE request[s]
                            /\ grant'[s] = IF s = r THEN NoGrant ELSE grant[s]
    BY <1>1, ListsTyped DEF OrgInv, LocalSound, Broken
  <2>4. \A s \in Requests : Inserting(request[s], grant[s])'
    BY <1>2, <1>3, <2>3 DEF OrgInv, StarterSound, Inserting
  <2>5. \A e \in Editors : grant'[e] = grant[e]
    BY ListsTyped DEF OrgInv, LocalSound, Broken
  <2>6. EditsNoted'
    BY <2>5 DEF OrgInv, StarterSound, EditsNoted
  <2>7. ~Runs(k, organisation)
    BY <1>4 DEF Runs
  <2>8. Runs(request[r], organisation) => interrupted'
    BY DEF Runs, Broken
  <2> QED  BY <1>1, <2>2, <2>4, <2>6, <2>7, <2>8, StarterTurns DEF OrgInv
<1> QED  BY <1>5, <1>6, <1>7, <1>8 DEF OrgInv

LEMMA RequestKnown ==
    ASSUME OrgInv, NEW r \in Requests
    PROVE  /\ request[r] \in Request /\ RequestSound(request[r], lastOrganisation)
           /\ organisation \in 0 .. MaxOrganisations /\ lastOrganisation \in 0 .. MaxOrganisations
           /\ organisation <= lastOrganisation /\ 0 <= lastOrganisation
           /\ Matches(request[r], grant[r])
           /\ Runs(request[r], organisation) =>
                  Progress(request[r], currency, workflow, Made, Joined, Equipped)
  BY DEF OrgInv, LocalSound, OwnTyped, StarterSound, RequestSound

LEMMA PcTo ==
    ASSUME NEW k \in Request, NEW pc \in RequestPc
    PROVE  LET h == [k EXCEPT !.pc = pc] IN
           h \in Request /\ h.pc = pc /\ h.at = k.at /\ h.row = k.row
  BY DEF Request

\* A request that does not work on the rows is anywhere but in the provisioning.
LEMMA IdleTurns ==
    ASSUME OrgInv, NEW r \in Requests, NEW k \in Request,
           request' = [request EXCEPT ![r] = k],
           UNCHANGED <<organisation, lastOrganisation, documents, ownRows, grant, ghosts>>,
           request[r].pc \notin Provisioning,
           k.pc \in {"idle", "lookup", "fetch", "create", "reread", "resolved", "cascade", "clerk"},
           k.row <= lastOrganisation, k.pc \in {"resolved", "cascade"} => k.row # 0
    PROVE  OrgInv'
<1>1. RequestSound(k, lastOrganisation) /\ k.pc \notin Provisioning /\ k.pc # "grant"
  BY DEF RequestSound, Provisioning
<1>2. request[r].pc # "grant"
  BY DEF Provisioning
<1> QED  BY <1>1, <1>2, RequestTurnsTo DEF Runs

LEMMA StartRequestSound ==
    ASSUME OrgInv, NEW r \in Requests, StartRequest(r)
    PROVE  OrgInv'
<1> DEFINE k == [NoRequest EXCEPT !.pc = "lookup"]
<1>1. k \in Request /\ k.pc = "lookup" /\ k.row = 0
  BY NothingYet, PcTo DEF RequestPc
<1> HIDE DEF k
<1>2. request[r].pc \notin Provisioning /\ request' = [request EXCEPT ![r] = k]
  BY DEF StartRequest, To, Provisioning, k
<1> QED  BY <1>1, <1>2, RequestKnown, IdleTurns DEF StartRequest, orgRow

LEMMA LookupSound ==
    ASSUME OrgInv, NEW r \in Requests, Lookup(r) \/ Reread(r)
    PROVE  OrgInv'
<1>1. request[r].pc \notin Provisioning
  BY DEF Lookup, Reread, Provisioning
<1>2. \E k \in Request :
          /\ request' = [request EXCEPT ![r] = k] /\ k.row <= lastOrganisation
          /\ k.pc = "fetch" \/ k.pc = "idle" \/ (k.pc = "resolved" /\ k.row # 0)
  <2>1. CASE organisation # 0
    <3> DEFINE k == [NoRequest EXCEPT !.pc = "resolved", !.row = organisation]
    <3>1. k \in Request /\ k.pc = "resolved" /\ k.row = organisation
      BY NothingYet, RequestKnown DEF Request, RequestPc
    <3>2. request' = [request EXCEPT ![r] = k]
      BY <2>1 DEF Lookup, Reread, To
    <3> HIDE DEF k
    <3> QED  BY <2>1, <3>1, <3>2, RequestKnown
  <2>2. CASE organisation = 0 /\ Lookup(r)
    <3> DEFINE k == [NoRequest EXCEPT !.pc = "fetch"]
    <3>1. k \in Request /\ k.pc = "fetch" /\ k.row = 0
      BY NothingYet, PcTo DEF RequestPc
    <3>2. request' = [request EXCEPT ![r] = k]
      BY <2>2 DEF Lookup, To
    <3> HIDE DEF k
    <3> QED  BY <3>1, <3>2, RequestKnown
  <2>3. CASE organisation = 0 /\ Reread(r)
    <3>1. request' = [request EXCEPT ![r] = NoRequest]
      BY <2>3 DEF Reread, To
    <3> QED  BY <3>1, NothingYet, RequestKnown
  <2> QED  BY <2>1, <2>2, <2>3
<1> QED  BY <1>1, <1>2, IdleTurns DEF Lookup, Reread, orgRow

LEMMA FetchSound ==
    ASSUME OrgInv, NEW r \in Requests, Fetch(r)
    PROVE  OrgInv'
<1>1. request[r].pc \notin Provisioning
  BY DEF Fetch, Provisioning
<1>2. \E k \in Request : /\ request' = [request EXCEPT ![r] = k]
                         /\ k.row = 0 /\ k.pc \in {"create", "idle"}
  <2> DEFINE k == [NoRequest EXCEPT !.pc = "create"]
  <2>1. k \in Request /\ k.pc = "create" /\ k.row = 0
    BY NothingYet, PcTo DEF RequestPc
  <2>2. request' = [request EXCEPT ![r] = IF clerkOrganisation THEN k ELSE NoRequest]
    BY DEF Fetch, To
  <2> HIDE DEF k
  <2>3. CASE clerkOrganisation
    BY <2>1, <2>2, <2>3
  <2>4. CASE ~clerkOrganisation
    BY <2>2, <2>4, NothingYet
  <2> QED  BY <2>3, <2>4
<1> QED  BY <1>1, <1>2, RequestKnown, IdleTurns DEF Fetch, orgRow

LEMMA StartDissolveSound ==
    ASSUME OrgInv, NEW r \in Requests, StartDissolve(r)
    PROVE  OrgInv'
<1> DEFINE k == [request[r] EXCEPT !.pc = "cascade"]
<1>1. request' = [request EXCEPT ![r] = k]
  BY DEF StartDissolve, To, DeletionOrder
<1>2. k \in Request /\ k.pc = "cascade" /\ k.row = request[r].row
  BY RequestKnown, PcTo DEF RequestPc
<1> HIDE DEF k
<1>3. request[r].row # 0 /\ request[r].row <= lastOrganisation /\ request[r].pc \notin Provisioning
  BY RequestKnown DEF StartDissolve, RequestSound, Provisioning
<1> QED  BY <1>1, <1>2, <1>3, IdleTurns DEF StartDissolve, orgRow

\* A request is over: those of Clerk's deletion, and every visit.
LEMMA EndsSound ==
    ASSUME OrgInv, NEW r \in Requests, request[r].pc \in {"clerk", "resolved", "cascade"},
           request' = [request EXCEPT ![r] = NoRequest],
           UNCHANGED <<organisation, lastOrganisation, documents, ownRows, grant, ghosts>>
    PROVE  OrgInv'
<1>1. request[r].pc \notin Provisioning
  BY DEF Provisioning
<1> QED  BY <1>1, NothingYet, RequestKnown, IdleTurns

LEMMA DissolveClerkSound ==
    ASSUME OrgInv, NEW r \in Requests, DissolveClerk(r)
    PROVE  OrgInv'
  BY EndsSound DEF DissolveClerk, AfterStep, DeletionOrder, To

\* The next type, or the workflow.
LEMMA TypeIsNext ==
    ASSUME OrgInv, NEW r \in Requests, request[r].pc \in {"type", "newtype"}, NEW made,
           Made \subseteq made, StarterTypes[request[r].at] \in made,
           NEW found
    PROVE  \E k : /\ AfterType(r, found) = k
                  /\ RequestSound(k, lastOrganisation)
                  /\ k.pc \in {"type", "workflow"} /\ k.row = request[r].row
                  /\ Runs(request[r], organisation) =>
                         Progress(k, currency, workflow, made, Joined, Equipped)
<1> DEFINE j == request[r]
<1>1. /\ j \in Request /\ j.at \in 1 .. Len(StarterTypes) /\ j.row # 0
      /\ j.row <= lastOrganisation
  BY RequestKnown, ListsTyped DEF RequestSound, Provisioning
<1>2. Runs(j, organisation) => Progress(j, currency, workflow, Made, Joined, Equipped)
  BY RequestKnown
<1>3. CASE j.at = Len(StarterTypes)
  <2> DEFINE k == [j EXCEPT !.pc = "workflow", !.at = 0]
  <2>1. k \in Request /\ k.pc = "workflow" /\ k.row = j.row
    BY <1>1 DEF Request, RequestPc
  <2>2. AfterType(r, found) = k
    BY <1>3 DEF AfterType, At
  <2> HIDE DEF k
  <2>3. RequestSound(k, lastOrganisation)
    BY <1>1, <2>1 DEF RequestSound
  <2>4. Runs(j, organisation) => Types \subseteq made
    <3> SUFFICES ASSUME Runs(j, organisation), NEW i \in 1 .. Len(StarterTypes)
                 PROVE  StarterTypes[i] \in made
      BY ListsTyped DEF Types
    <3>1. CASE i = j.at
      BY <3>1
    <3>2. CASE i < j.at
      BY <1>2, <3>2, ListsTyped DEF Progress
    <3>3. i = j.at \/ i < j.at
      <4>1. Len(StarterTypes) \in Nat
        BY ListsTyped
      <4> HIDE DEF j
      <4> QED  BY <1>3, <4>1
    <3> QED  BY <3>1, <3>2, <3>3
  <2>5. Runs(j, organisation) => Progress(k, currency, workflow, made, Joined, Equipped)
    BY <1>2, <2>1, <2>4 DEF Progress
  <2> QED  BY <2>1, <2>2, <2>3, <2>5
<1>4. CASE j.at # Len(StarterTypes)
  <2> DEFINE k == [j EXCEPT !.pc = "type", !.at = j.at + 1]
  <2>1. k \in Request /\ k.pc = "type" /\ k.row = j.row /\ k.at = j.at + 1
    <3>1. j.at + 1 \in Nat
      BY <1>1, ListsTyped
    <3> QED  BY <1>1, <3>1 DEF Request, RequestPc
  <2>2. AfterType(r, found) = k
    BY <1>4 DEF AfterType, At
  <2> HIDE DEF k
  <2>3. RequestSound(k, lastOrganisation)
    BY <1>1, <1>4, <2>1, ListsTyped DEF RequestSound
  <2>4. Runs(j, organisation) =>
            \A i \in 1 .. Len(StarterTypes) : i < k.at => StarterTypes[i] \in made
    <3> SUFFICES ASSUME Runs(j, organisation), NEW i \in 1 .. Len(StarterTypes), i < k.at
                 PROVE  StarterTypes[i] \in made
      OBVIOUS
    <3>1. CASE i = j.at
      BY <3>1
    <3>2. CASE i < j.at
      BY <1>2, <3>2, ListsTyped DEF Progress
    <3> QED  BY <1>1, <2>1, <3>1, <3>2, ListsTyped
  <2>5. Runs(j, organisation) => Progress(k, currency, workflow, made, Joined, Equipped)
    BY <1>2, <2>1, <2>4, ListsTyped DEF Progress
  <2> QED  BY <2>1, <2>2, <2>3, <2>5
<1> QED  BY <1>3, <1>4

LEMMA FindTypeSound ==
    ASSUME OrgInv, NEW r \in Requests, FindType(r)
    PROVE  OrgInv'
<1>1. /\ request[r].pc = "type" /\ request[r] \in Request
      /\ UNCHANGED <<organisation, lastOrganisation, documents, ownRows, grant, ghosts>>
  BY RequestKnown DEF FindType, orgRow
<1>2. CASE ~IsGone(r) /\ StarterTypes[request[r].at] \in types
  <2>1. StarterTypes[request[r].at] \in Made
    BY <1>2 DEF Made
  <2>2. PICK k : /\ AfterType(r, TRUE) = k
                 /\ RequestSound(k, lastOrganisation)
                 /\ k.pc \in {"type", "workflow"} /\ k.row = request[r].row
                 /\ Runs(request[r], organisation) =>
                        Progress(k, currency, workflow, Made, Joined, Equipped)
    BY <1>1, <2>1, TypeIsNext
  <2>3. request' = [request EXCEPT ![r] = k]
    BY <1>2, <2>2 DEF FindType, To
  <2> QED  BY <1>1, <2>2, <2>3, RequestTurnsTo DEF Runs, Provisioning
<1>3. CASE ~(~IsGone(r) /\ StarterTypes[request[r].at] \in types)
  <2> DEFINE k == [request[r] EXCEPT !.pc = "newtype"]
  <2>1. k \in Request /\ k.pc = "newtype" /\ k.at = request[r].at /\ k.row = request[r].row
    BY <1>1, PcTo DEF RequestPc
  <2>2. request' = [request EXCEPT ![r] = k]
    BY <1>3 DEF FindType, To
  <2> HIDE DEF k
  <2>3. RequestSound(k, lastOrganisation)
    BY <1>1, <2>1, RequestKnown DEF RequestSound, Provisioning
  <2>4. Runs(k, organisation) => Progress(k, currency, workflow, Made, Joined, Equipped)
    BY <1>1, <2>1, RequestKnown DEF Runs, Progress, Provisioning
  <2> QED  BY <1>1, <2>1, <2>2, <2>3, <2>4, RequestTurnsTo DEF Runs, Provisioning
<1> QED  BY <1>2, <1>3

LEMMA IsGoneRuns ==
    ASSUME OrgInv, NEW r \in Requests, request[r].pc \in Provisioning, ~IsGone(r)
    PROVE  Runs(request[r], organisation) /\ request[r].row = organisation /\ organisation # 0
  BY RequestKnown DEF IsGone, Runs, RequestSound

LEMMA SetCurrencySound ==
    ASSUME OrgInv, NEW r \in Requests, SetCurrency(r)
    PROVE  OrgInv'
<1>1. /\ request[r].pc = "currency" /\ request[r].pc \in Provisioning
      /\ UNCHANGED <<organisation, lastOrganisation, documents, altered>>
  BY DEF SetCurrency, Provision, orgRow, Provisioning
<1>2. CASE IsGone(r)
  <2>1. Throws(r, FALSE) /\ UNCHANGED ownRows
    BY <1>2 DEF SetCurrency, Provision
  <2> QED  BY <1>1, <2>1, ThrowsBreaks, RequestBreaks
<1>3. CASE ~IsGone(r)
  <2> DEFINE k == [request[r] EXCEPT !.pc = "agent", !.at = 1]
  <2>1. /\ request' = [request EXCEPT ![r] = k] /\ currency'
        /\ UNCHANGED <<agents, tools, types, workflow, members, grant, mixed, interrupted>>
        /\ UNCHANGED revived
    BY <1>3 DEF SetCurrency, Provision, To, At
  <2>2. k \in Request /\ k.pc = "agent" /\ k.at = 1 /\ k.row = request[r].row
    BY RequestKnown DEF Request, RequestPc
  <2> HIDE DEF k
  <2>3. Runs(request[r], organisation) /\ request[r].row = organisation /\ organisation # 0
    BY <1>1, <1>3, IsGoneRuns
  <2>4. RequestSound(k, lastOrganisation)
    BY <2>2, <2>3, ListsTyped, RequestKnown DEF RequestSound
  <2>5. Made' = Made /\ Joined' = Joined /\ Equipped' = Equipped
    BY <1>1, <2>1 DEF Made, Joined, Equipped
  <2>6. Grows
    BY <1>1, <2>1, <2>5 DEF Grows
  <2>7. OwnTyped'
    BY <1>1, <2>1, <2>3 DEF OrgInv, OwnTyped
  <2>8. Progress(k, currency', workflow', Made', Joined', Equipped')
    BY <2>1, <2>2, ListsTyped DEF Progress
  <2>9. Runs(k, organisation)
    BY <2>2, <2>3 DEF Runs, Provisioning
  <2> QED  BY <1>1, <2>1, <2>2, <2>4, <2>6, <2>7, <2>8, <2>9, RequestMoves DEF ghosts
<1> QED  BY <1>2, <1>3

LEMMA CreateTypeSound ==
    ASSUME OrgInv, NEW r \in Requests, CreateType(r)
    PROVE  OrgInv'
<1> DEFINE t == StarterTypes[request[r].at]
<1>1. /\ request[r].pc = "newtype" /\ request[r].pc \in Provisioning
      /\ UNCHANGED <<organisation, lastOrganisation, documents, altered, revived>>
      /\ UNCHANGED <<currency, agents, tools, workflow, members>>
  BY DEF CreateType, orgRow, Provisioning
<1>2. CASE IsGone(r) \/ t \in types
  <2>1. (Throws(r, TRUE) \/ Throws(r, FALSE)) /\ UNCHANGED types
    BY <1>2 DEF CreateType, Throws
  <2> QED  BY <1>1, <2>1, ThrowsBreaks, RequestBreaks DEF ownRows
<1>3. CASE ~IsGone(r) /\ t \notin types
  <2> DEFINE k == AfterType(r, FALSE)
  <2>1. /\ request' = [request EXCEPT ![r] = k] /\ types' = types \cup {t}
        /\ UNCHANGED <<grant, mixed, interrupted>>
    BY <1>3 DEF CreateType, To
  <2>2. Runs(request[r], organisation) /\ request[r].row = organisation /\ organisation # 0
    BY <1>1, <1>3, IsGoneRuns
  <2>3. /\ Made' = Made \cup {t} /\ Joined' = Joined /\ Equipped' = Equipped
    BY <1>1, <2>1 DEF Made, Joined, Equipped
  <2>4. Grows
    BY <1>1, <2>1, <2>3 DEF Grows
  <2>5. t \in Types
    BY <1>1, ListsTyped, RequestKnown DEF RequestSound
  <2>6. OwnTyped'
    BY <1>1, <2>1, <2>2, <2>5 DEF OrgInv, OwnTyped
  <2>7. /\ RequestSound(k, lastOrganisation)
        /\ k.pc \in {"type", "workflow"} /\ k.row = request[r].row
        /\ Runs(request[r], organisation) =>
               Progress(k, currency, workflow, Made \cup {t}, Joined, Equipped)
    <3> DEFINE made == Made \cup {t}
    <3>1. Made \subseteq made /\ StarterTypes[request[r].at] \in made
      OBVIOUS
    <3> HIDE DEF made
    <3>2. \E h : /\ AfterType(r, FALSE) = h
                 /\ RequestSound(h, lastOrganisation)
                 /\ h.pc \in {"type", "workflow"} /\ h.row = request[r].row
                 /\ Runs(request[r], organisation) =>
                        Progress(h, currency, workflow, made, Joined, Equipped)
      BY <1>1, <3>1, TypeIsNext
    <3> QED  BY <3>2 DEF made
  <2> HIDE DEF k
  <2>8. Runs(k, organisation) /\ Progress(k, currency', workflow', Made', Joined', Equipped')
    BY <1>1, <2>2, <2>3, <2>7 DEF Runs, Provisioning
  <2> QED
    BY <1>1, <2>1, <2>2, <2>4, <2>6, <2>7, <2>8, RequestMoves DEF ghosts, Provisioning
<1> QED  BY <1>2, <1>3

LEMMA UpsertWorkflowSound ==
    ASSUME OrgInv, NEW r \in Requests, UpsertWorkflow(r)
    PROVE  OrgInv'
<1>1. /\ request[r].pc = "workflow" /\ request[r].pc \in Provisioning
      /\ UNCHANGED <<organisation, lastOrganisation, documents, altered>>
  BY DEF UpsertWorkflow, Provision, orgRow, Provisioning
<1>2. CASE IsGone(r)
  <2>1. Throws(r, FALSE) /\ UNCHANGED ownRows
    BY <1>2 DEF UpsertWorkflow, Provision
  <2> QED  BY <1>1, <2>1, ThrowsBreaks, RequestBreaks
<1>3. CASE ~IsGone(r)
  <2> DEFINE k == [request[r] EXCEPT !.pc = "member", !.at = 1]
  <2>1. /\ request' = [request EXCEPT ![r] = k] /\ workflow'
        /\ UNCHANGED <<currency, agents, tools, types, members, grant, mixed, interrupted>>
        /\ UNCHANGED revived
    BY <1>3 DEF UpsertWorkflow, Provision, To, At
  <2>2. k \in Request /\ k.pc = "member" /\ k.at = 1 /\ k.row = request[r].row
    BY RequestKnown DEF Request, RequestPc
  <2> HIDE DEF k
  <2>3. Runs(request[r], organisation) /\ request[r].row = organisation /\ organisation # 0
    BY <1>1, <1>3, IsGoneRuns
  <2>4. RequestSound(k, lastOrganisation)
    BY <2>2, <2>3, ListsTyped, RequestKnown DEF RequestSound
  <2>5. Made' = Made /\ Joined' = Joined /\ Equipped' = Equipped
    BY <1>1, <2>1 DEF Made, Joined, Equipped
  <2>6. Grows
    BY <1>1, <2>1, <2>5 DEF Grows
  <2>7. OwnTyped'
    BY <1>1, <2>1, <2>3 DEF OrgInv, OwnTyped
  <2>8. Progress(k, currency', workflow', Made', Joined', Equipped')
    <3>1. Progress(request[r], currency, workflow, Made, Joined, Equipped)
      BY <2>3, RequestKnown
    <3> QED  BY <1>1, <2>1, <2>2, <2>5, <3>1, ListsTyped DEF Progress
  <2>9. Runs(k, organisation)
    BY <2>2, <2>3 DEF Runs, Provisioning
  <2> QED  BY <1>1, <2>1, <2>2, <2>4, <2>6, <2>7, <2>8, <2>9, RequestMoves DEF ghosts
<1> QED  BY <1>2, <1>3

LEMMA UpsertMemberSound ==
    ASSUME OrgInv, NEW r \in Requests, UpsertMember(r)
    PROVE  OrgInv'
<1> DEFINE j == request[r]
           a == Starters[j.at]
<1>1. /\ j.pc = "member" /\ j.pc \in Provisioning
      /\ UNCHANGED <<organisation, lastOrganisation, documents, altered, revived>>
      /\ UNCHANGED <<currency, agents, tools, types, workflow>>
  BY DEF UpsertMember, orgRow, Provisioning
<1>2. CASE IsGone(r) \/ agents[a] = None
  <2>1. Throws(r, FALSE) /\ UNCHANGED members
    BY <1>2 DEF UpsertMember
  <2> QED  BY <1>1, <2>1, ThrowsBreaks, RequestBreaks DEF ownRows
<1>3. CASE ~IsGone(r) /\ agents[a] # None
  <2>1. /\ members' = members \cup {a}
        /\ UNCHANGED <<grant, mixed, interrupted>>
    BY <1>3 DEF UpsertMember
  <2>2. Runs(j, organisation) /\ j.row = organisation /\ organisation # 0
    BY <1>1, <1>3, IsGoneRuns
  <2>3. /\ Made' = Made /\ Joined' = Joined \cup {a} /\ Equipped' = Equipped
    BY <1>1, <2>1 DEF Made, Joined, Equipped
  <2>4. Grows
    BY <1>1, <2>1, <2>3 DEF Grows
  <2>5. /\ j \in Request /\ j.at \in 1 .. Len(Starters) /\ j.row <= lastOrganisation
        /\ a \in Agents
    BY <1>1, ListsTyped, RequestKnown DEF RequestSound
  <2>6. OwnTyped'
    <3>1. \A b \in Agents : agents[b] = None => b \notin members'
      BY <1>3, <2>1 DEF OrgInv, OwnTyped
    <3> QED  BY <1>1, <2>1, <2>2, <2>5, <3>1 DEF OrgInv, OwnTyped
  <2>7. Progress(j, currency, workflow, Made, Joined, Equipped)
    BY <2>2, RequestKnown
  <2>8. \A i \in 1 .. Len(Starters) : i < j.at + 1 => Starters[i] \in Joined'
    <3> SUFFICES ASSUME NEW i \in 1 .. Len(Starters), i < j.at + 1 PROVE Starters[i] \in Joined'
      OBVIOUS
    <3>1. CASE i = j.at
      BY <2>3, <3>1
    <3>2. CASE i < j.at
      BY <1>1, <2>3, <2>7, <3>2, ListsTyped DEF Progress
    <3>3. i = j.at \/ i < j.at
      <4> HIDE DEF j
      <4> QED  BY <2>5, ListsTyped
    <3> QED  BY <3>1, <3>2, <3>3
  <2>9. CASE j.at = Len(Starters)
    <3> DEFINE k == [j EXCEPT !.pc = "resolved", !.at = 0]
    <3>1. request' = [request EXCEPT ![r] = k]
      BY <1>3, <2>9 DEF UpsertMember, To, At
    <3>2. k \in Request /\ k.pc = "resolved" /\ k.row = j.row
      BY <2>5 DEF Request, RequestPc
    <3> HIDE DEF k
    <3>3. RequestSound(k, lastOrganisation) /\ ~Runs(k, organisation)
      BY <2>2, <2>5, <3>2 DEF RequestSound, Runs, Provisioning
    <3>4. StarterAgents \subseteq Joined'
      <4>1. \A i \in 1 .. Len(Starters) : i < Len(Starters) + 1
        BY ListsTyped
      <4> QED  BY <2>8, <2>9, <4>1, ListsTyped DEF StarterAgents
    <3>5. StarterAgents \subseteq Equipped
      BY <1>1, <2>7 DEF StarterAgents, Progress
    <3>6. Whole(currency', workflow', Made', Joined', Equipped')
      BY <1>1, <2>3, <2>7, <3>4, <3>5 DEF Whole, Progress
    <3> QED
      BY <1>1, <2>1, <2>4, <2>6, <3>1, <3>2, <3>3, <3>6, RequestMoves DEF ghosts, Provisioning
  <2>10. CASE j.at # Len(Starters)
    <3> DEFINE k == [j EXCEPT !.pc = "member", !.at = j.at + 1]
    <3>1. request' = [request EXCEPT ![r] = k]
      BY <1>3, <2>10 DEF UpsertMember, To, At
    <3>2. j.at + 1 \in 1 .. Len(Starters)
      <4> HIDE DEF j
      <4> QED  BY <2>5, <2>10, ListsTyped
    <3>6. j.at + 1 \in Nat
      BY <3>2
    <3>3. k \in Request /\ k.pc = "member" /\ k.row = j.row /\ k.at = j.at + 1
      BY <1>1, <2>5, <3>6 DEF Request, RequestPc
    <3> HIDE DEF k
    <3>4. RequestSound(k, lastOrganisation) /\ Runs(k, organisation)
      BY <2>2, <2>5, <3>2, <3>3, ListsTyped DEF RequestSound, Runs, Provisioning
    <3>5. Progress(k, currency', workflow', Made', Joined', Equipped')
      BY <1>1, <2>3, <2>7, <2>8, <3>3, ListsTyped DEF Progress
    <3> QED
      BY <1>1, <2>1, <2>4, <2>6, <3>1, <3>3, <3>4, <3>5, RequestMoves DEF ghosts
  <2> QED  BY <2>9, <2>10
<1> QED  BY <1>2, <1>3

LEMMA RequestFailsSound ==
    ASSUME OrgInv, NEW r \in Requests, RequestFails(r)
    PROVE  OrgInv'
  BY ThrowsBreaks, RequestBreaks DEF RequestFails, orgRow

LEMMA LocalKept ==
    ASSUME LocalSound, UNCHANGED <<organisation, lastOrganisation, request, grant>>
    PROVE  LocalSound'
  BY DEF LocalSound, OneProvisions

\* No request goes on.
LEMMA StarterStays ==
    ASSUME StarterSound, Grows, request' = request,
           \A s \in Requests : Inserting(request[s], grant[s])', EditsNoted'
    PROVE  StarterSound'
<1>1. \A s \in Requests : Runs(request'[s], organisation)
           => Progress(request'[s], currency', workflow', Made', Joined', Equipped')
  BY ProgressGrows DEF StarterSound
<1>2. Whole(currency, workflow, Made, Joined, Equipped)
          => Whole(currency', workflow', Made', Joined', Equipped')
  BY WholeGrows
<1> QED  BY <1>1, <1>2 DEF StarterSound, Grows

LEMMA BeginsAs ==
    ASSUME OrgInv, organisation # 0, NEW a \in Agents
    PROVE  LET g == [NoGrant EXCEPT !.pc = "clear", !.agent = a, !.row = organisation] IN
           /\ GrantSound(g, lastOrganisation) /\ AtWork(g)
           /\ g.pc = "clear" /\ g.agent = a /\ g.row = organisation
<1> DEFINE g == [NoGrant EXCEPT !.pc = "clear", !.agent = a, !.row = organisation]
<1>1. organisation \in 0 .. MaxOrganisations /\ organisation <= lastOrganisation
  BY DEF OrgInv, OwnTyped, LocalSound
<1>2. g \in Grant /\ g.pc = "clear" /\ g.agent = a /\ g.row = organisation
  BY <1>1, NothingYet DEF Grant
<1> HIDE DEF g
<1>3. GrantSound(g, lastOrganisation) /\ AtWork(g)
  BY <1>1, <1>2, ListsTyped DEF GrantSound, AtWork
<1> QED  BY <1>2, <1>3 DEF g

LEMMA UpsertAgentSound ==
    ASSUME OrgInv, NEW r \in Requests, UpsertAgent(r)
    PROVE  OrgInv'
<1> DEFINE j == request[r]
           a == Starters[j.at]
<1>1. /\ j.pc = "agent" /\ j.pc \in Provisioning
      /\ UNCHANGED <<organisation, lastOrganisation, documents, altered, revived>>
      /\ UNCHANGED <<currency, tools, types, workflow, members>>
  BY DEF UpsertAgent, orgRow, Provisioning
<1>2. CASE IsGone(r)
  <2>1. Throws(r, FALSE) /\ UNCHANGED agents
    BY <1>2 DEF UpsertAgent
  <2> QED  BY <1>1, <2>1, ThrowsBreaks, RequestBreaks DEF ownRows
<1>3. CASE ~IsGone(r)
  <2> DEFINE k == [j EXCEPT !.pc = "grant", !.at = j.at]
             g == [NoGrant EXCEPT !.pc = "clear", !.agent = a, !.row = organisation]
  <2>1. /\ request' = [request EXCEPT ![r] = k]
        /\ grant' = [grant EXCEPT ![r] = g]
        /\ agents' = [agents EXCEPT ![a] = "template"]
        /\ mixed' = IF IsAtWork(a) THEN mixed \cup {a} ELSE mixed
        /\ interrupted' = interrupted
    BY <1>3 DEF UpsertAgent, To, At
  <2>2. Runs(j, organisation) /\ j.row = organisation /\ organisation # 0
    BY <1>1, <1>3, IsGoneRuns
  <2>3. /\ j \in Request /\ j.at \in 1 .. Len(Starters) /\ j.row <= lastOrganisation
        /\ a \in Agents /\ a \in StarterAgents
    BY <1>1, ListsTyped, RequestKnown DEF RequestSound
  <2>4. k \in Request /\ k.pc = "grant" /\ k.row = j.row /\ k.at = j.at
    BY <2>3 DEF Request, RequestPc
  <2>5. /\ GrantSound(g, lastOrganisation) /\ AtWork(g)
        /\ g.pc = "clear" /\ g.agent = a /\ g.row = organisation
    BY <2>2, <2>3, BeginsAs
  <2>6. ~AtWork(grant[r])
    BY <1>1, RequestKnown DEF Matches
  <2>7. WriterOf(r) = "template"
    BY ListsTyped DEF WriterOf
  <2>8. GrantsSound'
    BY <1>1, <2>1, <2>3, <2>6, <2>7, ListsTyped, GrantBegins DEF OrgInv, OwnTyped
  <2> HIDE DEF k, g
  <2>9. OwnTyped'
    <3>1. agents' \in [Agents -> Writers \cup {None}]
      BY <2>1 DEF OrgInv, OwnTyped, Writers
    <3>2. \A b \in Agents : agents'[b] = None => agents[b] = None
      BY <2>1, ListsTyped DEF OrgInv, OwnTyped, Writers
    <3> QED  BY <1>1, <2>2, <3>1, <3>2 DEF OrgInv, OwnTyped
  <2>10. LocalSound'
    <3>1. RequestSound(k, lastOrganisation')
      BY <1>1, <2>2, <2>3, <2>4, ListsTyped DEF RequestSound
    <3>2. Matches(k, g)
      BY <2>2, <2>4, <2>5 DEF Matches
    <3>3. /\ lastOrganisation' \in 0 .. MaxOrganisations
          /\ lastOrganisation <= lastOrganisation' /\ organisation' <= lastOrganisation'
      BY <1>1 DEF OrgInv, LocalSound
    <3> QED  BY <1>1, <2>1, <2>4, <2>5, <3>1, <3>2, <3>3, RequestTurns DEF OrgInv
  <2>11. StarterSound'
    <3>1. Made' = Made /\ Joined' = Joined /\ Equipped' = Equipped
      BY <1>1 DEF Made, Joined, Equipped
    <3>2. Grows
      BY <1>1, <2>1, <3>1 DEF Grows
    <3>3. Runs(k, organisation) /\ Progress(k, currency', workflow', Made', Joined', Equipped')
      <4>1. Progress(j, currency, workflow, Made, Joined, Equipped)
        BY <2>2, RequestKnown
      <4> QED  BY <1>1, <2>2, <2>4, <3>1, <4>1, ListsTyped DEF Runs, Progress, Provisioning
    <3>4. \A s \in Requests : /\ request'[s] = IF s = r THEN k ELSE request[s]
                              /\ grant'[s] = IF s = r THEN g ELSE grant[s]
      BY <2>1, ListsTyped DEF OrgInv, LocalSound
    <3>5. \A b : b \in Agents /\ agents[b] # None => agents'[b] # None
      BY <2>1, ListsTyped DEF OrgInv, OwnTyped, Writers
    <3>6. \A s \in Requests : request[s].pc = "grant" => grant[s].agent \in Agents
      BY ListsTyped DEF OrgInv, LocalSound, Matches, RequestSound
    <3>7. agents'[a] # None
      BY <2>1, <2>3, ListsTyped DEF OrgInv, OwnTyped, Writers
    <3>8. ASSUME NEW s \in Requests PROVE Inserting(request[s], grant[s])'
      <4>1. CASE s = r
        BY <2>4, <2>5, <3>4, <3>7, <4>1 DEF Inserting
      <4>2. CASE s # r
        BY <1>1, <3>4, <3>5, <3>6, <4>2 DEF OrgInv, StarterSound, Inserting
      <4> QED  BY <4>1, <4>2
    <3>9. \A e \in Editors : grant'[e] = grant[e]
      BY <2>1, ListsTyped DEF OrgInv, LocalSound
    <3>10. EditsNoted'
      BY <1>1, <3>9 DEF OrgInv, StarterSound, EditsNoted
    <3> QED  BY <2>1, <3>2, <3>3, <3>8, <3>10, StarterTurns DEF OrgInv
  <2> QED  BY <2>8, <2>9, <2>10, <2>11 DEF OrgInv
<1> QED  BY <1>2, <1>3

LEMMA WriteColumnsSound ==
    ASSUME OrgInv, NEW e \in Editors, WriteColumns(e)
    PROVE  OrgInv'
<1>1. /\ grant[e].pc = "idle" /\ organisation # 0
      /\ UNCHANGED <<organisation, lastOrganisation, documents, revived, interrupted, request>>
      /\ UNCHANGED <<currency, tools, types, workflow, members>>
  BY DEF WriteColumns, orgRow
<1>2. PICK a \in Agents :
          /\ agents' = [agents EXCEPT ![a] = e]
          /\ grant' = [grant EXCEPT ![e] =
                 [NoGrant EXCEPT !.pc = "clear", !.agent = a, !.row = organisation]]
          /\ altered' = altered \cup ({a} \cap StarterAgents)
          /\ mixed' = IF IsAtWork(a) THEN mixed \cup {a} ELSE mixed
  BY DEF WriteColumns
<1> DEFINE g == [NoGrant EXCEPT !.pc = "clear", !.agent = a, !.row = organisation]
<1>3. /\ GrantSound(g, lastOrganisation) /\ AtWork(g)
      /\ g.pc = "clear" /\ g.agent = a /\ g.row = organisation
  BY <1>1, BeginsAs
<1>4. GrantsSound'
  <2>1. WriterOf(e) = e /\ e \in Hands /\ ~AtWork(grant[e])
    BY <1>1, ListsTyped DEF WriterOf, AtWork
  <2> QED  BY <1>1, <1>2, <2>1, GrantBegins DEF OrgInv, OwnTyped
<1>5. grant' = [grant EXCEPT ![e] = g]
  BY <1>2
<1> HIDE DEF g
<1>6. LocalSound'
  BY <1>1, <1>3, <1>5, ListsTyped, GrantTurns DEF OrgInv
<1>7. \A b \in Agents : agents'[b] = None => agents[b] = None
  BY <1>2, ListsTyped DEF OrgInv, OwnTyped, Writers
<1>8. OwnTyped'
  <2>1. agents' \in [Agents -> Writers \cup {None}]
    BY <1>2 DEF OrgInv, OwnTyped, Writers
  <2> QED  BY <1>1, <1>7, <2>1 DEF OrgInv, OwnTyped
<1>9. StarterSound'
  <2>1. Made \subseteq Made' /\ Joined \subseteq Joined' /\ Equipped \subseteq Equipped'
    BY <1>1, <1>2 DEF Made, Joined, Equipped
  <2>2. Grows
    BY <1>1, <2>1 DEF Grows
  <2>3. \A s \in Requests : grant'[s] = grant[s]
    BY <1>5, ListsTyped DEF OrgInv, LocalSound
  <2>4. \A s \in Requests : request[s].pc = "grant" => grant[s].agent \in Agents
    BY ListsTyped DEF OrgInv, LocalSound, Matches, RequestSound
  <2>8. altered \subseteq altered'
    BY <1>2
  <2>5. ASSUME NEW s \in Requests PROVE Inserting(request[s], grant[s])'
    <3>1. Inserting(request[s], grant[s])
      BY DEF OrgInv, StarterSound
    <3> QED  BY <1>1, <1>7, <2>3, <2>4, <2>8, <3>1 DEF Inserting
  <2>6. \A d \in Editors : grant'[d] = IF d = e THEN g ELSE grant[d]
    BY <1>5, ListsTyped DEF OrgInv, LocalSound
  <2>7. EditsNoted'
    BY <1>1, <1>2, <1>3, <2>6 DEF OrgInv, StarterSound, EditsNoted
  <2> QED  BY <1>1, <2>2, <2>5, <2>7, StarterStays DEF OrgInv
<1> QED  BY <1>4, <1>6, <1>8, <1>9 DEF OrgInv

LEMMA ClearToolsSound ==
    ASSUME OrgInv, NEW w \in Hands, ClearTools(w)
    PROVE  OrgInv'
<1> DEFINE j == grant[w]
           seen == IF HasAgent(w) THEN tools[j.agent] ELSE {}
           g == [j EXCEPT !.pc = "insert", !.seen = seen]
<1>1. /\ j.pc = "clear" /\ UNCHANGED <<organisation, lastOrganisation, documents, request>>
      /\ UNCHANGED <<currency, agents, tools, types, workflow, members>>
      /\ UNCHANGED <<mixed, interrupted, altered, revived>>
  BY DEF ClearTools, orgRow, ownRows, ghosts
<1>2. grant' = [grant EXCEPT ![w] = g]
  BY DEF ClearTools, OrgInv, LocalSound
<1>3. j \in Grant /\ j.row <= lastOrganisation /\ j.row # 0 /\ j.agent \in Agents
  BY <1>1 DEF OrgInv, LocalSound, GrantSound, AtWork, Grant
<1>4. seen \in SUBSET ToolRow
  BY <1>3 DEF OrgInv, OwnTyped
<1>5. HasAgent(w) => seen = tools[j.agent]
  OBVIOUS
<1> HIDE DEF seen
<1>6. g \in Grant /\ g.pc = "insert" /\ g.agent = j.agent /\ g.row = j.row /\ g.seen = seen
  BY <1>3, <1>4 DEF Grant
<1> HIDE DEF g
<1>7. GrantSound(g, lastOrganisation) /\ AtWork(g) /\ AtWork(j)
  BY <1>1, <1>3, <1>6, ListsTyped DEF GrantSound, AtWork
<1>8. w \in Requests => Matches(request[w], j) /\ Matches(request[w], g)
  BY <1>6, <1>7 DEF OrgInv, LocalSound, Matches
<1>9. LocalSound'
  BY <1>1, <1>2, <1>7, <1>8, GrantTurns DEF OrgInv
<1>10. OwnTyped'
  BY <1>1 DEF OrgInv, OwnTyped
<1>11. \A v \in Hands : grant'[v] = IF v = w THEN g ELSE grant[v]
  BY <1>2 DEF OrgInv, LocalSound
<1>12. GrantsSound'
  <2> SUFFICES ASSUME NEW a \in Agents \ mixed, agents[a] # None PROVE AgentSound(a)'
    BY <1>1 DEF GrantsSound
  <2>1. AgentSound(a)
    BY DEF OrgInv, GrantsSound
  <2>2. \A v \in Hands : GrantOf(v, a)' <=> GrantOf(v, a)
    BY <1>6, <1>7, <1>11 DEF GrantOf
  <2>3. ASSUME NEW v \in Hands, GrantOf(v, a)
        PROVE  /\ grant'[v].row = organisation /\ agents[a] = WriterOf(v)
               /\ grant'[v].pc = "insert" => grant'[v].seen = tools[a]
    <3>1. CASE v = w
      <4>1. HasAgent(w) /\ j.agent = a
        BY <2>1, <2>3, <3>1 DEF AgentSound, GrantOf, HasAgent
      <4> QED  BY <1>5, <1>6, <1>11, <2>1, <2>3, <3>1, <4>1 DEF AgentSound
    <3>2. CASE v # w
      BY <1>11, <2>1, <2>3, <3>2 DEF AgentSound
    <3> QED  BY <3>1, <3>2
  <2> QED  BY <1>1, <2>1, <2>2, <2>3 DEF AgentSound, WriterOf, Wanted
<1>13. StarterSound'
  <2>1. Made' = Made /\ Joined' = Joined /\ Equipped' = Equipped
    BY <1>1 DEF Made, Joined, Equipped
  <2>2. Grows
    BY <1>1, <2>1 DEF Grows
  <2>3. ASSUME NEW s \in Requests PROVE Inserting(request[s], grant[s])'
    <3>1. s \in Hands /\ Inserting(request[s], grant[s])
      BY ListsTyped DEF OrgInv, StarterSound
    <3>2. CASE s = w
      <4> SUFFICES ASSUME request[w].pc = "grant", request[w].row = organisation,
                          j.agent \notin altered
                   PROVE  agents[j.agent] # None /\ tools[j.agent] \subseteq seen
        BY <1>1, <1>6, <1>11, <3>1, <3>2 DEF Inserting
      <4>1. agents[j.agent] # None
        BY <3>1, <3>2 DEF Inserting
      <4>2. HasAgent(w)
        BY <1>8, <3>2, <4>1 DEF HasAgent, Matches
      <4> QED  BY <1>5, <4>1, <4>2
    <3>3. CASE s # w
      BY <1>1, <1>11, <3>1, <3>3 DEF Inserting
    <3> QED  BY <3>2, <3>3
  <2>4. EditsNoted'
    BY <1>1, <1>6, <1>7, <1>11, ListsTyped DEF OrgInv, StarterSound, EditsNoted
  <2> QED  BY <1>1, <2>2, <2>3, <2>4, StarterStays DEF OrgInv
<1> QED  BY <1>9, <1>10, <1>12, <1>13 DEF OrgInv

LEMMA EditBreaksSound ==
    ASSUME OrgInv, NEW e \in Editors, EditBreaks(e),
           UNCHANGED <<organisation, lastOrganisation, documents, ownRows, altered>>
    PROVE  OrgInv'
<1> DEFINE g == [NoGrant EXCEPT !.pc = "done"]
<1>1. /\ UNCHANGED <<currency, agents, tools, types, workflow, members>>
      /\ UNCHANGED <<request, interrupted>> /\ mixed \subseteq mixed'
      /\ grant[e].row = organisation => grant[e].agent \in mixed'
  BY DEF EditBreaks, ownRows
<1>2. grant' = [grant EXCEPT ![e] = g]
  BY DEF EditBreaks
<1>3. g \in Grant /\ g.pc = "done" /\ g.row = 0 /\ ~AtWork(g)
  BY NothingYet DEF Grant, AtWork
<1> HIDE DEF g
<1>4. LocalSound'
  <2>1. GrantSound(g, lastOrganisation)
    BY <1>3 DEF GrantSound, OrgInv, LocalSound
  <2> QED  BY <1>1, <1>2, <2>1, ListsTyped, GrantTurns DEF OrgInv
<1>5. OwnTyped'
  BY <1>1 DEF OrgInv, OwnTyped
<1>6. GrantsSound'
  BY <1>1, <1>2, <1>3, ListsTyped, GrantsBreak DEF OrgInv
<1>7. StarterSound'
  <2>1. Made' = Made /\ Joined' = Joined /\ Equipped' = Equipped
    BY <1>1 DEF Made, Joined, Equipped
  <2>2. Grows
    BY <1>1, <2>1 DEF Grows
  <2>3. \A w \in Hands : grant'[w] = IF w = e THEN g ELSE grant[w]
    BY <1>2 DEF OrgInv, LocalSound
  <2>4. \A s \in Requests : Inserting(request[s], grant[s])'
    BY <1>1, <2>3, ListsTyped DEF OrgInv, StarterSound, Inserting
  <2>5. EditsNoted'
    BY <1>1, <1>3, <2>3, ListsTyped DEF OrgInv, StarterSound, EditsNoted
  <2> QED  BY <1>1, <2>2, <2>4, <2>5, StarterStays DEF OrgInv
<1> QED  BY <1>4, <1>5, <1>6, <1>7 DEF OrgInv

LEMMA EditFailsSound ==
    ASSUME OrgInv, NEW e \in Editors, EditFails(e)
    PROVE  OrgInv'
  BY EditBreaksSound DEF EditFails, orgRow

\* The tools of an agent are replaced.
ToolsSet(w, a, g) ==
    /\ AtWork(grant[w]) /\ grant[w].pc = "insert" /\ grant[w].agent = a
    /\ HasAgent(w) /\ ~(\E row \in Kept(w) : row[1] \in Wanted(w, a))
    /\ tools' = [tools EXCEPT ![a] = Kept(w) \cup (Wanted(w, a) \X {WriterOf(w)})]
    /\ grant' = [grant EXCEPT ![w] = g] /\ ~AtWork(g)
    /\ UNCHANGED <<organisation, lastOrganisation, documents>>
    /\ UNCHANGED <<currency, agents, types, workflow, members>>
    /\ UNCHANGED <<mixed, interrupted, altered, revived>>

LEMMA ToolsSetTyped ==
    ASSUME OrgInv, NEW w \in Hands, NEW a \in Agents, NEW g, ToolsSet(w, a, g)
    PROVE  OwnTyped'
<1>1. Wanted(w, a) \subseteq Tools /\ WriterOf(w) \in Writers
  <2>1. CASE w \in Editors
    BY <2>1 DEF Wanted, WriterOf, Tools, Writers
  <2>2. CASE w \in Requests
    <3>1. a \in StarterAgents
      BY <2>2, ListsTyped DEF OrgInv, LocalSound, Matches, RequestSound, ToolsSet
    <3> QED  BY <2>2, <3>1, ListsTyped DEF Wanted, WriterOf, Tools, Writers
  <2> QED  BY <2>1, <2>2 DEF Hands
<1> DEFINE new == Wanted(w, a) \X {WriterOf(w)}
<1>2. /\ new \subseteq ToolRow
      /\ \A s \in new : s[1] \in Wanted(w, a)
      /\ \A s, t \in new : s[1] = t[1] => s = t
  BY <1>1 DEF ToolRow
<1>3. /\ Kept(w) \subseteq tools[a] /\ tools[a] \subseteq ToolRow
      /\ \A s \in Kept(w) : s[1] \notin Wanted(w, a)
      /\ tools' = [tools EXCEPT ![a] = Kept(w) \cup new]
  BY DEF Kept, ToolsSet, OrgInv, OwnTyped
<1> HIDE DEF new
<1>4. tools' \in [Agents -> SUBSET ToolRow]
  BY <1>2, <1>3 DEF OrgInv, OwnTyped
<1>5. \A b \in Agents : tools'[b] = IF b = a THEN Kept(w) \cup new ELSE tools[b]
  BY <1>3 DEF OrgInv, OwnTyped
<1>6. ASSUME NEW b \in Agents PROVE \A s, t \in tools'[b] : s[1] = t[1] => s = t
  <2>1. CASE b = a
    <3>1. \A s, t \in tools[a] : s[1] = t[1] => s = t
      BY DEF OrgInv, OwnTyped
    <3> QED  BY <1>2, <1>3, <1>5, <2>1, <3>1
  <2>2. CASE b # a
    BY <1>5, <2>2 DEF OrgInv, OwnTyped
  <2> QED  BY <2>1, <2>2
<1>7. \A b \in Agents : agents[b] = None => tools'[b] = {} /\ b \notin members
  BY <1>5 DEF ToolsSet, HasAgent, OrgInv, OwnTyped
<1> QED  BY <1>4, <1>6, <1>7 DEF ToolsSet, OrgInv, OwnTyped

LEMMA ToolsSetSound ==
    ASSUME OrgInv, NEW w \in Hands, NEW a \in Agents, NEW g, ToolsSet(w, a, g)
    PROVE  GrantsSound'
<1>1. \A v \in Hands : grant'[v] = IF v = w THEN g ELSE grant[v]
  BY DEF ToolsSet, OrgInv, LocalSound
<1> SUFFICES ASSUME NEW b \in Agents \ mixed, agents[b] # None PROVE AgentSound(b)'
  BY DEF GrantsSound, ToolsSet
<1>2. AgentSound(b)
  BY DEF OrgInv, GrantsSound
<1>3. CASE b = a
  <2>1. GrantOf(w, a)
    BY DEF ToolsSet, GrantOf
  <2>2. \A v \in Hands : ~GrantOf(v, a)'
    BY <1>1, <1>2, <1>3, <2>1 DEF AgentSound, GrantOf, ToolsSet
  <2>3. grant[w].seen = tools[a] /\ agents[a] = WriterOf(w)
    BY <1>2, <1>3, <2>1 DEF AgentSound, ToolsSet
  <2>4. tools'[a] = Wanted(w, a) \X {WriterOf(w)}
    <3>1. Kept(w) = {}
      BY <2>3 DEF Kept, ToolsSet
    <3> QED  BY <3>1 DEF ToolsSet, OrgInv, OwnTyped
  <2>5. {row[1] : row \in Wanted(w, a) \X {WriterOf(w)}} = Wanted(w, a)
    BY FirstsOf
  <2>6. {row[1] : row \in tools'[a]} = Wanted(w, a)
    BY <2>4, <2>5, Zenon
  <2>7. Wanted(agents[a], a) = Wanted(w, a)
    BY <2>3, ListsTyped DEF Wanted, WriterOf
  <2>8. Wanted(agents'[a], a) = Wanted(w, a)
    BY <2>7 DEF ToolsSet
  <2> QED  BY <1>3, <2>2, <2>6, <2>8 DEF AgentSound, Wanted
<1>4. CASE b # a
  <2>1. tools'[b] = tools[b] /\ agents'[b] = agents[b] /\ organisation' = organisation
    BY <1>4 DEF ToolsSet, OrgInv, OwnTyped
  <2>2. \A v \in Hands : GrantOf(v, b)' <=> GrantOf(v, b)
    BY <1>1, <1>4 DEF GrantOf, ToolsSet
  <2>3. \A v \in Hands : GrantOf(v, b) => grant'[v] = grant[v]
    BY <1>1, <1>4 DEF GrantOf, ToolsSet
  <2> QED  BY <1>2, <2>1, <2>2, <2>3 DEF AgentSound, WriterOf, Wanted
<1> QED  BY <1>3, <1>4

\* Whoever sets the tools of a starter agent equips it, or has altered it.
LEMMA ToolsSetGrows ==
    ASSUME OrgInv, NEW w \in Hands, NEW a \in Agents, NEW g, ToolsSet(w, a, g)
    PROVE  /\ Grows /\ (a \in StarterAgents => a \in Equipped')
           /\ \A s \in Requests \ {w} : request'[s] = request[s] => Inserting(request[s], grant[s])'
           /\ EditsNoted'
<1>1. grant[w].row = organisation
  BY DEF ToolsSet, HasAgent
<1>2. w \in Requests => request[w].pc = "grant" /\ request[w].row = organisation
  BY <1>1 DEF ToolsSet, OrgInv, LocalSound, Matches
<1>3. a \in StarterAgents => a \in Equipped'
  <2> SUFFICES ASSUME a \in StarterAgents, a \notin altered
               PROVE  tools'[a] = TemplateTools[a] \X {"template"}
    BY DEF Equipped, ToolsSet
  <2>1. w \in Requests
    BY <1>1 DEF OrgInv, StarterSound, EditsNoted, ToolsSet, Hands
  <2>2. tools[a] \subseteq grant[w].seen
    BY <1>2, <2>1 DEF OrgInv, StarterSound, Inserting, ToolsSet
  <2>3. Kept(w) = {}
    BY <2>2 DEF Kept, ToolsSet
  <2>4. Wanted(w, a) = TemplateTools[a] /\ WriterOf(w) = "template"
    BY <2>1, ListsTyped DEF Wanted, WriterOf
  <2> QED  BY <2>3, <2>4 DEF ToolsSet, OrgInv, OwnTyped
<1>4. \A b \in Agents \ {a} : tools'[b] = tools[b]
  BY DEF ToolsSet, OrgInv, OwnTyped
<1>5. Grows
  <2>1. Made' = Made /\ Joined' = Joined
    BY DEF Made, Joined, ToolsSet
  <2>2. \A b \in StarterAgents \ {a} : b \in Equipped => b \in Equipped'
    BY <1>4 DEF Equipped, ToolsSet, Agents
  <2>3. Equipped \subseteq Equipped'
    BY <1>3, <2>2 DEF Equipped
  <2> QED  BY <2>1, <2>3 DEF Grows, ToolsSet
<1>6. \A v \in Hands : grant'[v] = IF v = w THEN g ELSE grant[v]
  BY DEF ToolsSet, OrgInv, LocalSound
<1>7. ASSUME NEW s \in Requests \ {w}, request'[s] = request[s]
      PROVE  Inserting(request[s], grant[s])'
  <2>1. Inserting(request[s], grant[s]) /\ grant'[s] = grant[s]
    BY <1>6, ListsTyped DEF OrgInv, StarterSound
  <2> SUFFICES ASSUME request[s].pc = "grant", request[s].row = organisation,
                      grant[s].agent \notin altered, grant[s].pc = "insert"
               PROVE  tools'[grant[s].agent] \subseteq grant[s].seen
    BY <1>7, <2>1 DEF Inserting, ToolsSet
  <2>2. grant[s].agent \in StarterAgents /\ grant[s].agent \in Agents
    BY ListsTyped DEF OrgInv, LocalSound, Matches, RequestSound
  <2>3. grant[s].agent # a
    <3>1. CASE w \in Requests
      BY <1>2, <3>1 DEF OrgInv, LocalSound, OneProvisions, Provisioning
    <3>2. CASE w \in Editors
      BY <1>1, <2>2, <3>2 DEF OrgInv, StarterSound, EditsNoted, ToolsSet
    <3> QED  BY <3>1, <3>2 DEF Hands
  <2> QED  BY <1>4, <2>1, <2>2, <2>3 DEF Inserting
<1>8. EditsNoted'
  BY <1>6, ListsTyped DEF OrgInv, StarterSound, EditsNoted, ToolsSet
<1> QED  BY <1>3, <1>5, <1>7, <1>8

LEMMA EditorInserts ==
    ASSUME OrgInv, NEW w \in Editors, InsertTools(w),
           HasAgent(w), ~(\E row \in Kept(w) : row[1] \in Wanted(w, grant[w].agent))
    PROVE  OrgInv'
<1> DEFINE g == [NoGrant EXCEPT !.pc = "done"]
           a == grant[w].agent
<1>1. g \in Grant /\ g.pc = "done" /\ g.row = 0 /\ ~AtWork(g)
  BY NothingYet DEF Grant, AtWork
<1>2. /\ grant' = [grant EXCEPT ![w] = g] /\ request' = request
      /\ UNCHANGED <<organisation, lastOrganisation, documents>>
  BY DEF InsertTools, orgRow
<1> HIDE DEF g
<1>3. ToolsSet(w, a, g)
  BY <1>1, <1>2 DEF InsertTools, orgRow, ToolsSet, AtWork
<1>4. a \in Agents
  BY <1>3, ListsTyped DEF ToolsSet, OrgInv, LocalSound, GrantSound, Grant
<1>5. LocalSound'
  <2>1. GrantSound(g, lastOrganisation)
    BY <1>1 DEF GrantSound, OrgInv, LocalSound
  <2> QED  BY <1>2, <2>1, ListsTyped, GrantTurns DEF OrgInv
<1>6. Grows /\ EditsNoted' /\ \A s \in Requests : Inserting(request[s], grant[s])'
  BY <1>2, <1>3, <1>4, ListsTyped, ToolsSetGrows
<1>7. StarterSound'
  BY <1>2, <1>6, StarterStays DEF OrgInv
<1>8. OwnTyped' /\ GrantsSound'
  BY <1>3, <1>4, ListsTyped, ToolsSetTyped, ToolsSetSound
<1> QED  BY <1>5, <1>7, <1>8 DEF OrgInv

LEMMA RequestInserts ==
    ASSUME OrgInv, NEW w \in Requests, InsertTools(w),
           HasAgent(w), ~(\E row \in Kept(w) : row[1] \in Wanted(w, grant[w].agent))
    PROVE  OrgInv'
<1> DEFINE j == request[w]
           a == grant[w].agent
           k == NextAgent(w)
<1>1. /\ grant' = [grant EXCEPT ![w] = NoGrant] /\ request' = [request EXCEPT ![w] = k]
      /\ UNCHANGED <<organisation, lastOrganisation, documents>>
  BY ListsTyped DEF InsertTools, orgRow, To
<1>2. ToolsSet(w, a, NoGrant)
  BY <1>1, NothingYet DEF InsertTools, orgRow, ToolsSet, AtWork
<1>3. /\ j.pc = "grant" /\ a = Starters[j.at] /\ j.row = organisation
  BY <1>2 DEF ToolsSet, HasAgent, OrgInv, LocalSound, Matches
<1>4. /\ j \in Request /\ j.at \in 1 .. Len(Starters) /\ j.row # 0 /\ j.row <= lastOrganisation
      /\ Runs(j, organisation)
      /\ Progress(j, currency, workflow, Made, Joined, Equipped)
  BY <1>3, ListsTyped, RequestKnown DEF RequestSound, Provisioning, Runs
<1>5. a \in Agents /\ a \in StarterAgents
  BY <1>3, <1>4, ListsTyped
<1>6. /\ Grows /\ EditsNoted' /\ a \in Equipped'
      /\ \A s \in Requests \ {w} : request'[s] = request[s] => Inserting(request[s], grant[s])'
  BY <1>2, <1>5, ListsTyped, ToolsSetGrows
<1>7. currency' = currency /\ workflow' = workflow /\ Made' = Made /\ Joined' = Joined
  BY <1>2 DEF ToolsSet, Made, Joined
<1>8. \A i \in 1 .. Len(Starters) : i < j.at + 1 => Starters[i] \in Equipped'
  <2> SUFFICES ASSUME NEW i \in 1 .. Len(Starters), i < j.at + 1 PROVE Starters[i] \in Equipped'
    OBVIOUS
  <2>1. CASE i = j.at
    BY <1>3, <1>6, <2>1
  <2>2. CASE i < j.at
    BY <1>3, <1>4, <1>6, <2>2, ListsTyped DEF Progress, Grows
  <2>3. i = j.at \/ i < j.at
    <3>1. j.at \in Int
      BY <1>4, ListsTyped
    <3> HIDE DEF j
    <3> QED  BY <3>1
  <2> QED  BY <2>1, <2>2, <2>3
<1>9. /\ RequestSound(k, lastOrganisation) /\ k.pc \in {"agent", "type"} /\ k.row = j.row
      /\ Progress(k, currency', workflow', Made', Joined', Equipped')
  <2>1. CASE j.at = Len(Starters)
    <3> DEFINE h == [j EXCEPT !.pc = "type", !.at = 1]
    <3>1. k = h
      BY <2>1 DEF NextAgent, At
    <3>2. h \in Request /\ h.pc = "type" /\ h.row = j.row /\ h.at = 1
      BY <1>4 DEF Request, RequestPc
    <3> HIDE DEF h, k
    <3>3. RequestSound(h, lastOrganisation)
      BY <1>4, <3>2, ListsTyped DEF RequestSound
    <3>4. \A i \in 1 .. Len(Starters) : i < Len(Starters) + 1
      BY ListsTyped
    <3>5. Progress(h, currency', workflow', Made', Joined', Equipped')
      BY <1>3, <1>4, <1>7, <1>8, <2>1, <3>2, <3>4, ListsTyped DEF Progress
    <3> QED  BY <3>1, <3>2, <3>3, <3>5
  <2>2. CASE j.at # Len(Starters)
    <3> DEFINE h == [j EXCEPT !.pc = "agent", !.at = j.at + 1]
    <3>1. k = h
      BY <2>2 DEF NextAgent, At
    <3>2. j.at + 1 \in 1 .. Len(Starters)
      <4> HIDE DEF j
      <4> QED  BY <1>4, <2>2, ListsTyped
    <3>6. j.at + 1 \in Nat
      BY <3>2
    <3>3. h \in Request /\ h.pc = "agent" /\ h.row = j.row /\ h.at = j.at + 1
      BY <1>4, <3>6 DEF Request, RequestPc
    <3> HIDE DEF h, k
    <3>4. RequestSound(h, lastOrganisation)
      BY <1>4, <3>2, <3>3, ListsTyped DEF RequestSound
    <3>5. Progress(h, currency', workflow', Made', Joined', Equipped')
      BY <1>3, <1>4, <1>7, <1>8, <3>3, ListsTyped DEF Progress
    <3> QED  BY <3>1, <3>3, <3>4, <3>5
  <2> QED  BY <2>1, <2>2
<1> HIDE DEF k
<1>10. Runs(k, organisation) /\ k.pc # "grant" /\ k.pc \in Provisioning
  BY <1>3, <1>9 DEF Runs, Provisioning
<1>11. LocalSound'
  <2>1. GrantSound(NoGrant, lastOrganisation) /\ Matches(k, NoGrant)
    BY <1>10, NothingYet DEF GrantSound, Matches, OrgInv, LocalSound
  <2>2. /\ lastOrganisation' \in 0 .. MaxOrganisations
        /\ lastOrganisation <= lastOrganisation' /\ organisation' <= lastOrganisation'
    BY <1>1 DEF OrgInv, LocalSound
  <2> QED  BY <1>1, <1>4, <1>9, <1>10, <2>1, <2>2, RequestTurns DEF OrgInv, Runs
<1>12. StarterSound'
  <2>1. \A s \in Requests : request'[s] = IF s = w THEN k ELSE request[s]
    BY <1>1 DEF OrgInv, LocalSound
  <2>2. ASSUME NEW s \in Requests PROVE Inserting(request[s], grant[s])'
    <3>1. CASE s = w
      BY <1>10, <2>1, <3>1 DEF Inserting
    <3>2. CASE s # w
      BY <1>6, <2>1, <3>2
    <3> QED  BY <3>1, <3>2
  <2> QED  BY <1>1, <1>6, <1>9, <1>10, <2>2, StarterTurns DEF OrgInv
<1>13. OwnTyped' /\ GrantsSound'
  BY <1>2, <1>5, ListsTyped, ToolsSetTyped, ToolsSetSound
<1> QED  BY <1>11, <1>12, <1>13 DEF OrgInv

LEMMA InsertToolsSound ==
    ASSUME OrgInv, NEW w \in Hands, InsertTools(w)
    PROVE  OrgInv'
<1> DEFINE clash == HasAgent(w) /\ \E row \in Kept(w) : row[1] \in Wanted(w, grant[w].agent)
<1>1. CASE HasAgent(w) /\ ~clash
  BY <1>1, EditorInserts, RequestInserts DEF Hands
<1>2. CASE ~HasAgent(w) \/ clash
  <2>1. /\ UNCHANGED <<organisation, lastOrganisation, documents, ownRows, altered>>
        /\ IF w \in Requests THEN Throws(w, clash) ELSE EditBreaks(w)
    BY <1>2 DEF InsertTools, orgRow, ownRows
  <2>2. CASE w \in Requests
    <3>1. Throws(w, TRUE) \/ Throws(w, FALSE)
      BY <2>1, <2>2 DEF Throws
    <3> QED  BY <2>1, <2>2, <3>1, ThrowsBreaks, RequestBreaks
  <2>3. CASE w \notin Requests
    BY <2>1, <2>3, EditBreaksSound DEF Hands
  <2> QED  BY <2>2, <2>3
<1> QED  BY <1>1, <1>2

LEMMA DeleteAgentSound ==
    ASSUME OrgInv, NEW a \in Agents, DeleteAgent(a)
    PROVE  OrgInv'
<1>1. /\ UNCHANGED <<organisation, lastOrganisation, documents, request, grant>>
      /\ UNCHANGED <<currency, types, workflow, mixed, interrupted, revived>>
      /\ altered' = altered \cup ({a} \cap StarterAgents) /\ members' = members \ {a}
  BY DEF DeleteAgent, orgRow
<1>2. \A b \in Agents : /\ agents'[b] = IF b = a THEN None ELSE agents[b]
                        /\ tools'[b] = IF b = a THEN {} ELSE tools[b]
  BY DEF DeleteAgent, OrgInv, OwnTyped
<1>3. OwnTyped'
  <2>1. agents' \in [Agents -> Writers \cup {None}] /\ tools' \in [Agents -> SUBSET ToolRow]
    BY DEF DeleteAgent, OrgInv, OwnTyped
  <2> QED  BY <1>1, <1>2, <2>1 DEF OrgInv, OwnTyped
<1>4. GrantsSound'
  <2> SUFFICES ASSUME NEW b \in Agents \ mixed, b # a, agents[b] # None PROVE AgentSound(b)'
    BY <1>1, <1>2 DEF GrantsSound
  <2>1. AgentSound(b) /\ tools'[b] = tools[b] /\ agents'[b] = agents[b]
    BY <1>2 DEF OrgInv, GrantsSound
  <2>2. \A v \in Hands : GrantOf(v, b)' <=> GrantOf(v, b)
    BY <1>1 DEF GrantOf
  <2> QED  BY <1>1, <2>1, <2>2 DEF AgentSound, WriterOf, Wanted
<1>5. LocalSound'
  BY <1>1, LocalKept DEF OrgInv
<1>6. StarterSound'
  <2>1. /\ Made \subseteq Made' /\ Joined \cap StarterAgents \subseteq Joined'
        /\ Equipped \subseteq Equipped'
    BY <1>1, <1>2 DEF Made, Joined, Equipped, Agents
  <2>2. Grows
    BY <1>1, <2>1 DEF Grows
  <2>3. ASSUME NEW s \in Requests PROVE Inserting(request[s], grant[s])'
    <3>1. Inserting(request[s], grant[s])
      BY DEF OrgInv, StarterSound
    <3>2. request[s].pc = "grant" => grant[s].agent \in StarterAgents /\ grant[s].agent \in Agents
      BY ListsTyped DEF OrgInv, LocalSound, Matches, RequestSound
    <3> QED  BY <1>1, <1>2, <3>1, <3>2 DEF Inserting
  <2>4. EditsNoted'
    BY <1>1 DEF OrgInv, StarterSound, EditsNoted
  <2> QED  BY <1>1, <2>2, <2>3, <2>4, StarterStays DEF OrgInv
<1> QED  BY <1>3, <1>4, <1>5, <1>6 DEF OrgInv

LEMMA EditTypesSound ==
    ASSUME OrgInv, EditTypes
    PROVE  OrgInv'
<1>1. /\ UNCHANGED <<organisation, lastOrganisation, documents, request, grant>>
      /\ UNCHANGED <<currency, agents, tools, workflow, members, mixed, interrupted, revived>>
      /\ organisation # 0
  BY DEF EditTypes, orgRow
<1>2. PICK t \in Types : \/ types' = types \cup {t} /\ altered' = altered
                         \/ types' = types \ {t} /\ altered' = altered \cup {t}
  BY DEF EditTypes
<1>3. OwnTyped'
  BY <1>1, <1>2 DEF OrgInv, OwnTyped
<1>4. GrantsSound' /\ LocalSound'
  BY <1>1, GrantsKept, LocalKept DEF OrgInv
<1>5. StarterSound'
  <2>1. Made \subseteq Made' /\ Joined \subseteq Joined' /\ Equipped \subseteq Equipped'
        /\ altered \subseteq altered'
    BY <1>1, <1>2 DEF Made, Joined, Equipped
  <2>2. Grows
    BY <1>1, <2>1 DEF Grows
  <2>3. \A s \in Requests : Inserting(request[s], grant[s])'
    BY <1>1, <2>1 DEF OrgInv, StarterSound, Inserting
  <2>4. EditsNoted'
    BY <1>1, <2>1 DEF OrgInv, StarterSound, EditsNoted
  <2> QED  BY <1>1, <2>2, <2>3, <2>4, StarterStays DEF OrgInv
<1> QED  BY <1>3, <1>4, <1>5 DEF OrgInv

LEMMA EditDocumentsSound ==
    ASSUME OrgInv, EditDocuments
    PROVE  OrgInv'
<1>1. /\ UNCHANGED <<organisation, lastOrganisation, request, grant, ownRows, ghosts>>
      /\ organisation # 0
  BY DEF EditDocuments
<1>2. /\ UNCHANGED <<currency, agents, tools, types, workflow, members>>
      /\ UNCHANGED <<mixed, interrupted, altered, revived>>
  BY <1>1 DEF ownRows, ghosts
<1>3. OwnTyped'
  BY <1>1, <1>2 DEF OrgInv, OwnTyped
<1>4. GrantsSound' /\ LocalSound'
  BY <1>1, <1>2, GrantsKept, LocalKept DEF OrgInv
<1>5. StarterSound'
  <2>1. Made' = Made /\ Joined' = Joined /\ Equipped' = Equipped
    BY <1>2 DEF Made, Joined, Equipped
  <2>2. Grows
    BY <1>1, <1>2, <2>1 DEF Grows
  <2>3. \A s \in Requests : Inserting(request[s], grant[s])'
    BY <1>1, <1>2 DEF OrgInv, StarterSound, Inserting
  <2>4. EditsNoted'
    BY <1>1, <1>2 DEF OrgInv, StarterSound, EditsNoted
  <2> QED  BY <1>1, <2>2, <2>3, <2>4, StarterStays DEF OrgInv
<1> QED  BY <1>3, <1>4, <1>5 DEF OrgInv

\* The row is created: nobody else works on it yet, and nothing of it is there.
LEMMA CreateOrganisationSound ==
    ASSUME OrgInv, NEW r \in Requests, CreateOrganisation(r)
    PROVE  OrgInv'
<1>1. /\ request[r].pc = "create"
      /\ UNCHANGED <<clerkOrganisation, ownRows, documents>>
  BY DEF CreateOrganisation
<1>2. UNCHANGED <<currency, agents, tools, types, workflow, members>>
  BY <1>1 DEF ownRows
<1>3. CASE organisation # 0
  BY <1>1, <1>3, ThrowsBreaks, RequestBreaks DEF CreateOrganisation
<1>4. CASE organisation = 0
  <2> DEFINE k == [NoRequest EXCEPT !.pc = "currency", !.row = lastOrganisation + 1]
  <2>1. /\ lastOrganisation < MaxOrganisations
        /\ organisation' = lastOrganisation + 1 /\ lastOrganisation' = lastOrganisation + 1
        /\ request' = [request EXCEPT ![r] = k]
        /\ UNCHANGED <<grant, mixed, interrupted, altered>>
    BY <1>4 DEF CreateOrganisation, To
  <2>2. lastOrganisation + 1 \in 0 .. MaxOrganisations /\ lastOrganisation \in Nat
    BY <2>1, ListsTyped DEF OrgInv, LocalSound
  <2>3. k \in Request /\ k.pc = "currency" /\ k.row = lastOrganisation + 1
    BY <2>2, NothingYet DEF Request, RequestPc
  <2> HIDE DEF k
  <2>4. \A a \in Agents : agents'[a] = None
    BY <1>2, <1>4 DEF OrgInv, OwnTyped
  <2>5. GrantsSound'
    BY <2>4, NoAgentsLeft
  <2>6. OwnTyped'
    BY <1>1, <1>2, <2>1, <2>2 DEF OrgInv, OwnTyped
  <2>7. LocalSound'
    <3>1. grant' = [grant EXCEPT ![r] = grant[r]]
      BY <2>1, ListsTyped DEF OrgInv, LocalSound
    <3>2. GrantSound(grant[r], lastOrganisation')
      BY <2>1, <2>2, ListsTyped DEF OrgInv, LocalSound, GrantSound, Grant
    <3>3. Matches(k, grant[r])
      BY <1>1, <2>3, RequestKnown DEF Matches
    <3>4. RequestSound(k, lastOrganisation')
      BY <2>1, <2>2, <2>3 DEF RequestSound
    <3>5. k.row > lastOrganisation /\ lastOrganisation <= lastOrganisation'
          /\ organisation' <= lastOrganisation' /\ lastOrganisation' \in 0 .. MaxOrganisations
      BY <2>1, <2>2, <2>3
    <3> QED  BY <2>1, <3>1, <3>2, <3>3, <3>4, <3>5, RequestTurns DEF OrgInv
  <2>8. StarterSound'
    <3>1. \A s \in Requests : request'[s] = IF s = r THEN k ELSE request[s]
      BY <2>1 DEF OrgInv, LocalSound
    <3>2. \A s \in Requests : request[s].row # organisation'
      BY <2>1, <2>2 DEF OrgInv, LocalSound, RequestSound, Request
    <3>3. \A w \in Hands : grant[w].row # organisation'
      BY <2>1, <2>2 DEF OrgInv, LocalSound, GrantSound, Grant
    <3>4. Runs(request'[r], organisation')
      BY <2>1, <2>3, <3>1 DEF Runs, Provisioning
    <3>5. ASSUME NEW s \in Requests, Runs(request'[s], organisation')
          PROVE  Progress(request'[s], currency', workflow', Made', Joined', Equipped')
      <4>1. s = r
        BY <3>1, <3>2, <3>5 DEF Runs
      <4> QED  BY <2>3, <3>1, <4>1 DEF Progress
    <3>6. \A s \in Requests : Inserting(request[s], grant[s])'
      BY <2>3, <3>1, <3>2 DEF Inserting
    <3>7. EditsNoted'
      BY <2>1, <3>3, ListsTyped DEF EditsNoted
    <3> QED  BY <3>4, <3>5, <3>6, <3>7 DEF StarterSound
  <2> QED  BY <2>5, <2>6, <2>7, <2>8 DEF OrgInv
<1> QED  BY <1>3, <1>4

LEMMA CascadeSound ==
    ASSUME OrgInv, NEW r \in Requests, Cascade(r)
    PROVE  OrgInv'
<1>1. /\ request[r].pc = "cascade"
      /\ UNCHANGED <<lastOrganisation, clerkOrganisation, documents, grant, revived>>
  BY DEF Cascade
<1>2. CASE IsGone(r) \/ IsReferredTo
  <2>1. request' = [request EXCEPT ![r] = NoRequest]
        /\ UNCHANGED <<organisation, ownRows, mixed, interrupted, altered>>
    BY <1>2 DEF Cascade, To
  <2> QED  BY <1>1, <2>1, EndsSound DEF ghosts
<1>3. CASE ~IsGone(r) /\ ~IsReferredTo
  <2> DEFINE k == [request[r] EXCEPT !.pc = "clerk"]
  <2>1. /\ organisation' = 0 /\ ~currency' /\ ~workflow'
        /\ agents' = [a \in Agents |-> None] /\ tools' = [a \in Agents |-> {}]
        /\ types' = {} /\ members' = {}
        /\ request' = [request EXCEPT ![r] = k] /\ ~documents
    BY <1>3 DEF Cascade, To, AfterStep, DeletionOrder, IsReferredTo
  <2>2. k \in Request /\ k.pc = "clerk" /\ k.row = request[r].row
    BY RequestKnown, PcTo DEF RequestPc
  <2> HIDE DEF k
  <2>3. OwnTyped'
    BY <1>1, <2>1, ListsTyped DEF OwnTyped
  <2>4. GrantsSound'
    BY <2>1, NoAgentsLeft
  <2>5. LocalSound'
    <3>1. grant' = [grant EXCEPT ![r] = grant[r]]
      BY <1>1, ListsTyped DEF OrgInv, LocalSound
    <3>2. GrantSound(grant[r], lastOrganisation')
      BY <1>1, ListsTyped DEF OrgInv, LocalSound
    <3>3. Matches(k, grant[r])
      BY <1>1, <2>2, RequestKnown DEF Matches
    <3>4. RequestSound(k, lastOrganisation') /\ k.pc \notin Provisioning
      BY <1>1, <2>2, RequestKnown DEF RequestSound, Provisioning
    <3>5. lastOrganisation <= lastOrganisation'
          /\ organisation' <= lastOrganisation' /\ lastOrganisation' \in 0 .. MaxOrganisations
      BY <1>1, <2>1 DEF OrgInv, LocalSound
    <3> QED  BY <2>1, <3>1, <3>2, <3>3, <3>4, <3>5, RequestTurns DEF OrgInv
  <2>6. StarterSound'
    <3>1. \A s \in Requests : RequestSound(request'[s], lastOrganisation')
      BY <2>5 DEF LocalSound
    <3>2. \A s \in Requests : request'[s].pc \in Provisioning => request'[s].row # 0
      BY <3>1 DEF RequestSound
    <3>3. \A s \in Requests : ~Runs(request'[s], organisation')
      BY <2>1, <3>2 DEF Runs
    <3>4. \A s \in Requests : Inserting(request[s], grant[s])'
      BY <2>1, <3>2 DEF Inserting, Provisioning
    <3>5. EditsNoted'
      BY <2>1, <2>5, ListsTyped DEF EditsNoted, LocalSound, GrantSound
    <3> QED  BY <2>1, <3>3, <3>4, <3>5 DEF StarterSound
  <2> QED  BY <2>3, <2>4, <2>5, <2>6 DEF OrgInv
<1> QED  BY <1>2, <1>3

LEMMA ProvisioningStep ==
    ASSUME OrgInv, ProvisioningNext
    PROVE  OrgInv'
<1>1. ASSUME NEW r \in Requests,
             \/ Lookup(r) \/ Fetch(r) \/ CreateOrganisation(r) \/ Reread(r)
             \/ SetCurrency(r) \/ UpsertAgent(r) \/ FindType(r)
             \/ CreateType(r) \/ UpsertWorkflow(r) \/ UpsertMember(r)
             \/ StartDissolve(r) \/ Cascade(r) \/ DissolveClerk(r) \/ RequestFails(r)
      PROVE  OrgInv'
  BY <1>1, LookupSound, FetchSound, CreateOrganisationSound, SetCurrencySound,
     UpsertAgentSound, FindTypeSound, CreateTypeSound, UpsertWorkflowSound,
     UpsertMemberSound, StartDissolveSound, CascadeSound, DissolveClerkSound,
     RequestFailsSound
<1>2. ASSUME NEW e \in Editors, WriteColumns(e) \/ EditFails(e)
      PROVE  OrgInv'
  BY <1>2, WriteColumnsSound, EditFailsSound
<1>3. ASSUME NEW w \in Editors \cup Requests, ClearTools(w) \/ InsertTools(w)
      PROVE  OrgInv'
  BY <1>3, ClearToolsSound, InsertToolsSound DEF Hands
<1> QED
  BY <1>1, <1>2, <1>3, DeleteAgentSound, EditTypesSound, EditDocumentsSound
  DEF ProvisioningNext


-----------------------------------------------------------------------------
(* The people.  A visit goes on while its request is resolved, so that no   *)
(* step of the organisation's concerns it.                                  *)

VisitHeld(k, j) == /\ k.pc # "idle" => j.pc = "resolved"
                   /\ j.pc = "idle" => ~k.fresh

VisitsHeld == /\ visit \in [Requests -> Visit]
              /\ \A r \in Requests : VisitHeld(visit[r], request[r])

PeopleTyped ==
    /\ clerk \in [Persons -> Person] /\ users \in [Persons -> User]
    /\ lastUser \in 0 .. MaxUsers /\ approver \in [Approvals -> 0 .. MaxUsers]
    /\ current \subseteq Persons /\ late \subseteq Persons

\* What the deletion of the organisation leaves once its cascade is through.
DissolvedInv == IsDissolving => organisation = 0 \/ revived

LEMMA NoVisitYet ==
    /\ NoVisit \in Visit /\ NoVisit.pc = "idle" /\ NoVisit.email = None
    /\ ~NoVisit.fresh
  BY TenancyAssumption DEF NoVisit, Visit, Roles

LEMMA RemovalGoesOn ==
    ASSUME NEW r \in Requests, visit[r].pc \in {"unname", "drop", "leave"},
           Proceeds(r)
    PROVE  /\ UNCHANGED <<templateVars, orgRow, ownRows, grant, ghosts>>
           /\ visit[r].pc = "unname" =>
                  visit' = [visit EXCEPT ![r] = [visit[r] EXCEPT !.pc = "drop"]]
                  /\ UNCHANGED request
           /\ visit[r].pc = "drop" =>
                  visit' = [visit EXCEPT ![r] = [visit[r] EXCEPT !.pc = "leave"]]
                  /\ UNCHANGED request
           /\ visit[r].pc = "leave" => Over(r)
<1> DEFINE i == CHOOSE i \in 1 .. 3 : RemovalOrder[i] = visit[r].pc
<1>1. i = IF visit[r].pc = "unname" THEN 1 ELSE IF visit[r].pc = "drop" THEN 2 ELSE 3
  <2>1. RemovalOrder[1] = "unname" /\ RemovalOrder[2] = "drop" /\ RemovalOrder[3] = "leave"
    BY DEF RemovalOrder
  <2>2. \A j \in 1 .. 3 : j = 1 \/ j = 2 \/ j = 3
    OBVIOUS
  <2>3. \E j \in 1 .. 3 : RemovalOrder[j] = visit[r].pc
    BY <2>1
  <2>4. i \in 1 .. 3 /\ RemovalOrder[i] = visit[r].pc
    BY <2>3
  <2> HIDE DEF i
  <2> QED  BY <2>1, <2>2, <2>4
<1>2. /\ Goes(r, IF i < 3 THEN [visit[r] EXCEPT !.pc = RemovalOrder[i + 1]] ELSE NoVisit)
      /\ request' = IF i < 3 THEN request ELSE [request EXCEPT ![r] = NoRequest]
  BY DEF Proceeds
<1> HIDE DEF i
<1>3. CASE visit[r].pc = "unname"
  BY <1>1, <1>2, <1>3 DEF Goes, RemovalOrder
<1>4. CASE visit[r].pc = "drop"
  BY <1>1, <1>2, <1>4 DEF Goes, RemovalOrder
<1>5. CASE visit[r].pc = "leave"
  BY <1>1, <1>2, <1>5 DEF Goes, Over
<1> QED  BY <1>2, <1>3, <1>4, <1>5 DEF Goes

\* A visit goes on with what it has read, which Clerk was asked for first.
Turns(r, k) ==
    /\ Goes(r, k) /\ UNCHANGED request
    /\ k.pc # "idle" /\ k.role = visit[r].role /\ k.fresh = visit[r].fresh
    /\ k.email = IF visit[r].pc = "idle" THEN clerk[PersonOf[r]].email ELSE visit[r].email
    /\ k.pc = "update" => k.user # 0
    /\ k.pc = "leave" => users'[PersonOf[r]] = NoUser

LEMMA ReadyTurns ==
    ASSUME VisitsHeld, NEW r \in Requests, visit[r].pc # "idle", NEW id,
           Goes(r, Ready(r, id)), UNCHANGED request
    PROVE  \E k : Turns(r, k)
<1> DEFINE k == Ready(r, id)
<1>1. visit[r] \in Visit
  BY DEF VisitsHeld
<1>2. k.pc = "ready" /\ k.role = visit[r].role /\ k.fresh = visit[r].fresh
      /\ k.email = visit[r].email
  BY <1>1 DEF Visit, Ready
<1> HIDE DEF k
<1>3. Goes(r, k)
  BY DEF k
<1> QED  BY <1>2, <1>3 DEF Turns

LEMMA PcTurns ==
    ASSUME VisitsHeld, NEW r \in Requests, visit[r].pc # "idle",
           NEW pc \in {"create", "reread", "unname", "drop", "leave"},
           pc = "leave" => users'[PersonOf[r]] = NoUser,
           Goes(r, [visit[r] EXCEPT !.pc = pc]), UNCHANGED request
    PROVE  \E k : Turns(r, k)
<1> DEFINE k == [visit[r] EXCEPT !.pc = pc]
<1>1. visit[r] \in Visit
  BY DEF VisitsHeld
<1>2. k.pc = pc /\ k.role = visit[r].role /\ k.fresh = visit[r].fresh
      /\ k.email = visit[r].email
  BY <1>1 DEF Visit
<1> HIDE DEF k
<1>3. Goes(r, k)
  BY DEF k
<1> QED  BY <1>2, <1>3 DEF Turns

LEMMA VisitTurns ==
    ASSUME VisitsHeld, PeopleTyped, NEW r \in Requests, VisitNext(r), ~SignIn(r)
    PROVE  /\ request[r].pc = "resolved"
           /\ Over(r) \/ \E k : Turns(r, k)
<1>1. visit[r] \in Visit /\ (visit[r].pc # "idle" => request[r].pc = "resolved")
  BY DEF VisitsHeld, VisitHeld
<1>6. CASE AskClerk(r)
  <2> DEFINE k == [visit[r] EXCEPT !.pc = "find", !.email = clerk[PersonOf[r]].email]
  <2>1. k.pc = "find" /\ k.role = visit[r].role /\ k.fresh = visit[r].fresh
        /\ k.email = clerk[PersonOf[r]].email
    BY <1>1 DEF Visit
  <2>2. Over(r) \/ (Goes(r, k) /\ UNCHANGED request)
    BY <1>6 DEF AskClerk
  <2>3. request[r].pc = "resolved" /\ visit[r].pc = "idle"
    BY <1>6 DEF AskClerk
  <2> HIDE DEF k
  <2> QED  BY <2>1, <2>2, <2>3 DEF Turns
<1>7. CASE FindUser(r)
  <2> DEFINE j == users[PersonOf[r]]
             known == IsRow(r) /\ j.id # 0
             u == [visit[r] EXCEPT !.pc = "update", !.user = j.id]
             k == CASE ~known -> [visit[r] EXCEPT !.pc = "create"]
                    [] known /\ Same(j, visit[r]) -> Ready(r, j.id)
                    [] OTHER -> u
  <2>1. u.pc = "update" /\ u.role = visit[r].role /\ u.fresh = visit[r].fresh
        /\ u.email = visit[r].email /\ u.user = j.id
    BY <1>1 DEF Visit
  <2>2. visit[r].pc = "find" /\ Goes(r, k) /\ UNCHANGED request
    BY <1>7 DEF FindUser
  <2> HIDE DEF u
  <2>3. \/ k = [visit[r] EXCEPT !.pc = "create"] \/ k = Ready(r, j.id)
        \/ k = u /\ known
    OBVIOUS
  <2> HIDE DEF k
  <2>4. CASE k = u /\ known
    BY <2>1, <2>2, <2>4, <1>1 DEF Turns
  <2>5. CASE k = [visit[r] EXCEPT !.pc = "create"]
    BY <2>2, <2>5, <1>1, PcTurns
  <2>6. CASE k = Ready(r, j.id)
    BY <2>2, <2>6, <1>1, ReadyTurns
  <2> QED  BY <2>3, <2>4, <2>5, <2>6
<1>8. CASE UpdateUser(r)
  <2>1. /\ visit[r].pc = "update"
        /\ Over(r) \/ (Goes(r, Ready(r, visit[r].user)) /\ UNCHANGED request)
    BY <1>8 DEF UpdateUser
  <2> QED  BY <1>1, <2>1, ReadyTurns
<1>9. CASE CreateUser(r)
  <2>1. /\ visit[r].pc = "create"
        /\ \/ Over(r) \/ (Goes(r, Ready(r, lastUser + 1)) /\ UNCHANGED request)
           \/ (Goes(r, [visit[r] EXCEPT !.pc = "reread"]) /\ UNCHANGED request)
    BY <1>9 DEF CreateUser
  <2> QED  BY <1>1, <2>1, ReadyTurns, PcTurns
<1>10. CASE RereadUser(r)
  <2>1. /\ visit[r].pc = "reread"
        /\ Over(r) \/ (Goes(r, Ready(r, users[PersonOf[r]].id)) /\ UNCHANGED request)
    BY <1>10 DEF RereadUser
  <2> QED  BY <1>1, <2>1, ReadyTurns
<1>11. CASE Leave(r) \/ Decide(r) \/ VisitFails(r)
  <2>1. Over(r) /\ visit[r].pc # "idle"
    BY <1>11 DEF Leave, Decide, VisitFails
  <2> QED  BY <1>1, <2>1
<1>12. CASE StartRemoval(r)
  <2>1. RemovalOrder[1] = "unname"
    BY DEF RemovalOrder
  <2>2. visit[r].pc = "ready" /\ Goes(r, [visit[r] EXCEPT !.pc = "unname"]) /\ UNCHANGED request
    BY <1>12, <2>1 DEF StartRemoval
  <2> QED  BY <1>1, <2>2, PcTurns
<1>13. CASE UnnameApprovals(r)
  <2>1. visit[r].pc = "unname" /\ Proceeds(r)
    BY <1>13 DEF UnnameApprovals
  <2>2. Goes(r, [visit[r] EXCEPT !.pc = "drop"]) /\ UNCHANGED request
    BY <2>1, RemovalGoesOn DEF Goes
  <2> QED  BY <1>1, <2>1, <2>2, PcTurns
<1>14. CASE DropUser(r)
  <2>1. visit[r].pc = "drop"
        /\ (Over(r) \/ (Proceeds(r) /\ users' = [users EXCEPT ![PersonOf[r]] = NoUser]))
    BY <1>14 DEF DropUser
  <2>2. CASE Proceeds(r) /\ users' = [users EXCEPT ![PersonOf[r]] = NoUser]
    <3>1. Goes(r, [visit[r] EXCEPT !.pc = "leave"]) /\ UNCHANGED request
      BY <2>1, <2>2, RemovalGoesOn DEF Goes
    <3>2. users'[PersonOf[r]] = NoUser
      BY <2>2, TenancyAssumption DEF PeopleTyped
    <3> QED  BY <1>1, <2>1, <3>1, <3>2, PcTurns
  <2> QED  BY <1>1, <2>1, <2>2
<1>15. CASE DropPerson(r)
  <2>1. visit[r].pc = "leave" /\ Proceeds(r)
    BY <1>15 DEF DropPerson
  <2> QED  BY <1>1, <2>1, RemovalGoesOn
<1> QED
  BY <1>6, <1>7, <1>8, <1>9, <1>10, <1>11, <1>12, <1>13, <1>14, <1>15 DEF VisitNext

\* No step of the organisation's begins a request.
LEMMA StepsUnderWay ==
    ASSUME OrgInv, ProvisioningNext, NEW s \in Requests, request[s].pc = "idle"
    PROVE  request'[s].pc = "idle"
<1>1. request \in [Requests -> Request] /\ grant \in [Hands -> Grant]
  BY DEF OrgInv, LocalSound
<1>2. \A r \in Requests : \A k :
          request[r].pc # "idle" /\ To(r, k) => request'[s].pc = "idle"
  BY <1>1 DEF To
<1>3. \A r \in Requests :
          request[r].pc # "idle" /\ (Throws(r, TRUE) \/ Throws(r, FALSE))
              => request'[s].pc = "idle"
  BY <1>2 DEF Throws
<1>4. UNCHANGED request => request'[s].pc = "idle"
  OBVIOUS
<1>5. ASSUME NEW r \in Requests,
             \/ Lookup(r) \/ Fetch(r) \/ CreateOrganisation(r) \/ Reread(r)
             \/ UpsertAgent(r) \/ FindType(r) \/ RequestFails(r)
             \/ UpsertMember(r)
      PROVE  request'[s].pc = "idle"
  BY <1>2, <1>3, <1>5 DEF Lookup, Fetch, CreateOrganisation, Reread, UpsertAgent,
     FindType, RequestFails, UpsertMember
<1>6. ASSUME NEW r \in Requests, StartDissolve(r) \/ Cascade(r) \/ DissolveClerk(r)
      PROVE  request'[s].pc = "idle"
  BY <1>2, <1>6 DEF StartDissolve, Cascade, DissolveClerk
<1>7. ASSUME NEW r \in Requests, SetCurrency(r) \/ UpsertWorkflow(r)
      PROVE  request'[s].pc = "idle"
  BY <1>2, <1>3, <1>7 DEF SetCurrency, UpsertWorkflow, Provision
<1>8. ASSUME NEW r \in Requests, CreateType(r) PROVE request'[s].pc = "idle"
  <2>1. request[r].pc = "newtype"
    BY <1>8 DEF CreateType
  <2>2. (\E k : To(r, k)) \/ Throws(r, TRUE) \/ Throws(r, FALSE)
    BY <1>8 DEF CreateType, Throws
  <2> QED  BY <1>2, <1>3, <2>1, <2>2
<1>9. ASSUME NEW w \in Editors \cup Requests, ClearTools(w) \/ InsertTools(w)
      PROVE  request'[s].pc = "idle"
  <2>1. CASE ClearTools(w)
    BY <1>4, <2>1 DEF ClearTools
  <2>2. CASE InsertTools(w) /\ w \in Editors
    BY <1>4, <2>2, ListsTyped DEF InsertTools, EditBreaks
  <2>3. CASE InsertTools(w) /\ w \in Requests
    <3>1. request[w].pc = "grant"
      BY <2>3 DEF InsertTools, OrgInv, LocalSound, Matches, AtWork
    <3>2. (\E k : To(w, k)) \/ Throws(w, TRUE) \/ Throws(w, FALSE)
      BY <2>3, ListsTyped DEF InsertTools, Throws
    <3> QED  BY <1>2, <1>3, <2>3, <3>1, <3>2
  <2> QED  BY <1>9, <2>1, <2>2, <2>3
<1>10. ASSUME \/ \E e \in Editors : WriteColumns(e) \/ EditFails(e)
              \/ \E a \in Agents : DeleteAgent(a)
              \/ EditTypes \/ EditDocuments
       PROVE  request'[s].pc = "idle"
  BY <1>4, <1>10 DEF WriteColumns, EditFails, EditBreaks, DeleteAgent, EditTypes,
     EditDocuments
<1> QED
  BY <1>5, <1>6, <1>7, <1>8, <1>9, <1>10 DEF ProvisioningNext

\* Nothing of the organisation happens.
LEMMA OrgStays ==
    ASSUME OrgInv, UNCHANGED provisioningVars
    PROVE  OrgInv'
<1>1. UNCHANGED <<organisation, lastOrganisation, documents, currency, agents, tools, types,
                  workflow, members, request, grant, mixed, interrupted, altered>>
  BY DEF provisioningVars, orgRow, ownRows, ghosts
<1>2. OwnTyped'
  BY <1>1 DEF OrgInv, OwnTyped
<1>3. LocalSound'
  BY <1>1, LocalKept DEF OrgInv
<1>4. GrantsSound'
  BY <1>1, GrantsKept DEF OrgInv
<1>5. StarterSound'
  <2>1. Grows
    BY <1>1 DEF Grows, Made, Joined, Equipped
  <2>2. \A s \in Requests : Inserting(request[s], grant[s])'
    BY <1>1 DEF OrgInv, StarterSound, Inserting
  <2>3. EditsNoted'
    BY <1>1 DEF OrgInv, StarterSound, EditsNoted
  <2> QED  BY <1>1, <2>1, <2>2, <2>3, StarterStays DEF OrgInv
<1> QED  BY <1>2, <1>3, <1>4, <1>5 DEF OrgInv

-----------------------------------------------------------------------------
(* The deletion of the organisation.                                        *)

\* Only the cascade's success brings a request to Clerk, and the row is gone.
LEMMA DissolvedStep ==
    ASSUME OrgInv, DissolvedInv, ProvisioningNext
    PROVE  DissolvedInv'
<1>1. request \in [Requests -> Request]
  BY DEF OrgInv, LocalSound
<1>2. \A r \in Requests : ~(request[r].pc = "clerk") \/ IsDissolving
  BY DEF IsDissolving
<1>3. ASSUME UNCHANGED <<organisation, clerkOrganisation, revived>>,
             \A s \in Requests : request'[s].pc = "clerk" => request[s].pc = "clerk"
      PROVE  DissolvedInv'
  BY <1>3 DEF DissolvedInv, IsDissolving
<1>4. ASSUME NEW r \in Requests, NEW k, k.pc # "clerk", To(r, k)
      PROVE  \A s \in Requests : request'[s].pc = "clerk" => request[s].pc = "clerk"
  BY <1>1, <1>4 DEF To
<1>5. ASSUME NEW r \in Requests, Throws(r, TRUE) \/ Throws(r, FALSE)
      PROVE  \A s \in Requests : request'[s].pc = "clerk" => request[s].pc = "clerk"
  <2> DEFINE k == [NoRequest EXCEPT !.pc = "reread"]
  <2>1. k.pc = "reread" /\ NoRequest.pc = "idle"
    BY DEF NoRequest
  <2>2. To(r, k) \/ To(r, NoRequest)
    BY <1>5 DEF Throws
  <2> HIDE DEF k
  <2> QED  BY <1>4, <2>1, <2>2
<1>6. ASSUME NEW r \in Requests, CreateOrganisation(r) PROVE DissolvedInv'
  <2>1. CASE organisation # 0
    BY <1>3, <1>5, <1>6, <2>1 DEF CreateOrganisation
  <2>2. CASE organisation = 0
    <3> DEFINE k == [NoRequest EXCEPT !.pc = "currency", !.row = lastOrganisation + 1]
    <3>1. k.pc = "currency"
      BY DEF NoRequest
    <3>2. To(r, k) /\ UNCHANGED clerkOrganisation /\ revived' = (revived \/ IsDissolving)
      BY <1>6, <2>2 DEF CreateOrganisation
    <3> HIDE DEF k
    <3>3. \A s \in Requests : request'[s].pc = "clerk" => request[s].pc = "clerk"
      BY <1>4, <3>1, <3>2
    <3>4. IsDissolving' => IsDissolving
      BY <3>2, <3>3 DEF IsDissolving
    <3> QED  BY <3>2, <3>4 DEF DissolvedInv
  <2> QED  BY <2>1, <2>2
<1>7. ASSUME NEW r \in Requests, Cascade(r) PROVE DissolvedInv'
  <2>1. CASE organisation' = 0
    BY <2>1 DEF DissolvedInv
  <2>2. CASE organisation' # 0
    <3>1. To(r, NoRequest) /\ UNCHANGED <<organisation, clerkOrganisation, revived>>
      BY <1>7, <2>2 DEF Cascade
    <3>2. NoRequest.pc # "clerk"
      BY DEF NoRequest
    <3> QED  BY <1>3, <1>4, <3>1, <3>2
  <2> QED  BY <2>1, <2>2
<1>8. ASSUME NEW r \in Requests, DissolveClerk(r) PROVE DissolvedInv'
  <2>1. IsDissolving /\ UNCHANGED <<organisation, revived>>
    BY <1>2, <1>8 DEF DissolveClerk, ghosts
  <2> QED  BY <2>1 DEF DissolvedInv
<1>9. ASSUME NEW r \in Requests, Lookup(r) \/ Fetch(r) \/ Reread(r)
      PROVE  DissolvedInv'
  <2>1. \E k : To(r, k) /\ k.pc # "clerk"
    <3> DEFINE j == [NoRequest EXCEPT !.pc = "resolved", !.row = organisation]
               f == [NoRequest EXCEPT !.pc = "fetch"]
               c == [NoRequest EXCEPT !.pc = "create"]
    <3>1. /\ j.pc = "resolved" /\ f.pc = "fetch" /\ c.pc = "create" /\ NoRequest.pc = "idle"
      BY DEF NoRequest
    <3>2. To(r, j) \/ To(r, f) \/ To(r, c) \/ To(r, NoRequest)
      BY <1>9 DEF Lookup, Fetch, Reread
    <3> HIDE DEF j, f, c
    <3> QED  BY <3>1, <3>2
  <2>2. UNCHANGED <<organisation, clerkOrganisation, revived>>
    BY <1>9 DEF Lookup, Fetch, Reread, orgRow, ghosts
  <2> QED  BY <1>3, <1>4, <2>1, <2>2
<1>10. ASSUME NEW r \in Requests,
              \/ SetCurrency(r) \/ UpsertAgent(r) \/ FindType(r) \/ CreateType(r)
              \/ UpsertWorkflow(r) \/ UpsertMember(r) \/ StartDissolve(r)
              \/ RequestFails(r)
       PROVE  DissolvedInv'
  <2>1. UNCHANGED <<organisation, clerkOrganisation, revived>>
    BY <1>10 DEF SetCurrency, UpsertAgent, FindType, CreateType, UpsertWorkflow,
       UpsertMember, StartDissolve, RequestFails, Provision, orgRow, ghosts
  <2>2. (\E k : To(r, k) /\ k.pc # "clerk") \/ Throws(r, TRUE) \/ Throws(r, FALSE)
    <3>1. request[r] \in Request
      BY <1>1
    <3>2. \A pc, at : At(r, pc, at).pc = pc
      BY <3>1 DEF At, Request
    <3>3. CASE SetCurrency(r) \/ UpsertAgent(r) \/ UpsertWorkflow(r) \/ RequestFails(r)
      <4>1. \/ To(r, At(r, "agent", 1)) \/ To(r, At(r, "grant", request[r].at))
            \/ To(r, At(r, "member", 1)) \/ Throws(r, FALSE)
        BY <3>3 DEF SetCurrency, UpsertAgent, UpsertWorkflow, RequestFails, Provision
      <4>2. /\ At(r, "agent", 1).pc # "clerk" /\ At(r, "member", 1).pc # "clerk"
            /\ At(r, "grant", request[r].at).pc # "clerk"
        BY <3>2
      <4> QED  BY <4>1, <4>2
    <3>4. CASE UpsertMember(r)
      <4>1. \/ To(r, At(r, "resolved", 0)) \/ To(r, At(r, "member", request[r].at + 1))
            \/ Throws(r, FALSE)
        BY <3>4 DEF UpsertMember
      <4>2. /\ At(r, "resolved", 0).pc # "clerk"
            /\ At(r, "member", request[r].at + 1).pc # "clerk"
        BY <3>2
      <4> QED  BY <4>1, <4>2
    <3>5. \A found : AfterType(r, found).pc # "clerk"
      BY <3>2 DEF AfterType
    <3>6. CASE CreateType(r)
      <4>1. To(r, AfterType(r, FALSE)) \/ Throws(r, TRUE) \/ Throws(r, FALSE)
        BY <3>6 DEF CreateType, Throws
      <4> QED  BY <3>5, <4>1
    <3>7. CASE FindType(r)
      <4> DEFINE k == [request[r] EXCEPT !.pc = "newtype"]
      <4>1. k.pc = "newtype"
        BY <3>1 DEF Request
      <4>2. To(r, AfterType(r, TRUE)) \/ To(r, k)
        BY <3>7 DEF FindType
      <4> HIDE DEF k
      <4> QED  BY <3>5, <4>1, <4>2
    <3>8. CASE StartDissolve(r)
      <4> DEFINE k == [request[r] EXCEPT !.pc = "cascade"]
      <4>1. k.pc = "cascade"
        BY <3>1 DEF Request
      <4>2. To(r, k)
        BY <3>8 DEF StartDissolve, DeletionOrder
      <4> HIDE DEF k
      <4> QED  BY <4>1, <4>2
    <3> QED  BY <1>10, <3>3, <3>4, <3>6, <3>7, <3>8
  <2> QED  BY <1>3, <1>4, <1>5, <2>1, <2>2
<1>11. ASSUME NEW w \in Editors \cup Requests, ClearTools(w) \/ InsertTools(w)
       PROVE  DissolvedInv'
  <2>1. UNCHANGED <<organisation, clerkOrganisation, revived>>
    BY <1>11 DEF ClearTools, InsertTools, orgRow, ghosts
  <2>2. CASE ClearTools(w)
    BY <1>3, <2>1, <2>2 DEF ClearTools
  <2>3. CASE InsertTools(w) /\ w \in Editors
    BY <1>3, <2>1, <2>3, ListsTyped DEF InsertTools, EditBreaks
  <2>4. CASE InsertTools(w) /\ w \in Requests
    <3>1. request[w] \in Request
      BY <1>1, <2>4
    <3>2. NextAgent(w).pc # "clerk"
      BY <3>1 DEF NextAgent, At, Request
    <3>3. To(w, NextAgent(w)) \/ Throws(w, TRUE) \/ Throws(w, FALSE)
      BY <2>4, ListsTyped DEF InsertTools, Throws
    <3> QED  BY <1>3, <1>4, <1>5, <2>1, <2>4, <3>2, <3>3
  <2> QED  BY <1>11, <2>2, <2>3, <2>4
<1>12. ASSUME \/ \E e \in Editors : WriteColumns(e) \/ EditFails(e)
              \/ \E a \in Agents : DeleteAgent(a)
              \/ EditTypes \/ EditDocuments
       PROVE  DissolvedInv'
  <2>1. UNCHANGED <<organisation, clerkOrganisation, revived, request>>
    BY <1>12 DEF WriteColumns, EditFails, EditBreaks, DeleteAgent, EditTypes,
       EditDocuments, orgRow, ghosts
  <2> QED  BY <1>3, <2>1
<1> QED
  BY <1>6, <1>7, <1>8, <1>9, <1>10, <1>11, <1>12 DEF ProvisioningNext

-----------------------------------------------------------------------------
(* Organisation, templates and requests, at every step.                     *)

TenantInv == TemplatesInv /\ OrgInv /\ VisitsHeld /\ DissolvedInv

LEMMA TenantStart == Init => TenantInv
<1> SUFFICES ASSUME Init PROVE TenantInv
  OBVIOUS
<1>1. TemplatesInv /\ OrgInv
  BY TemplatesStart, OrgStart DEF Init
<1>2. VisitsHeld
  BY NoVisitYet DEF Init, VisitsHeld, VisitHeld
<1>3. DissolvedInv
  BY NothingYet DEF Init, ProvisioningInit, DissolvedInv, IsDissolving
<1> QED  BY <1>1, <1>2, <1>3 DEF TenantInv

\* How a request signs in.
LEMMA SignInGoes ==
    ASSUME VisitsHeld, NEW r \in Requests, SignIn(r)
    PROVE  \E k \in Visit :
               /\ visit' = [visit EXCEPT ![r] = k]
               /\ k.pc = "idle" /\ k.email = None
               /\ k.role = LocalRole(clerk[PersonOf[r]].role)
               /\ k.fresh = \A s \in Requests \ {r} :
                      PersonOf[s] = PersonOf[r] /\ request[s].pc # "idle" => visit[s].fresh
<1> DEFINE f == \A s \in Requests \ {r} :
                    PersonOf[s] = PersonOf[r] /\ request[s].pc # "idle" => visit[s].fresh
           role == LocalRole(clerk[PersonOf[r]].role)
           k == [NoVisit EXCEPT !.role = role, !.fresh = f]
<1>1. visit' = [visit EXCEPT ![r] = k]
  BY DEF SignIn
<1>2. f \in BOOLEAN /\ role \in Roles
  BY DEF LocalRole, Roles
<1> HIDE DEF f, role
<1>3. k \in Visit /\ k.pc = "idle" /\ k.email = None /\ k.role = role /\ k.fresh = f
  BY <1>2, NoVisitYet DEF Visit
<1> HIDE DEF k
<1> QED  BY <1>1, <1>3 DEF f, role

\* A visit goes on with what it has a type for.
LEMMA VisitTyped ==
    ASSUME VisitsHeld, NEW r \in Requests, VisitNext(r), PeopleTyped
    PROVE  visit' \in [Requests -> Visit]
<1>1. visit \in [Requests -> Visit] /\ visit[r] \in Visit
  BY DEF VisitsHeld
<1>2. PersonOf[r] \in Persons /\ MaxUsers \in Nat
  BY TenancyAssumption
<1>3. clerk[PersonOf[r]].email \in Emails /\ users[PersonOf[r]].id \in 0 .. MaxUsers
  BY <1>2 DEF PeopleTyped, Person, User
<1>4. ASSUME NEW k \in Visit, visit' = [visit EXCEPT ![r] = k]
      PROVE  visit' \in [Requests -> Visit]
  BY <1>1, <1>4
<1>5. ASSUME NEW k \in Visit, Goes(r, k) PROVE visit' \in [Requests -> Visit]
  BY <1>4, <1>5 DEF Goes
<1>6. Over(r) => visit' \in [Requests -> Visit]
  BY <1>5, NoVisitYet DEF Over
<1>7. ASSUME NEW pc \in {"create", "reread", "unname", "drop", "leave"}
      PROVE  [visit[r] EXCEPT !.pc = pc] \in Visit
  BY <1>1 DEF Visit
<1>8. ASSUME NEW u \in 0 .. MaxUsers
      PROVE  Ready(r, u) \in Visit /\ [visit[r] EXCEPT !.pc = "update", !.user = u] \in Visit
  BY <1>1 DEF Visit, Ready
<1>9. CASE SignIn(r)
  BY <1>4, <1>9, SignInGoes
<1>10. CASE AskClerk(r)
  <2> DEFINE k == [visit[r] EXCEPT !.pc = "find", !.email = clerk[PersonOf[r]].email]
  <2>1. k \in Visit
    BY <1>1, <1>3 DEF Visit
  <2>2. Over(r) \/ Goes(r, k)
    BY <1>10 DEF AskClerk
  <2> HIDE DEF k
  <2> QED  BY <1>5, <1>6, <2>1, <2>2
<1>11. CASE FindUser(r)
  <2> DEFINE u == users[PersonOf[r]].id
             k == [visit[r] EXCEPT !.pc = "create"]
             j == [visit[r] EXCEPT !.pc = "update", !.user = u]
  <2>1. k \in Visit /\ j \in Visit /\ Ready(r, u) \in Visit
    BY <1>3, <1>7, <1>8
  <2>2. Goes(r, k) \/ Goes(r, j) \/ Goes(r, Ready(r, u))
    BY <1>11 DEF FindUser
  <2> HIDE DEF k, j
  <2> QED  BY <1>5, <2>1, <2>2
<1>12. CASE UpdateUser(r)
  <2>1. visit[r].user \in 0 .. MaxUsers
    BY <1>1 DEF Visit
  <2>2. Over(r) \/ Goes(r, Ready(r, visit[r].user))
    BY <1>12 DEF UpdateUser
  <2> QED  BY <1>5, <1>6, <1>8, <2>1, <2>2
<1>13. CASE CreateUser(r)
  <2>1. Over(r) \/ Goes(r, [visit[r] EXCEPT !.pc = "reread"])
        \/ (lastUser < MaxUsers /\ Goes(r, Ready(r, lastUser + 1)))
    BY <1>13 DEF CreateUser
  <2>2. CASE lastUser < MaxUsers /\ Goes(r, Ready(r, lastUser + 1))
    <3>1. lastUser + 1 \in 0 .. MaxUsers
      BY <1>2, <2>2 DEF PeopleTyped
    <3> QED  BY <1>5, <1>8, <2>2, <3>1
  <2> QED  BY <1>5, <1>6, <1>7, <2>1, <2>2
<1>14. CASE RereadUser(r)
  <2>1. Over(r) \/ Goes(r, Ready(r, users[PersonOf[r]].id))
    BY <1>14 DEF RereadUser
  <2> QED  BY <1>3, <1>5, <1>6, <1>8, <2>1
<1>15. CASE Leave(r) \/ Decide(r) \/ VisitFails(r)
  <2>1. Over(r)
    BY <1>15 DEF Leave, Decide, VisitFails
  <2> QED  BY <1>6, <2>1
<1>16. CASE StartRemoval(r)
  <2>1. RemovalOrder[1] = "unname"
    BY DEF RemovalOrder
  <2>2. Goes(r, [visit[r] EXCEPT !.pc = "unname"])
    BY <1>16, <2>1 DEF StartRemoval
  <2> QED  BY <1>5, <1>7, <2>2
<1>17. CASE UnnameApprovals(r) \/ DropUser(r) \/ DropPerson(r)
  <2>1. visit[r].pc \in {"unname", "drop", "leave"} /\ (Proceeds(r) \/ Over(r))
    BY <1>17 DEF UnnameApprovals, DropUser, DropPerson
  <2>2. \/ Over(r) \/ visit' = [visit EXCEPT ![r] = [visit[r] EXCEPT !.pc = "drop"]]
        \/ visit' = [visit EXCEPT ![r] = [visit[r] EXCEPT !.pc = "leave"]]
    BY <2>1, RemovalGoesOn
  <2> QED  BY <1>4, <1>6, <1>7, <2>2
<1> QED
  BY <1>9, <1>10, <1>11, <1>12, <1>13, <1>14, <1>15, <1>16, <1>17 DEF VisitNext

-----------------------------------------------------------------------------
(* The people's rows.                                                       *)

\* What has been read of Clerk while it is fresh, and who has seen it.
VisitsFresh ==
    /\ \A r \in Requests :
          /\ visit[r].pc # "idle" => visit[r].email # None
          /\ visit[r].fresh =>
                 /\ visit[r].role = LocalRole(clerk[PersonOf[r]].role)
                 /\ visit[r].email # None => visit[r].email = clerk[PersonOf[r]].email
    /\ \A r, s \in Requests :
          PersonOf[r] = PersonOf[s] /\ request[r].pc # "idle" /\ request[s].pc # "idle"
              => visit[r].fresh = visit[s].fresh
    /\ \A r \in Requests :
          PersonOf[r] \in current /\ request[r].pc # "idle" => visit[r].fresh
    /\ UsersSynced

\* A row has its address for itself and is there while it is referred to.
UsersSound ==
    /\ \A p, q \in Persons : users[p].id # 0 /\ users[p].email = users[q].email => p = q
    /\ \A p \in Persons : IF users[p].id = 0 THEN users[p] = NoUser
                          ELSE users[p].email # None
    /\ \A k \in Approvals : approver[k] # 0 => \E p \in Persons : users[p].id = approver[k]
    /\ organisation = 0 => \A p \in Persons : users[p] = NoUser
    /\ \A r \in Requests : visit[r].pc = "update" => visit[r].user # 0
    /\ \A p \in Persons : IsLeaving(p) => users[p].id = 0 \/ p \in late

LEMMA RowSynced ==
    ASSUME VisitsHeld, PeopleTyped, NEW r \in Requests, NEW id \in 0 .. MaxUsers, Synced(r, id)
    PROVE  /\ users' \in [Persons -> User]
           /\ \A q \in Persons \ {PersonOf[r]} : users'[q] = users[q]
           /\ users'[PersonOf[r]] = [id |-> id, role |-> visit[r].role, email |-> visit[r].email]
<1> DEFINE row == [id |-> id, role |-> visit[r].role, email |-> visit[r].email]
<1>1. row \in User
  BY DEF VisitsHeld, Visit, User
<1> HIDE DEF row
<1>2. PersonOf[r] \in Persons /\ users' = [users EXCEPT ![PersonOf[r]] = row]
  BY TenancyAssumption DEF Synced, row
<1>3. users' \in [Persons -> User] /\ users'[PersonOf[r]] = row
      /\ \A q \in Persons \ {PersonOf[r]} : users'[q] = users[q]
  BY <1>1, <1>2 DEF PeopleTyped
<1> QED  BY <1>3 DEF row

\* What a step of a visit may do to the rows of the people.
LEMMA UsersTurn ==
    ASSUME VisitsHeld, PeopleTyped, NEW r \in Requests, VisitNext(r)
    PROVE  /\ \/ UNCHANGED users
              \/ \E id \in 0 .. MaxUsers : Synced(r, id)
              \/ users' = [users EXCEPT ![PersonOf[r]] = NoUser]
           /\ lastUser' \in 0 .. MaxUsers
           /\ current' \subseteq Persons /\ late' \subseteq Persons
<1>1. PersonOf[r] \in Persons /\ MaxUsers \in Nat
  BY TenancyAssumption
<1>2. visit[r].user \in 0 .. MaxUsers
  BY DEF VisitsHeld, Visit
<1>3. Seen(r) \subseteq Persons
  BY <1>1 DEF Seen, PeopleTyped
<1>4. CASE SignIn(r) \/ AskClerk(r) \/ RereadUser(r) \/ Leave(r) \/ Decide(r)
           \/ StartRemoval(r) \/ UnnameApprovals(r) \/ DropPerson(r) \/ VisitFails(r)
  <2>1. UNCHANGED <<users, lastUser, current, late>>
    BY <1>4 DEF SignIn, AskClerk, RereadUser, Leave, Decide, StartRemoval, UnnameApprovals,
       DropPerson, VisitFails
  <2> QED  BY <2>1 DEF PeopleTyped
<1>5. CASE FindUser(r)
  <2>1. UNCHANGED <<users, lastUser, late>> /\ (current' = Seen(r) \/ current' = current)
    BY <1>5 DEF FindUser
  <2> QED  BY <1>3, <2>1 DEF PeopleTyped
<1>6. CASE UpdateUser(r)
  <2>1. UNCHANGED <<lastUser, late>> /\ (current' = Seen(r) \/ current' = current)
        /\ (Synced(r, visit[r].user) \/ UNCHANGED users)
    BY <1>6 DEF UpdateUser
  <2> QED  BY <1>2, <1>3, <2>1 DEF PeopleTyped
<1>7. CASE CreateUser(r)
  <2>1. \/ UNCHANGED <<users, lastUser, current, late>>
        \/ /\ lastUser < MaxUsers /\ lastUser' = lastUser + 1 /\ Synced(r, lastUser + 1)
           /\ current' = Seen(r)
           /\ late' = late \cup {PersonOf[r]} \/ late' = late
    BY <1>7 DEF CreateUser
  <2>2. lastUser < MaxUsers => lastUser + 1 \in 0 .. MaxUsers
    BY <1>1 DEF PeopleTyped
  <2> QED  BY <1>1, <1>3, <2>1, <2>2 DEF PeopleTyped
<1>8. CASE DropUser(r)
  <2>1. UNCHANGED <<lastUser, current, late>>
        /\ (UNCHANGED users \/ users' = [users EXCEPT ![PersonOf[r]] = NoUser])
    BY <1>8 DEF DropUser
  <2> QED  BY <2>1 DEF PeopleTyped
<1> QED  BY <1>4, <1>5, <1>6, <1>7, <1>8 DEF VisitNext

LEMMA NoUserTyped == NoUser \in User /\ NoUser.id = 0 /\ NoUser.email = None
  BY TenancyAssumption DEF NoUser, User, Roles

\* What it may do to Clerk, and to the approvals.
LEMMA ClerkTurns ==
    ASSUME VisitsHeld, PeopleTyped, NEW r \in Requests, VisitNext(r)
    PROVE  /\ clerk' \in [Persons -> Person]
           /\ \A p \in Persons : clerk'[p].role = clerk[p].role /\ clerk'[p].email = clerk[p].email
           /\ \A p \in Persons : ~clerk'[p].there =>
                  ~clerk[p].there \/ (p = PersonOf[r] /\ visit[r].pc = "leave")
<1>1. CASE DropPerson(r)
  <2>1. clerk' = [clerk EXCEPT ![PersonOf[r]].there = FALSE] /\ visit[r].pc = "leave"
    BY <1>1 DEF DropPerson
  <2> DEFINE p == PersonOf[r]
             gone == [clerk[p] EXCEPT !.there = FALSE]
  <2>2. p \in Persons /\ clerk[p] \in Person
    BY TenancyAssumption DEF PeopleTyped
  <2>3. gone \in Person /\ gone.role = clerk[p].role /\ gone.email = clerk[p].email
    BY <2>2 DEF Person
  <2>4. clerk' = [clerk EXCEPT ![p] = gone]
    BY <2>1
  <2> HIDE DEF gone, p
  <2>5. \A q \in Persons : clerk'[q] = IF q = p THEN gone ELSE clerk[q]
    BY <2>4 DEF PeopleTyped
  <2>6. clerk' \in [Persons -> Person]
    BY <2>2, <2>3, <2>4 DEF PeopleTyped
  <2> QED  BY <2>1, <2>3, <2>5, <2>6 DEF p
<1>2. CASE ~DropPerson(r)
  <2>1. UNCHANGED clerk
    BY <1>2 DEF VisitNext, SignIn, AskClerk, RereadUser, Leave, Decide, StartRemoval,
       UnnameApprovals, VisitFails, FindUser, UpdateUser, CreateUser, DropUser
  <2> QED  BY <2>1 DEF PeopleTyped
<1> QED  BY <1>1, <1>2

LEMMA ApproverTurns ==
    ASSUME VisitsHeld, PeopleTyped, NEW r \in Requests, VisitNext(r)
    PROVE  /\ approver' \in [Approvals -> 0 .. MaxUsers]
           /\ \A k \in Approvals : approver'[k] = 0 \/ approver'[k] = approver[k]
                  \/ \E p \in Persons : users[p].id = approver'[k] /\ UNCHANGED users
<1>1. visit[r].user \in 0 .. MaxUsers /\ 0 \in 0 .. MaxUsers
  BY TenancyAssumption DEF VisitsHeld, Visit
<1>2. CASE UNCHANGED approver
  BY <1>2 DEF PeopleTyped
<1>3. CASE Decide(r)
  <2>1. UNCHANGED users
    BY <1>3 DEF Decide
  <2>2. CASE ~UNCHANGED approver
    <3>1. PICK k \in Approvals : /\ \E p \in Persons : users[p].id = visit[r].user
                                 /\ approver' = [approver EXCEPT ![k] = visit[r].user]
      BY <1>3, <2>2 DEF Decide
    <3> QED  BY <1>1, <2>1, <3>1 DEF PeopleTyped
  <2> QED  BY <1>2, <2>2
<1>4. CASE UnnameApprovals(r)
  <2>1. approver' = [k \in Approvals |-> IF approver[k] = visit[r].user THEN 0 ELSE approver[k]]
    BY <1>4 DEF UnnameApprovals
  <2> QED  BY <1>1, <2>1 DEF PeopleTyped
<1>5. UNCHANGED approver \/ Decide(r) \/ UnnameApprovals(r)
  BY DEF VisitNext, SignIn, AskClerk, RereadUser, Leave, StartRemoval,
     DropPerson, VisitFails, FindUser, UpdateUser, CreateUser, DropUser
<1> QED  BY <1>2, <1>3, <1>4, <1>5

LEMMA PeopleTypedVisit ==
    ASSUME VisitsHeld, PeopleTyped, NEW r \in Requests, VisitNext(r)
    PROVE  PeopleTyped'
<1>1. users' \in [Persons -> User]
  <2>1. CASE users' = [users EXCEPT ![PersonOf[r]] = NoUser]
    BY <2>1, NoUserTyped DEF PeopleTyped
  <2> QED  BY <2>1, UsersTurn, RowSynced DEF PeopleTyped
<1> QED  BY <1>1, UsersTurn, ClerkTurns, ApproverTurns DEF PeopleTyped

\* A row that a visit leaves behind is as Clerk has it, if anybody counts on it.
LEMMA RowFresh ==
    ASSUME VisitsHeld, PeopleTyped, VisitsFresh, NEW r \in Requests,
           request[r].pc # "idle", visit[r].pc # "idle",
           NEW id \in 0 .. MaxUsers, Synced(r, id), UNCHANGED clerk, current' = Seen(r)
    PROVE  UsersSynced'
<1>1. PersonOf[r] \in current' => visit[r].fresh
  BY DEF Seen, VisitsFresh
<1>2. PersonOf[r] \in current' =>
          /\ visit[r].role = LocalRole(clerk[PersonOf[r]].role)
          /\ visit[r].email = clerk[PersonOf[r]].email
  BY <1>1 DEF VisitsFresh
<1>3. \A p \in current' \ {PersonOf[r]} : p \in current
  BY DEF Seen
<1>4. current \subseteq Persons
  BY DEF PeopleTyped
<1>5. users'[PersonOf[r]] = [id |-> id, role |-> visit[r].role, email |-> visit[r].email]
      /\ \A q \in Persons \ {PersonOf[r]} : users'[q] = users[q]
  BY RowSynced
<1> SUFFICES ASSUME NEW q \in current', users'[q].id # 0
             PROVE  /\ users'[q].role = LocalRole(clerk[q].role)
                    /\ users'[q].email = clerk[q].email
  BY DEF UsersSynced
<1>6. CASE q = PersonOf[r]
  BY <1>2, <1>5, <1>6
<1>7. CASE q # PersonOf[r]
  <2>1. q \in current /\ q \in Persons
    BY <1>3, <1>4, <1>7
  <2> QED  BY <1>5, <1>7, <2>1 DEF UsersSynced, VisitsFresh
<1> QED  BY <1>6, <1>7

LEMMA UsersSyncedVisit ==
    ASSUME VisitsHeld, PeopleTyped, VisitsFresh, NEW r \in Requests, VisitNext(r)
    PROVE  /\ UsersSynced'
           /\ current' = current \/ (current' = Seen(r) /\ request[r].pc # "idle")
<1>1. \A p \in Persons : clerk'[p].role = clerk[p].role /\ clerk'[p].email = clerk[p].email
  BY ClerkTurns
<1>2. current \subseteq Persons /\ UsersSynced
  BY DEF PeopleTyped, VisitsFresh
<1>3. visit[r].pc # "idle" => request[r].pc # "idle"
  BY DEF VisitsHeld, VisitHeld
<1>4. visit[r].user \in 0 .. MaxUsers /\ MaxUsers \in Nat
  BY TenancyAssumption DEF VisitsHeld, Visit
<1>5. CASE UNCHANGED <<users, current>>
  BY <1>1, <1>2, <1>5 DEF UsersSynced
<1>6. CASE FindUser(r) /\ ~UNCHANGED current
  <2>1. /\ visit[r].pc = "find" /\ UNCHANGED <<users, clerk>> /\ current' = Seen(r)
        /\ Same(users[PersonOf[r]], visit[r])
    BY <1>6 DEF FindUser
  <2>2. visit[r].fresh => /\ users[PersonOf[r]].role = LocalRole(clerk[PersonOf[r]].role)
                          /\ users[PersonOf[r]].email = clerk[PersonOf[r]].email
    BY <2>1 DEF VisitsFresh, Same
  <2>3. UsersSynced'
    BY <1>2, <2>1, <2>2 DEF UsersSynced, Seen
  <2> QED  BY <1>3, <2>1, <2>3
<1>7. CASE UpdateUser(r) /\ ~UNCHANGED <<users, current>>
  <2>1. visit[r].pc = "update" /\ Synced(r, visit[r].user) /\ current' = Seen(r)
        /\ UNCHANGED clerk
    BY <1>7 DEF UpdateUser
  <2> QED  BY <1>3, <1>4, <2>1, RowFresh
<1>8. CASE CreateUser(r) /\ ~UNCHANGED <<users, current>>
  <2>1. visit[r].pc = "create" /\ Synced(r, lastUser + 1) /\ current' = Seen(r)
        /\ UNCHANGED clerk /\ lastUser < MaxUsers
    BY <1>8 DEF CreateUser
  <2>2. lastUser + 1 \in 0 .. MaxUsers
    BY <1>4, <2>1 DEF PeopleTyped
  <2> QED  BY <1>3, <2>1, <2>2, RowFresh
<1>9. CASE DropUser(r) /\ ~UNCHANGED <<users, current>>
  <2>1. users' = [users EXCEPT ![PersonOf[r]] = NoUser] /\ UNCHANGED <<clerk, current>>
    BY <1>9 DEF DropUser
  <2> QED  BY <1>2, <2>1, NoUserTyped DEF UsersSynced, PeopleTyped
<1>10. \/ UNCHANGED <<users, current>> \/ (FindUser(r) /\ ~UNCHANGED current)
       \/ ((UpdateUser(r) \/ CreateUser(r) \/ DropUser(r)) /\ ~UNCHANGED <<users, current>>)
  <2>1. \/ UNCHANGED <<users, current>>
        \/ FindUser(r) \/ UpdateUser(r) \/ CreateUser(r) \/ DropUser(r)
    BY DEF VisitNext, SignIn, AskClerk, RereadUser, Leave, Decide, StartRemoval,
       UnnameApprovals, DropPerson, VisitFails
  <2>2. FindUser(r) => UNCHANGED users
    BY DEF FindUser
  <2> QED  BY <2>1, <2>2
<1> QED  BY <1>5, <1>6, <1>7, <1>8, <1>9, <1>10

\* What a visit has read stays fresh as long as it was.
LEMMA FreshVisit ==
    ASSUME VisitsHeld, PeopleTyped, VisitsFresh, request \in [Requests -> Request],
           NEW r \in Requests, VisitNext(r)
    PROVE  VisitsFresh'
<1> DEFINE p == PersonOf[r]
<1>1. \A q \in Persons : clerk'[q].role = clerk[q].role /\ clerk'[q].email = clerk[q].email
  BY ClerkTurns
<1>2. \A s \in Requests : PersonOf[s] \in Persons
  BY TenancyAssumption
<1>3. visit \in [Requests -> Visit] /\ visit' \in [Requests -> Visit]
  BY VisitTyped DEF VisitsHeld
<1>4. /\ UsersSynced'
      /\ current' = current \/ (current' = Seen(r) /\ request[r].pc # "idle")
  BY UsersSyncedVisit
<1>5. \A s \in Requests : /\ visit[s].fresh \in BOOLEAN
                          /\ request[s].pc = "idle" => ~visit[s].fresh
  BY NoVisitYet DEF VisitsHeld, VisitHeld, Visit
<1>6. \A s \in Requests : visit[s].pc # "idle" => request[s].pc # "idle"
  BY DEF VisitsHeld, VisitHeld
<1>7. /\ \A s \in Requests :
            /\ visit[s].pc # "idle" => visit[s].email # None
            /\ visit[s].fresh =>
                   /\ visit[s].role = LocalRole(clerk[PersonOf[s]].role)
                   /\ visit[s].email # None => visit[s].email = clerk[PersonOf[s]].email
      /\ \A s, t \in Requests :
            PersonOf[s] = PersonOf[t] /\ request[s].pc # "idle" /\ request[t].pc # "idle"
                => visit[s].fresh = visit[t].fresh
      /\ \A s \in Requests :
            PersonOf[s] \in current /\ request[s].pc # "idle" => visit[s].fresh
  BY DEF VisitsFresh
<1>8. \A s \in Requests : PersonOf[s] \in current' /\ request[s].pc # "idle" => visit[s].fresh
  BY <1>4, <1>7 DEF Seen
<1>9. CASE SignIn(r)
  <2>1. PICK k \in Visit :
            /\ visit' = [visit EXCEPT ![r] = k]
            /\ k.pc = "idle" /\ k.email = None
            /\ k.role = LocalRole(clerk[p].role)
            /\ k.fresh = \A s \in Requests \ {r} :
                   PersonOf[s] = p /\ request[s].pc # "idle" => visit[s].fresh
    BY <1>9, SignInGoes
  <2>2. /\ visit'[r] = k /\ \A s \in Requests \ {r} : visit'[s] = visit[s]
    BY <1>3, <2>1
  <2>3. \A s \in Requests \ {r} : request'[s] = request[s]
    BY <1>9 DEF SignIn, StartRequest, To
  <2>4. UNCHANGED <<clerk, current>>
    BY <1>9 DEF SignIn
  <2>5. \A s \in Requests : s # r /\ PersonOf[s] = p /\ request[s].pc # "idle"
            => visit[s].fresh = k.fresh
    <3> SUFFICES ASSUME NEW s \in Requests, s # r, PersonOf[s] = p, request[s].pc # "idle"
                 PROVE  visit[s].fresh = k.fresh
      OBVIOUS
    <3>1. k.fresh \in BOOLEAN
      BY <2>1 DEF Visit
    <3>2. CASE visit[s].fresh
      <4>1. \A t \in Requests \ {r} :
                PersonOf[t] = p /\ request[t].pc # "idle" => visit[t].fresh
        BY <1>7, <3>2
      <4> QED  BY <1>5, <2>1, <3>1, <3>2, <4>1
    <3>3. CASE ~visit[s].fresh
      BY <1>5, <2>1, <3>1, <3>3
    <3> QED  BY <3>2, <3>3
  <2>6. p \in current => k.fresh
    BY <1>7, <2>1
  <2>7. \A s \in Requests :
            /\ visit'[s].pc # "idle" => visit'[s].email # None
            /\ visit'[s].fresh =>
                   /\ visit'[s].role = LocalRole(clerk'[PersonOf[s]].role)
                   /\ visit'[s].email # None => visit'[s].email = clerk'[PersonOf[s]].email
    BY <1>7, <2>1, <2>2, <2>4
  <2>8. \A s, t \in Requests :
            PersonOf[s] = PersonOf[t] /\ request'[s].pc # "idle" /\ request'[t].pc # "idle"
                => visit'[s].fresh = visit'[t].fresh
    BY <1>7, <2>2, <2>3, <2>5
  <2>9. \A s \in Requests :
            PersonOf[s] \in current' /\ request'[s].pc # "idle" => visit'[s].fresh
    BY <1>7, <2>2, <2>3, <2>4, <2>6
  <2> QED  BY <1>4, <2>7, <2>8, <2>9 DEF VisitsFresh
<1>10. CASE Over(r)
  <2>1. /\ visit'[r] = NoVisit /\ request'[r] = NoRequest
        /\ \A s \in Requests \ {r} : visit'[s] = visit[s] /\ request'[s] = request[s]
    BY <1>3, <1>10 DEF Over, Goes
  <2>2. request'[r].pc = "idle"
    BY <2>1, NothingYet
  <2>3. \A s \in Requests :
            /\ visit'[s].pc # "idle" => visit'[s].email # None
            /\ visit'[s].fresh =>
                   /\ visit'[s].role = LocalRole(clerk'[PersonOf[s]].role)
                   /\ visit'[s].email # None => visit'[s].email = clerk'[PersonOf[s]].email
    BY <1>1, <1>2, <1>7, <2>1, NoVisitYet
  <2> QED  BY <1>4, <1>7, <1>8, <2>1, <2>2, <2>3 DEF VisitsFresh
<1>11. CASE ~SignIn(r) /\ ~Over(r)
  <2>1. PICK k : Turns(r, k)
    BY <1>11, VisitTurns
  <2>2. /\ visit'[r] = k /\ \A s \in Requests \ {r} : visit'[s] = visit[s]
        /\ UNCHANGED request
    BY <1>3, <2>1 DEF Turns, Goes
  <2>3. clerk[p].email \in Emails
    BY <1>2 DEF PeopleTyped, Person
  <2>4. /\ k.role = visit[r].role /\ k.fresh = visit[r].fresh
        /\ k.email = IF visit[r].pc = "idle" THEN clerk[p].email ELSE visit[r].email
    BY <2>1 DEF Turns
  <2>5. k.email # None
    BY <1>7, <2>3, <2>4, TenancyAssumption
  <2>6. \A s \in Requests :
            /\ visit'[s].pc # "idle" => visit'[s].email # None
            /\ visit'[s].fresh =>
                   /\ visit'[s].role = LocalRole(clerk'[PersonOf[s]].role)
                   /\ visit'[s].email # None => visit'[s].email = clerk'[PersonOf[s]].email
    BY <1>1, <1>2, <1>7, <2>2, <2>4, <2>5
  <2>7. \A s \in Requests : visit'[s].fresh = visit[s].fresh /\ request'[s] = request[s]
    BY <2>2, <2>4
  <2> QED  BY <1>4, <1>7, <1>8, <2>6, <2>7 DEF VisitsFresh
<1> QED  BY <1>9, <1>10, <1>11

\* The rows stay apart, and those that are referred to stay there.
LEMMA UsersSoundVisit ==
    ASSUME OrgInv, VisitsHeld, PeopleTyped, VisitsFresh, UsersSound, NEW r \in Requests, VisitNext(r)
    PROVE  UsersSound'
<1> DEFINE p == PersonOf[r]
<1>1. /\ \A q \in Persons : users[q].id \in 0 .. MaxUsers
      /\ p \in Persons /\ MaxUsers \in Nat /\ lastUser \in 0 .. MaxUsers
  BY TenancyAssumption DEF PeopleTyped, User
<1>2. /\ \A q, s \in Persons : users[q].id # 0 /\ users[q].email = users[s].email => q = s
      /\ \A q \in Persons : IF users[q].id = 0 THEN users[q] = NoUser
                            ELSE users[q].email # None
      /\ \A k \in Approvals : approver[k] # 0 => \E q \in Persons : users[q].id = approver[k]
      /\ organisation = 0 => \A q \in Persons : users[q] = NoUser
      /\ \A s \in Requests : visit[s].pc = "update" => visit[s].user # 0
      /\ \A q \in Persons : IsLeaving(q) => users[q].id = 0 \/ q \in late
  BY DEF UsersSound
<1>3. UNCHANGED organisation
  <2>1. UNCHANGED orgRow
    <3>1. SignIn(r) => UNCHANGED orgRow
      BY DEF SignIn, StartRequest
    <3>2. ~SignIn(r) => UNCHANGED orgRow
      BY VisitTurns DEF Turns, Over, Goes
    <3> QED  BY <3>1, <3>2
  <2> QED  BY <2>1 DEF orgRow
<1>4. request[r].pc = "resolved" => request[r].row # 0
  BY RequestKnown DEF RequestSound
<1>5. visit \in [Requests -> Visit] /\ visit[r] \in Visit
  BY DEF VisitsHeld
\* Who is leaving.
<1>6. /\ \A s \in Requests \ {r} : visit'[s] = visit[s]
      /\ visit'[r].pc = "update" => visit'[r].user # 0
      /\ visit'[r].pc = "leave" => users'[p] = NoUser
  <2>1. CASE SignIn(r)
    <3>1. PICK k \in Visit : visit' = [visit EXCEPT ![r] = k] /\ k.pc = "idle"
      BY <2>1, SignInGoes
    <3> QED  BY <1>5, <3>1
  <2>2. CASE Over(r)
    BY <1>5, <2>2, NoVisitYet DEF Over, Goes
  <2>3. CASE ~SignIn(r) /\ ~Over(r)
    <3>1. PICK k : Turns(r, k)
      BY <2>3, VisitTurns
    <3> QED  BY <1>5, <3>1 DEF Turns, Goes
  <2> QED  BY <2>1, <2>2, <2>3
<1>7. \A q \in Persons : IsLeaving(q)' => IsLeaving(q) \/ users'[q].id = 0
  <2>1. \A q \in Persons : ~clerk'[q].there => IsLeaving(q)
    BY ClerkTurns DEF IsLeaving
  <2>2. \A q \in Persons, s \in Requests : PersonOf[s] = q /\ visit'[s].pc = "leave"
            => IsLeaving(q) \/ users'[q].id = 0
    BY <1>6, NoUserTyped DEF IsLeaving
  <2> QED  BY <2>1, <2>2 DEF IsLeaving
<1>8. \A s \in Requests : visit'[s].pc = "update" => visit'[s].user # 0
  BY <1>2, <1>6
<1>9. CASE UNCHANGED users
  <2>1. late \subseteq late'
    BY DEF VisitNext, SignIn, AskClerk, RereadUser, Leave, Decide, StartRemoval,
       UnnameApprovals, DropPerson, VisitFails, FindUser, UpdateUser, CreateUser, DropUser
  <2>2. \A k \in Approvals : approver'[k] # 0 => \E q \in Persons : users[q].id = approver'[k]
    BY <1>2, ApproverTurns
  <2>3. \A q \in Persons : IsLeaving(q)' => users'[q].id = 0 \/ q \in late'
    BY <1>2, <1>7, <1>9, <2>1
  <2> QED  BY <1>2, <1>3, <1>8, <1>9, <2>2, <2>3 DEF UsersSound
<1>10. CASE (UpdateUser(r) \/ CreateUser(r)) /\ ~UNCHANGED users
  <2>1. PICK id \in 1 .. MaxUsers :
            /\ Synced(r, id) /\ ~IsTaken(r) /\ UNCHANGED <<approver, clerk>>
            /\ users[p].id = 0 \/ users[p].id = id
            /\ users[p].id = 0 => IsRow(r) /\ (IsLeaving(p) => p \in late')
            /\ late \subseteq late' /\ visit[r].pc # "idle"
    <3>1. CASE UpdateUser(r)
      <4>1. /\ visit[r].pc = "update" /\ users[p].id = visit[r].user /\ ~IsTaken(r)
            /\ Synced(r, visit[r].user) /\ UNCHANGED <<approver, clerk, late>>
        BY <1>10, <3>1 DEF UpdateUser
      <4>2. visit[r].user \in 1 .. MaxUsers
        BY <1>1, <1>2, <4>1
      <4> QED  BY <4>1, <4>2
    <3>2. CASE CreateUser(r)
      <4>1. /\ visit[r].pc = "create" /\ IsRow(r) /\ users[p].id = 0 /\ ~IsTaken(r)
            /\ lastUser < MaxUsers /\ Synced(r, lastUser + 1) /\ UNCHANGED <<approver, clerk>>
            /\ late' = IF IsLeaving(p) THEN late \cup {p} ELSE late
        BY <1>10, <3>2 DEF CreateUser
      <4>2. lastUser + 1 \in 1 .. MaxUsers
        BY <1>1, <4>1
      <4> QED  BY <4>1, <4>2
    <3> QED  BY <1>10, <3>1, <3>2
  <2>2. /\ \A q \in Persons \ {p} : users'[q] = users[q]
        /\ users'[p] = [id |-> id, role |-> visit[r].role, email |-> visit[r].email]
    <3>1. id \in 0 .. MaxUsers
      BY <1>1
    <3> QED  BY <2>1, <3>1, RowSynced
  <2>3. users'[p].id = id /\ users'[p].email = visit[r].email /\ id # 0
    BY <2>2
  <2>4. organisation # 0
    <3>1. CASE users[p].id = 0
      BY <1>4, <2>1, <3>1 DEF IsRow, VisitsHeld, VisitHeld
    <3>2. CASE users[p].id # 0
      BY <1>1, <1>2, <3>2, NoUserTyped
    <3> QED  BY <3>1, <3>2
  <2>5. \A q \in Persons \ {p} : users[q].id # 0 => users[q].email # visit[r].email
    BY <2>1 DEF IsTaken
  <2>6. \A k \in Approvals : approver'[k] # 0 => \E q \in Persons : users'[q].id = approver'[k]
    <3> SUFFICES ASSUME NEW k \in Approvals, approver[k] # 0
                 PROVE  \E q \in Persons : users'[q].id = approver[k]
      BY <2>1
    <3>1. PICK q \in Persons : users[q].id = approver[k]
      BY <1>2
    <3>2. CASE q = p
      BY <1>1, <2>1, <2>3, <3>1, <3>2
    <3>3. CASE q # p
      BY <2>2, <3>1, <3>3
    <3> QED  BY <3>2, <3>3
  <2>7. \A q \in Persons : IsLeaving(q)' => users'[q].id = 0 \/ q \in late'
    <3> SUFFICES ASSUME NEW q \in Persons, IsLeaving(q)', users'[q].id # 0
                 PROVE  q \in late'
      OBVIOUS
    <3>1. IsLeaving(q)
      BY <1>7
    <3>2. CASE q = p /\ users[q].id = 0
      BY <2>1, <3>1, <3>2
    <3>3. CASE ~(q = p /\ users[q].id = 0)
      <4>1. users[q].id # 0
        BY <2>2, <3>3
      <4> QED  BY <1>2, <2>1, <3>1, <4>1
    <3> QED  BY <3>2, <3>3
  <2>8. visit[r].email # None
    BY <2>1 DEF VisitsFresh
  <2>9. \A q, s \in Persons : users'[q].id # 0 /\ users'[q].email = users'[s].email => q = s
    <3> SUFFICES ASSUME NEW q \in Persons, NEW s \in Persons, q # s, users'[q].id # 0,
                        users'[q].email = users'[s].email
                 PROVE  FALSE
      OBVIOUS
    <3>1. CASE q = p
      <4>1. users[s].email = visit[r].email
        BY <2>2, <2>3, <3>1
      <4> QED  BY <1>2, <2>5, <2>8, <3>1, <4>1, NoUserTyped
    <3>2. CASE s = p
      BY <2>2, <2>3, <2>5, <3>2
    <3>3. CASE q # p /\ s # p
      BY <1>2, <2>2, <3>3
    <3> QED  BY <3>1, <3>2, <3>3
  <2>10. \A q \in Persons : IF users'[q].id = 0 THEN users'[q] = NoUser
                            ELSE users'[q].email # None
    BY <1>2, <2>2, <2>3, <2>8
  <2> QED  BY <1>3, <1>8, <2>4, <2>6, <2>7, <2>9, <2>10 DEF UsersSound
<1>11. CASE DropUser(r) /\ ~UNCHANGED users
  <2>1. /\ users' = [users EXCEPT ![p] = NoUser] /\ UNCHANGED <<approver, late>>
        /\ \A k \in Approvals : approver[k] # users[p].id
    BY <1>11 DEF DropUser
  <2>2. users'[p] = NoUser /\ \A q \in Persons \ {p} : users'[q] = users[q]
    BY <2>1, <1>1 DEF PeopleTyped
  <2>3. \A k \in Approvals : approver'[k] # 0 => \E q \in Persons : users'[q].id = approver'[k]
    <3> SUFFICES ASSUME NEW k \in Approvals, approver[k] # 0
                 PROVE  \E q \in Persons : users'[q].id = approver[k]
      BY <2>1
    <3>1. PICK q \in Persons : users[q].id = approver[k]
      BY <1>2
    <3>2. q # p
      BY <2>1, <3>1
    <3> QED  BY <2>2, <3>1, <3>2
  <2>4. \A q \in Persons : IsLeaving(q)' => users'[q].id = 0 \/ q \in late'
    BY <1>2, <1>7, <2>1, <2>2, NoUserTyped
  <2>5. \A q, s \in Persons : users'[q].id # 0 /\ users'[q].email = users'[s].email => q = s
    BY <1>2, <2>2, NoUserTyped
  <2>6. \A q \in Persons : IF users'[q].id = 0 THEN users'[q] = NoUser
                            ELSE users'[q].email # None
    BY <1>2, <2>2, NoUserTyped
  <2>7. organisation' = 0 => \A q \in Persons : users'[q] = NoUser
    BY <1>2, <1>3, <2>2
  <2> QED  BY <1>8, <2>3, <2>4, <2>5, <2>6, <2>7 DEF UsersSound
<1>12. \/ UNCHANGED users \/ UpdateUser(r) \/ CreateUser(r) \/ DropUser(r)
  BY DEF VisitNext, SignIn, AskClerk, RereadUser, Leave, Decide, StartRemoval,
     UnnameApprovals, DropPerson, VisitFails, FindUser
<1> QED  BY <1>9, <1>10, <1>11, <1>12

-----------------------------------------------------------------------------
(* Every step, and what follows.                                            *)

PeopleInv == PeopleTyped /\ VisitsFresh /\ UsersSound

Inv == cast \in Casts /\ TenantInv /\ PeopleInv

LEMMA InvStart == Init => Inv
<1> SUFFICES ASSUME Init PROVE Inv
  OBVIOUS
<1>1. TenantInv
  BY TenantStart
<1>2. PeopleTyped
  <2>1. \A p \in Persons : [there |-> TRUE, role |-> "org:member", email |-> FirstEmail[p]] \in Person
    BY TenancyAssumption DEF Person, ClerkRoles
  <2>2. 0 \in 0 .. MaxUsers
    BY TenancyAssumption
  <2> QED  BY <2>1, <2>2, NoUserTyped DEF Init, PeopleTyped
<1>3. VisitsFresh
  <2>1. \A r \in Requests : visit[r] = NoVisit /\ request[r].pc = "idle"
    BY NothingYet DEF Init, ProvisioningInit
  <2>2. UsersSynced
    BY DEF Init, UsersSynced
  <2>3. current = {}
    BY DEF Init
  <2> QED  BY <2>1, <2>2, <2>3, NoVisitYet DEF VisitsFresh
<1>4. UsersSound
  <2>1. \A p \in Persons : clerk[p].there /\ users[p] = NoUser
    BY DEF Init
  <2>2. \A r \in Requests : visit[r].pc = "idle"
    BY NoVisitYet DEF Init
  <2>3. \A k \in Approvals : approver[k] = 0
    BY DEF Init
  <2> QED  BY <2>1, <2>2, <2>3, NoUserTyped DEF UsersSound, IsLeaving
<1> QED  BY <1>1, <1>2, <1>3, <1>4 DEF Inv, PeopleInv, Init, TemplatesInit

LEMMA TemplateStepSound ==
    ASSUME Inv, TemplateStep, UNCHANGED cast
    PROVE  Inv'
<1>1. UNCHANGED provisioningVars /\ UNCHANGED peopleVars /\ TemplatesNext
  BY DEF TemplateStep
<1>2. UNCHANGED <<clerk, users, lastUser, approver, visit, current, late, request,
                  organisation, clerkOrganisation, revived>>
  BY <1>1 DEF provisioningVars, orgRow, ghosts, peopleVars
<1>3. TemplatesInv' /\ OrgInv'
  BY <1>1, TemplatesStep, OrgStays DEF Inv, TenantInv
<1>4. VisitsHeld' /\ DissolvedInv'
  BY <1>2 DEF Inv, TenantInv, VisitsHeld, VisitHeld, DissolvedInv, IsDissolving
<1>5. PeopleTyped'
  BY <1>2 DEF Inv, PeopleInv, PeopleTyped
<1>6. VisitsFresh'
  BY <1>2 DEF Inv, PeopleInv, VisitsFresh, UsersSynced
<1>7. UsersSound'
  BY <1>2 DEF Inv, PeopleInv, UsersSound, IsLeaving
<1> QED  BY <1>3, <1>4, <1>5, <1>6, <1>7 DEF Inv, TenantInv, PeopleInv

LEMMA ChangeAtClerkSound ==
    ASSUME Inv, ChangeAtClerk, UNCHANGED cast
    PROVE  Inv'
<1>1. UNCHANGED templateVars /\ UNCHANGED provisioningVars
      /\ UNCHANGED <<users, lastUser, approver, late>>
  BY DEF ChangeAtClerk
<1>2. UNCHANGED <<request, organisation, clerkOrganisation, revived>>
  BY <1>1 DEF provisioningVars, orgRow, ghosts
<1>3. TemplatesInv' /\ OrgInv' /\ DissolvedInv'
  BY <1>1, <1>2, TemplatesStep, OrgStays
  DEF Inv, TenantInv, DissolvedInv, IsDissolving
<1>4. PICK p \in Persons :
          /\ \/ \E role \in ClerkRoles : clerk' = [clerk EXCEPT ![p].role = role]
             \/ \E email \in Emails : clerk' = [clerk EXCEPT ![p].email = email]
          /\ visit' = [r \in Requests |->
                IF PersonOf[r] = p THEN [visit[r] EXCEPT !.fresh = FALSE] ELSE visit[r]]
          /\ current' = current \ {p}
  BY DEF ChangeAtClerk
<1>5. /\ clerk \in [Persons -> Person] /\ visit \in [Requests -> Visit]
      /\ \A r \in Requests : PersonOf[r] \in Persons /\ VisitHeld(visit[r], request[r])
  BY TenancyAssumption DEF Inv, TenantInv, PeopleInv, PeopleTyped, VisitsHeld
<1>6. /\ clerk' \in [Persons -> Person] /\ clerk'[p].there = clerk[p].there
      /\ \A q \in Persons \ {p} : clerk'[q] = clerk[q]
  <2>1. ASSUME NEW role \in ClerkRoles, clerk' = [clerk EXCEPT ![p].role = role]
        PROVE  clerk' \in [Persons -> Person] /\ clerk'[p].there = clerk[p].there
               /\ \A q \in Persons \ {p} : clerk'[q] = clerk[q]
    <3> DEFINE k == [clerk[p] EXCEPT !.role = role]
    <3>1. k \in Person /\ k.there = clerk[p].there
      BY <1>5 DEF Person
    <3>2. clerk' = [clerk EXCEPT ![p] = k]
      BY <2>1
    <3> HIDE DEF k
    <3> QED  BY <1>5, <3>1, <3>2
  <2>2. ASSUME NEW email \in Emails, clerk' = [clerk EXCEPT ![p].email = email]
        PROVE  clerk' \in [Persons -> Person] /\ clerk'[p].there = clerk[p].there
               /\ \A q \in Persons \ {p} : clerk'[q] = clerk[q]
    <3> DEFINE k == [clerk[p] EXCEPT !.email = email]
    <3>1. k \in Person /\ k.there = clerk[p].there
      BY <1>5 DEF Person
    <3>2. clerk' = [clerk EXCEPT ![p] = k]
      BY <2>2
    <3> HIDE DEF k
    <3> QED  BY <1>5, <3>1, <3>2
  <2> QED  BY <1>4, <2>1, <2>2
<1>7. \A r \in Requests :
          /\ visit'[r] \in Visit /\ visit'[r].pc = visit[r].pc
          /\ visit'[r].role = visit[r].role /\ visit'[r].email = visit[r].email
          /\ visit'[r].user = visit[r].user
          /\ IF PersonOf[r] = p THEN ~visit'[r].fresh ELSE visit'[r] = visit[r]
  <2> SUFFICES ASSUME NEW r \in Requests
               PROVE  /\ visit'[r] \in Visit /\ visit'[r].pc = visit[r].pc
                      /\ visit'[r].role = visit[r].role /\ visit'[r].email = visit[r].email
                      /\ visit'[r].user = visit[r].user
                      /\ IF PersonOf[r] = p THEN ~visit'[r].fresh ELSE visit'[r] = visit[r]
    OBVIOUS
  <2>1. visit[r] \in Visit
    BY <1>5
  <2>2. CASE PersonOf[r] = p
    <3> DEFINE k == [visit[r] EXCEPT !.fresh = FALSE]
    <3>1. /\ k \in Visit /\ k.pc = visit[r].pc /\ k.role = visit[r].role
          /\ k.email = visit[r].email /\ k.user = visit[r].user /\ ~k.fresh
      BY <2>1 DEF Visit
    <3>2. visit'[r] = k
      BY <1>4, <2>2
    <3> HIDE DEF k
    <3> QED  BY <2>2, <3>1, <3>2
  <2>3. CASE PersonOf[r] # p
    BY <1>4, <2>1, <2>3
  <2> QED  BY <2>2, <2>3
<1>8. VisitsHeld'
  <2>1. visit' \in [Requests -> Visit]
    BY <1>4, <1>7
  <2> QED  BY <1>2, <1>5, <1>7, <2>1 DEF VisitsHeld, VisitHeld
<1>9. PeopleTyped'
  BY <1>1, <1>4, <1>6 DEF Inv, PeopleInv, PeopleTyped
<1>10. VisitsFresh'
  <2>1. VisitsFresh /\ current \subseteq Persons
    BY DEF Inv, PeopleInv, PeopleTyped
  <2>2. UsersSynced'
    BY <1>1, <1>4, <1>6, <2>1 DEF VisitsFresh, UsersSynced
  <2>3. \A r \in Requests : PersonOf[r] # p =>
            visit'[r] = visit[r] /\ clerk'[PersonOf[r]] = clerk[PersonOf[r]]
    BY <1>5, <1>6, <1>7
  <2>4. \A r \in Requests :
            /\ visit'[r].pc # "idle" => visit'[r].email # None
            /\ visit'[r].fresh =>
                   /\ visit'[r].role = LocalRole(clerk'[PersonOf[r]].role)
                   /\ visit'[r].email # None => visit'[r].email = clerk'[PersonOf[r]].email
    BY <1>7, <2>1, <2>3 DEF VisitsFresh
  <2>5. \A r, s \in Requests :
            PersonOf[r] = PersonOf[s] /\ request'[r].pc # "idle" /\ request'[s].pc # "idle"
                => visit'[r].fresh = visit'[s].fresh
    <3> SUFFICES ASSUME NEW r \in Requests, NEW s \in Requests, PersonOf[r] = PersonOf[s],
                        request[r].pc # "idle", request[s].pc # "idle"
                 PROVE  visit'[r].fresh = visit'[s].fresh
      BY <1>2
    <3>1. visit'[r].fresh \in BOOLEAN /\ visit'[s].fresh \in BOOLEAN
      BY <1>7 DEF Visit
    <3>2. CASE PersonOf[r] = p
      BY <1>7, <3>1, <3>2
    <3>3. CASE PersonOf[r] # p
      BY <2>1, <2>3, <3>3 DEF VisitsFresh
    <3> QED  BY <3>2, <3>3
  <2>6. \A r \in Requests :
            PersonOf[r] \in current' /\ request'[r].pc # "idle" => visit'[r].fresh
    BY <1>2, <1>4, <2>1, <2>3 DEF VisitsFresh
  <2> QED  BY <2>2, <2>4, <2>5, <2>6 DEF VisitsFresh
<1>11. UsersSound'
  <2>1. UsersSound
    BY DEF Inv, PeopleInv
  <2>2. \A q \in Persons : IsLeaving(q)' => IsLeaving(q)
    BY <1>6, <1>7 DEF IsLeaving
  <2> QED  BY <1>1, <1>2, <1>7, <2>1, <2>2 DEF UsersSound
<1> QED  BY <1>3, <1>8, <1>9, <1>10, <1>11 DEF Inv, TenantInv, PeopleInv

LEMMA OrganisationStepSound ==
    ASSUME Inv, OrganisationStep, UNCHANGED cast
    PROVE  Inv'
<1>1. /\ ProvisioningNext /\ UNCHANGED templateVars
      /\ UNCHANGED <<clerk, lastUser, current, late>>
      /\ \A r \in Requests : visit[r].pc = "idle" \/ request'[r] = request[r]
      /\ users' = IF organisation' = organisation THEN users ELSE [p \in Persons |-> NoUser]
      /\ approver' = IF organisation' = organisation THEN approver ELSE [k \in Approvals |-> 0]
      /\ visit' = [r \in Requests |-> IF request'[r].pc = "idle" THEN NoVisit ELSE visit[r]]
  BY DEF OrganisationStep
<1>2. TemplatesInv' /\ OrgInv' /\ DissolvedInv'
  BY <1>1, TemplatesStep, ProvisioningStep, DissolvedStep DEF Inv, TenantInv
<1>3. \A r \in Requests : request[r].pc = "idle" => request'[r].pc = "idle"
  BY <1>1, StepsUnderWay DEF Inv, TenantInv
<1>4. /\ visit \in [Requests -> Visit]
      /\ \A r \in Requests : VisitHeld(visit[r], request[r])
  BY DEF Inv, TenantInv, VisitsHeld
<1>5. \A r \in Requests : \/ request'[r].pc = "idle" /\ visit'[r] = NoVisit
                          \/ request[r].pc # "idle" /\ visit'[r] = visit[r]
  BY <1>1, <1>3
<1>6. VisitsHeld'
  <2>1. visit' \in [Requests -> Visit]
    BY <1>1, <1>4, NoVisitYet
  <2>2. ASSUME NEW r \in Requests PROVE VisitHeld(visit'[r], request'[r])
    <3>1. CASE request'[r].pc = "idle"
      BY <1>1, <3>1, NoVisitYet DEF VisitHeld
    <3>2. CASE request'[r].pc # "idle"
      BY <1>1, <1>4, <3>2 DEF VisitHeld
    <3> QED  BY <3>1, <3>2
  <2> QED  BY <2>1, <2>2 DEF VisitsHeld
<1>7. PeopleTyped'
  <2>1. 0 \in 0 .. MaxUsers
    BY TenancyAssumption
  <2> QED  BY <1>1, <2>1, NoUserTyped DEF Inv, PeopleInv, PeopleTyped
<1>8. VisitsFresh'
  <2>1. VisitsFresh /\ current \subseteq Persons
    BY DEF Inv, PeopleInv, PeopleTyped
  <2>2. UsersSynced'
    BY <1>1, <2>1, NoUserTyped DEF VisitsFresh, UsersSynced
  <2> QED  BY <1>1, <1>5, <2>1, <2>2, NoVisitYet DEF VisitsFresh
<1>9. UsersSound'
  <2>1. UsersSound
    BY DEF Inv, PeopleInv
  <2>2. \A r \in Requests : visit'[r].pc \in {"update", "leave"} => visit'[r] = visit[r]
    BY <1>5, NoVisitYet
  <2>3. \A q \in Persons : IsLeaving(q)' => IsLeaving(q)
    BY <1>1, <2>2 DEF IsLeaving
  <2>4. CASE organisation' = organisation
    BY <1>1, <2>1, <2>2, <2>3, <2>4 DEF UsersSound
  <2>5. CASE organisation' # organisation
    <3>1. \A p \in Persons : users'[p] = NoUser
      BY <1>1, <2>5
    <3>2. \A k \in Approvals : approver'[k] = 0
      BY <1>1, <2>5
    <3> QED  BY <2>1, <2>2, <3>1, <3>2, NoUserTyped DEF UsersSound
  <2> QED  BY <2>4, <2>5
<1> QED  BY <1>2, <1>6, <1>7, <1>8, <1>9 DEF Inv, TenantInv, PeopleInv

LEMMA VisitStepSound ==
    ASSUME Inv, NEW r \in Requests, VisitNext(r), UNCHANGED cast
    PROVE  Inv'
<1>1. TemplatesInv /\ OrgInv /\ VisitsHeld /\ DissolvedInv /\ PeopleTyped
      /\ VisitsFresh /\ UsersSound
  BY DEF Inv, TenantInv, PeopleInv
<1>2. /\ request \in [Requests -> Request] /\ visit \in [Requests -> Visit]
      /\ \A s \in Requests : VisitHeld(visit[s], request[s])
  BY <1>1 DEF OrgInv, LocalSound, VisitsHeld
<1>3. visit' \in [Requests -> Visit]
  BY <1>1, VisitTyped
<1>4. PeopleTyped' /\ VisitsFresh' /\ UsersSound'
  BY <1>1, <1>2, PeopleTypedVisit, FreshVisit, UsersSoundVisit
<1>5. CASE SignIn(r)
  <2>1. StartRequest(r) /\ UNCHANGED templateVars
    BY <1>5 DEF SignIn
  <2>2. PICK k \in Visit : visit' = [visit EXCEPT ![r] = k] /\ k.pc = "idle"
    BY <1>1, <1>5, SignInGoes
  <2>3. /\ visit'[r].pc = "idle" /\ \A s \in Requests \ {r} : visit'[s] = visit[s]
    BY <1>2, <2>2
  <2>4. /\ request'[r].pc = "lookup" /\ \A s \in Requests \ {r} : request'[s] = request[s]
    <3> DEFINE j == [NoRequest EXCEPT !.pc = "lookup"]
    <3>1. j.pc = "lookup"
      BY DEF NoRequest
    <3>2. request' = [request EXCEPT ![r] = j]
      BY <2>1 DEF StartRequest, To
    <3> HIDE DEF j
    <3> QED  BY <1>2, <3>1, <3>2
  <2>5. VisitsHeld'
    BY <1>2, <1>3, <2>3, <2>4 DEF VisitsHeld, VisitHeld
  <2>6. UNCHANGED <<organisation, clerkOrganisation, revived>>
    BY <2>1 DEF StartRequest, orgRow, ghosts
  <2>7. DissolvedInv'
    BY <1>1, <2>4, <2>6 DEF DissolvedInv, IsDissolving
  <2>8. OrgInv' /\ TemplatesInv'
    BY <1>1, <2>1, StartRequestSound, TemplatesStep
  <2> QED  BY <1>4, <2>5, <2>7, <2>8 DEF Inv, TenantInv, PeopleInv
<1>6. CASE Over(r)
  <2>1. /\ visit' = [visit EXCEPT ![r] = NoVisit] /\ request' = [request EXCEPT ![r] = NoRequest]
        /\ UNCHANGED templateVars /\ UNCHANGED <<orgRow, ownRows, grant, ghosts>>
    BY <1>6 DEF Over, Goes
  <2>2. UNCHANGED <<organisation, lastOrganisation, clerkOrganisation, documents, revived>>
    BY <2>1 DEF orgRow, ghosts
  <2>3. request[r].pc = "resolved"
    <3>1. CASE SignIn(r)
      <4>1. request[r].pc = "idle" /\ request'[r].pc = "lookup"
        <5> DEFINE j == [NoRequest EXCEPT !.pc = "lookup"]
        <5>1. j.pc = "lookup"
          BY DEF NoRequest
        <5>2. request' = [request EXCEPT ![r] = j] /\ request[r].pc = "idle"
          BY <3>1 DEF SignIn, StartRequest, To
        <5> HIDE DEF j
        <5> QED  BY <1>2, <5>1, <5>2
      <4>2. request'[r].pc = "idle"
        BY <1>2, <2>1, NothingYet
      <4> QED  BY <4>1, <4>2
    <3>2. CASE ~SignIn(r)
      BY <1>1, <3>2, VisitTurns
    <3> QED  BY <3>1, <3>2
  <2>4. OrgInv'
    BY <1>1, <2>1, <2>2, <2>3, EndsSound
  <2>5. /\ visit'[r] = NoVisit /\ request'[r] = NoRequest
        /\ \A s \in Requests \ {r} : visit'[s] = visit[s] /\ request'[s] = request[s]
    BY <1>2, <2>1
  <2>6. VisitsHeld'
    BY <1>2, <1>3, <2>5, NoVisitYet, NothingYet DEF VisitsHeld, VisitHeld
  <2>7. DissolvedInv'
    BY <1>1, <2>2, <2>5, NothingYet DEF DissolvedInv, IsDissolving
  <2>8. TemplatesInv'
    BY <1>1, <2>1, TemplatesStep
  <2> QED  BY <1>4, <2>4, <2>6, <2>7, <2>8 DEF Inv, TenantInv, PeopleInv
<1>7. CASE ~SignIn(r) /\ ~Over(r)
  <2>1. PICK k : Turns(r, k)
    BY <1>1, <1>7, VisitTurns
  <2>2. request[r].pc = "resolved"
    BY <1>1, <1>7, VisitTurns
  <2>3. /\ visit' = [visit EXCEPT ![r] = k] /\ UNCHANGED request /\ UNCHANGED templateVars
        /\ UNCHANGED <<orgRow, ownRows, grant, ghosts>>
    BY <2>1 DEF Turns, Goes
  <2>4. \A s \in Requests \ {r} : visit'[s] = visit[s]
    BY <1>2, <2>3
  <2>5. VisitsHeld'
    BY <1>2, <1>3, <2>2, <2>3, <2>4 DEF VisitsHeld, VisitHeld
  <2>6. OrgInv' /\ TemplatesInv'
    BY <1>1, <2>3, OrgStays, TemplatesStep DEF provisioningVars
  <2>7. DissolvedInv'
    BY <1>1, <2>3 DEF DissolvedInv, IsDissolving, orgRow, ghosts
  <2> QED  BY <1>4, <2>5, <2>6, <2>7 DEF Inv, TenantInv, PeopleInv
<1> QED  BY <1>5, <1>6, <1>7

LEMMA StutterSound == Inv /\ UNCHANGED vars => Inv'
<1> SUFFICES ASSUME Inv, UNCHANGED vars PROVE Inv'
  OBVIOUS
<1>1. UNCHANGED cast /\ UNCHANGED templateVars /\ UNCHANGED provisioningVars
      /\ UNCHANGED peopleVars
  BY DEF vars
<1>2. UNCHANGED <<clerk, users, lastUser, approver, visit, current, late, request,
                  organisation, clerkOrganisation, revived>>
  BY <1>1 DEF provisioningVars, orgRow, ghosts, peopleVars
<1>3. TemplatesInv' /\ OrgInv'
  BY <1>1, TemplatesStep, OrgStays DEF Inv, TenantInv
<1>4. VisitsHeld' /\ DissolvedInv'
  BY <1>2 DEF Inv, TenantInv, VisitsHeld, VisitHeld, DissolvedInv, IsDissolving
<1>5. PeopleTyped'
  BY <1>2 DEF Inv, PeopleInv, PeopleTyped
<1>6. VisitsFresh'
  BY <1>2 DEF Inv, PeopleInv, VisitsFresh, UsersSynced
<1>7. UsersSound'
  BY <1>2 DEF Inv, PeopleInv, UsersSound, IsLeaving
<1> QED  BY <1>1, <1>3, <1>4, <1>5, <1>6, <1>7 DEF Inv, TenantInv, PeopleInv

LEMMA InvStep == Inv /\ [Next]_vars => Inv'
  BY TemplateStepSound, ChangeAtClerkSound, OrganisationStepSound, VisitStepSound,
     StutterSound DEF Next

LEMMA InvAlways == Spec => []Inv
  BY InvStart, InvStep, PTL DEF Spec

LEMMA TypeByInv == Inv => TypeOK
<1> SUFFICES ASSUME Inv PROVE TypeOK
  OBVIOUS
<1>1. RowsTyped /\ ReadersSound
  BY DEF Inv, TenantInv, TemplatesInv
<1>2. OwnTyped /\ LocalSound
  BY DEF Inv, TenantInv, OrgInv
<1>3. PeopleTyped /\ UsersSound /\ VisitsHeld
  BY DEF Inv, TenantInv, PeopleInv
<1>4. cast \in Casts
  BY DEF Inv
<1> QED  BY <1>1, <1>2, <1>3, <1>4
  DEF TypeOK, RowsTyped, ReadersSound, OwnTyped, LocalSound, PeopleTyped, UsersSound, VisitsHeld, Hands

\* The built-in templates are there once each, whatever readings of the list
\* overlap (seedTemplates), unless two looked for one of them at once.
THEOREM BuiltInsAlwaysSeeded == Spec => []BuiltInsSeeded
<1>1. Inv => BuiltInsSeeded
  BY SeededByInv DEF Inv, TenantInv
<1> QED  BY <1>1, InvAlways, PTL

\* What provisionEmailWorkflow made is all there, and each agent has the tools
\* that setToolsForAgent was given last, however requests, edits, failures and
\* the deletion of the organisation interleave.
THEOREM RowsAlwaysWhole == Spec => []RowsWhole
<1>1. Inv => RowsWhole
  BY CompleteByInv, GrantsWholeByInv DEF Inv, TenantInv, OrgInv, RowsWhole
<1> QED  BY <1>1, InvAlways, PTL

\* deleteOrganisation and deleteMyAccount leave no row behind that nobody could
\* reach, whatever fails between their steps.
THEOREM NothingEverLeft == Spec => []NothingLeft
<1>1. Inv => NothingLeft
  <2>1. Inv => NoOrphanRows
    BY DEF Inv, TenantInv, DissolvedInv, IsDissolving, NoOrphanRows
  <2>2. Inv => NoOrphanUsers
    BY DEF Inv, PeopleInv, UsersSound, IsLeaving, NoOrphanUsers
  <2> QED  BY <2>1, <2>2 DEF NothingLeft
<1> QED  BY <1>1, InvAlways, PTL

\* getCurrentUser keeps each person's row in step with Clerk, also when the
\* requests of one person overlap.
THEOREM PeopleAlwaysSynced == Spec => []PeopleSynced
<1>1. Inv => PeopleSynced
  BY TypeByInv DEF Inv, PeopleInv, VisitsFresh, PeopleSynced
<1> QED  BY <1>1, InvAlways, PTL
=============================================================================
