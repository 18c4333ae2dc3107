------------------------ MODULE ModelSelectionProofs ------------------------
(***************************************************************************)
(* Proofs about the choice of a model and an effort, for any catalogue,    *)
(* any number of interactions, repeats and restarts.  How the pages of a   *)
(* listing are followed comes first.                                       *)
(***************************************************************************)
EXTENDS ModelSelection, WellFoundedInduction, TLAPS

-----------------------------------------------------------------------------
(***************************************************************************)
(* The invariant.                                                          *)
(***************************************************************************)

Op == [kind : {"Model", "Effort"}, value : Models \cup Efforts,
       state : {"APPLIED", "SUPERSEDED"}, entry : Entry, read : Listings,
       found : Models]
Task == [at : {"Idle", "Lists", "Stores", "Done"},
         against : Models \cup {None},
         entry : Entry \cup {None}, read : Listings \cup {None},
         told : {"None", "Changed", "Superseded", "Failed"}]
Selected == [model : Models \cup {None}, effort : Efforts \cup {None},
             modelBy : 0 .. LastInteraction, effortBy : 0 .. LastInteraction]

\* A conversation has a pair from its first interaction on.
SelectionShape ==
    /\ asked \in [Interactions -> Models \cup Efforts]
    /\ row \in Selected
    /\ ops \in [Interactions -> {NoOp} \cup Op]
    /\ task \in [Interactions -> Task]
    /\ sent \in {<<>>} \cup (Models \X Efforts)
    /\ repeats \in 0 .. MaxRepeats /\ crashes \in 0 .. MaxCrashes
    /\ \A i \in Interactions :
          ops[i] # NoOp => ops[i].kind = Kind(i) /\ ops[i].value = asked[i]
    /\ \/ row = NoRow
       \/ row.model \in Models /\ row.effort \in Efforts

\* A task that is to store its choice has found it in a catalogue: the model
\* it asks for, or the effort with the model that was selected then, which is
\* not always the one selected by now.
ValidatedBeforeStored ==
    \A i \in Interactions :
        /\ task[i].at \in {"Lists", "Stores"} =>
              /\ task[i].against \in Models /\ row # NoRow
              /\ Kind(i) = "Model" => task[i].against = asked[i]
        /\ task[i].at = "Stores" => /\ task[i].read \in Listings
                                    /\ task[i].entry \in Offered(i, task[i].read)

\* The interactions that last set the model and the effort have their rows.
ChoicesRecorded ==
    \A i \in {row.modelBy, row.effortBy} \ {0} :
        i \in Interactions /\ ops[i] # NoOp

NewestInForce ==
    /\ \A i \in Interactions :
          /\ ops[i].kind = "Model" => i <= row.modelBy
          /\ ops[i].kind = "Effort" => i <= row.effortBy
    /\ row.modelBy > 0 => row.model = asked[row.modelBy]
    /\ row.effortBy > 0 =>
          \/ row.effort = asked[row.effortBy]
          \/ \E i \in Interactions : /\ ops[i].kind = "Model"
                                     /\ ops[i].state = "APPLIED"
                                     /\ row.effort = ops[i].entry.default

SelectionInv ==
    /\ SelectionShape /\ ValidatedBeforeStored /\ ChoicesRecorded
    /\ NewestInForce /\ UnofferedOnlyIfStale

-----------------------------------------------------------------------------
(***************************************************************************)
(* What a listing gives.  The pages are read by a recursive function; it   *)
(* exists for every limit, and what it has read so far are the pages of a  *)
(* chain of cursors.                                                       *)
(***************************************************************************)

PagesOffered == [Cursors \cup {None} -> [data : Entry, next : Cursors \cup {None}]]

FirstPage(p) == [got |-> <<p[None].data>>, cursor |-> p[None].next,
                 seen |-> {}, failed |-> FALSE]

NextPage(last, p) ==
    IF last.failed \/ last.cursor = None THEN last
    ELSE IF last.cursor \in last.seen THEN [last EXCEPT !.failed = TRUE]
    ELSE [got |-> Append(last.got, p[last.cursor].data),
          cursor |-> p[last.cursor].next,
          seen |-> last.seen \cup {last.cursor},
          failed |-> FALSE]

\* f reads the first k pages.
Reads(f, p, k) ==
    f = [n \in 1 .. k |-> IF n = 1 THEN FirstPage(p) ELSE NextPage(f[n - 1], p)]

LEMMA ListingReads ==
    ASSUME NEW p
    PROVE  LET f == CHOOSE g : Reads(g, p, MaxPages)
               end == f[MaxPages]
           IN  Listing(p) = [ok |-> ~end.failed /\ end.cursor = None, models |-> end.got]
  BY DEF Listing, Reads, FirstPage, NextPage

LEMMA SmallestNumber ==
    ASSUME NEW Bad \in SUBSET Nat, Bad # {}
    PROVE  \E n \in Bad : \A k \in Bad : n <= k
  <1>1. PICK n \in Bad : \A k \in Bad : ~ (<<k, n>> \in OpToRel(<, Nat))
    BY NatLessThanWellFounded, WFMin
  <1>2. \A k \in Bad : ~ (k < n)
    BY <1>1 DEF OpToRel
  <1> QED
    BY <1>2

\* The limit is no obstacle: a reading of k pages goes on to the next.
LEMMA ReadsExists ==
    ASSUME NEW p, NEW k \in Nat \ {0}
    PROVE  \E f : Reads(f, p, k)
  <1> DEFINE Bad == {n \in Nat \ {0} : ~ \E f : Reads(f, p, n)}
  <1>1. ASSUME Bad # {}
        PROVE  FALSE
    <2>1. PICK n \in Bad : \A j \in Bad : n <= j
      BY <1>1, SmallestNumber
    <2>2. n # 1
      <3>1. Reads([j \in 1 .. 1 |-> FirstPage(p)], p, 1)
        BY DEF Reads
      <3> QED
        BY <3>1
    <2>3. n \in Nat /\ n - 1 \in Nat \ {0} /\ n - 1 < n
      BY <2>2
    <2>4. n - 1 \notin Bad
      BY <2>1, <2>3
    <2>5. PICK f : Reads(f, p, n - 1)
      BY <2>3, <2>4
    <2> DEFINE g == [j \in 1 .. n |-> IF j < n THEN f[j] ELSE NextPage(f[n - 1], p)]
    <2>6. ASSUME NEW j \in 1 .. n
          PROVE  g[j] = IF j = 1 THEN FirstPage(p) ELSE NextPage(g[j - 1], p)
      <3>1. CASE j = 1
        <4>1. g[j] = f[1] /\ 1 \in 1 .. n - 1
          BY <2>2, <2>3, <3>1
        <4>2. f[1] = FirstPage(p)
          BY <2>5, <4>1 DEF Reads
        <4> QED
          BY <3>1, <4>1, <4>2
      <3>2. CASE j # 1 /\ j < n
        <4>1. j \in 1 .. n - 1 /\ j - 1 \in 1 .. n /\ j - 1 < n
          BY <2>3, <2>6, <3>2
        <4>2. f[j] = NextPage(f[j - 1], p)
          BY <2>5, <3>2, <4>1 DEF Reads
        <4>3. g[j] = f[j] /\ g[j - 1] = f[j - 1]
          BY <2>6, <3>2, <4>1
        <4> QED
          BY <3>2, <4>2, <4>3
      <3>3. CASE j = n
        <4>1. n - 1 \in 1 .. n /\ n - 1 < n
          BY <2>3
        <4>2. g[j] = NextPage(f[n - 1], p) /\ g[n - 1] = f[n - 1]
          BY <2>6, <3>3, <4>1
        <4> QED
          BY <2>2, <3>3, <4>2
      <3> QED
        BY <2>3, <2>6, <3>1, <3>2, <3>3
    <2>7. g = [j \in 1 .. n |-> g[j]]
      OBVIOUS
    <2> HIDE DEF g
    <2>8. Reads(g, p, n)
      BY <2>6, <2>7 DEF Reads
    <2> QED
      BY <2>8
  <1> QED
    BY <1>1

\* A reading that has not failed has followed a chain of k cursors, each named
\* by the page before, and none twice.
Follows(w, p, k, s) ==
    /\ s \in [1 .. k -> Cursors \cup {None}]
    /\ s[1] = None /\ Distinct(s)
    /\ w.got \in Seq(Entry) /\ Len(w.got) = k
    /\ \A i \in 1 .. k : w.got[i] = p[s[i]].data
    /\ \A i \in 1 .. k : i < k => p[s[i]].next = s[i + 1]
    /\ w.cursor = p[s[k]].next
    /\ w.seen = {s[i] : i \in 2 .. k}

Followed(w, p, n) == w.failed \/ \E k \in 1 .. n : \E s : Follows(w, p, k, s)

LEMMA FirstFollowed ==
    ASSUME NEW p \in PagesOffered
    PROVE  Followed(FirstPage(p), p, 1)
  <1> DEFINE s == [i \in 1 .. 1 |-> None]
  <1>1. p[None].data \in Entry
    BY DEF PagesOffered
  <1>2. Follows(FirstPage(p), p, 1, s)
    BY <1>1 DEF Follows, FirstPage, Distinct
  <1> QED
    BY <1>2 DEF Followed

LEMMA NextFollowed ==
    ASSUME NEW p \in PagesOffered, NEW w, NEW n \in Nat \ {0}, Followed(w, p, n)
    PROVE  Followed(NextPage(w, p), p, n + 1)
  <1>1. CASE w.failed \/ w.cursor = None
    BY <1>1 DEF Followed, NextPage
  <1>2. CASE ~w.failed /\ w.cursor # None /\ w.cursor \in w.seen
    BY <1>2 DEF Followed, NextPage
  <1>3. CASE ~w.failed /\ w.cursor # None /\ w.cursor \notin w.seen
    <2>1. PICK k \in 1 .. n : \E s : Follows(w, p, k, s)
      BY <1>3 DEF Followed
    <2>2. PICK s : Follows(w, p, k, s)
      BY <2>1
    <2> DEFINE c == w.cursor
               v == NextPage(w, p)
               t == [i \in 1 .. k + 1 |-> IF i <= k THEN s[i] ELSE c]
    <2>3. k \in Nat /\ 1 <= k /\ k + 1 \in 1 .. n + 1
      BY <2>1
    <2>4. c \in Cursors \cup {None} /\ p[c].data \in Entry
      BY <2>2, <2>3 DEF Follows, PagesOffered
    <2>5. /\ v.got = Append(w.got, p[c].data) /\ v.cursor = p[c].next
          /\ v.seen = w.seen \cup {c} /\ v.failed = FALSE
      BY <1>3 DEF NextPage
    <2>6. \A i \in 1 .. k : s[i] # c
      BY <1>3, <2>2, <2>3 DEF Follows
    <2>7. t \in [1 .. k + 1 -> Cursors \cup {None}] /\ t[1] = None
      BY <2>2, <2>3, <2>4 DEF Follows
    <2>8. \A i \in 1 .. k : t[i] = s[i] /\ i \in 1 .. k + 1
      BY <2>3
    <2>9. t[k + 1] = c
      BY <2>3
    <2>10. DOMAIN t = 1 .. k + 1 /\ DOMAIN s = 1 .. k
      BY <2>2 DEF Follows
    <2>11. \A i \in 1 .. k + 1 : i \in 1 .. k \/ i = k + 1
      BY <2>3
    <2> HIDE DEF t, v, c
    <2>12. Distinct(t)
      BY <2>2, <2>6, <2>8, <2>9, <2>10, <2>11 DEF Distinct, Follows
    <2>13. /\ v.got \in Seq(Entry) /\ Len(v.got) = k + 1
           /\ v.got[k + 1] = p[c].data
           /\ \A i \in 1 .. k : v.got[i] = w.got[i]
      BY <2>2, <2>3, <2>4, <2>5 DEF Follows
    <2>14. \A i \in 1 .. k + 1 : v.got[i] = p[t[i]].data
      BY <2>2, <2>8, <2>9, <2>11, <2>13 DEF Follows
    <2>15. \A i \in 1 .. k + 1 : i < k + 1 => p[t[i]].next = t[i + 1]
      <3> SUFFICES ASSUME NEW i \in 1 .. k
                   PROVE  p[t[i]].next = t[i + 1]
        BY <2>3
      <3>1. CASE i = k
        BY <2>2, <2>3, <2>8, <2>9, <3>1 DEF Follows, c
      <3>2. CASE i < k
        <4>1. i + 1 \in 1 .. k
          BY <2>3, <3>2
        <4> QED
          BY <2>2, <2>8, <3>2, <4>1 DEF Follows
      <3> QED
        BY <2>3, <3>1, <3>2
    <2>16. v.cursor = p[t[k + 1]].next
      BY <2>5, <2>9
    <2>17. v.seen = {t[i] : i \in 2 .. k + 1}
      <3>1. \A i \in 2 .. k : t[i] = s[i]
        BY <2>8
      <3>2. \A i \in 2 .. k + 1 : i \in 2 .. k \/ i = k + 1
        BY <2>3
      <3>3. k + 1 \in 2 .. k + 1 /\ \A i \in 2 .. k : i \in 2 .. k + 1
        BY <2>3
      <3>4. w.seen = {s[i] : i \in 2 .. k}
        BY <2>2 DEF Follows
      <3> QED
        BY <2>5, <2>9, <3>1, <3>2, <3>3, <3>4
    <2>18. Follows(v, p, k + 1, t)
      BY <2>7, <2>12, <2>13, <2>14, <2>15, <2>16, <2>17 DEF Follows
    <2> QED
      BY <2>3, <2>18 DEF Followed, v
  <1> QED
    BY <1>1, <1>2, <1>3

LEMMA ReadsFollowed ==
    ASSUME NEW p \in PagesOffered, NEW l \in Nat, NEW f, Reads(f, p, l),
           NEW n \in 1 .. l
    PROVE  Followed(f[n], p, n)
  <1> DEFINE Bad == {j \in 1 .. l : ~ Followed(f[j], p, j)}
  <1>1. ASSUME Bad # {}
        PROVE  FALSE
    <2>0. Bad \in SUBSET Nat
      OBVIOUS
    <2>1. PICK j \in Bad : \A i \in Bad : j <= i
      <3> HIDE DEF Bad
      <3> QED
        BY <1>1, <2>0, SmallestNumber
    <2>2. f[j] = IF j = 1 THEN FirstPage(p) ELSE NextPage(f[j - 1], p)
      BY DEF Reads
    <2>3. j # 1
      BY <2>2, FirstFollowed
    <2>4. j - 1 \in 1 .. l /\ j - 1 < j /\ j - 1 \in Nat \ {0} /\ (j - 1) + 1 = j
      BY <2>3
    <2>5. Followed(f[j - 1], p, j - 1)
      BY <2>1, <2>4
    <2>6. Followed(NextPage(f[j - 1], p), p, (j - 1) + 1)
      BY <2>4, <2>5, NextFollowed
    <2> QED
      BY <2>2, <2>3, <2>4, <2>6
  <1> QED
    BY <1>1

\* A catalogue has only what is on the pages of a complete chain, and every
\* model in it supports its own default.
LEMMA CatalogueComplete ==
    ASSUME NEW p \in Listings, NEW m \in Catalogue(p)
    PROVE  /\ m \in Entry /\ m.default \in m.efforts
           /\ \E s \in Chains : /\ Complete(p, s)
                                /\ \E k \in DOMAIN s : p[s[k]].data = m
  <1> DEFINE f == CHOOSE g : Reads(g, p, MaxPages)
             end == f[MaxPages]
  <1>0. p \in PagesOffered
    BY ListingsAssumption DEF PagesOffered
  <1>1. MaxPages \in Nat \ {0} /\ MaxPages \in 1 .. MaxPages
    BY NumbersAssumption
  <1>2. Reads(f, p, MaxPages)
    BY <1>1, ReadsExists
  <1>3. Listing(p) = [ok |-> ~end.failed /\ end.cursor = None, models |-> end.got]
    BY ListingReads
  <1> HIDE DEF f
  <1>4. Followed(end, p, MaxPages)
    BY <1>0, <1>1, <1>2, ReadsFollowed
  <1> HIDE DEF end
  <1>5. /\ ~end.failed /\ end.cursor = None /\ Sound(end.got)
        /\ m \in {end.got[i] : i \in DOMAIN end.got}
    <2>1. /\ Listing(p).ok /\ Sound(Listing(p).models)
          /\ m \in {Listing(p).models[i] : i \in DOMAIN Listing(p).models}
      BY DEF Catalogue
    <2>2. Listing(p).ok = (~end.failed /\ end.cursor = None)
      BY <1>3
    <2>3. Listing(p).models = end.got
      BY <1>3
    <2> QED
      BY <2>1, <2>2, <2>3
  <1>6. PICK k \in 1 .. MaxPages : \E s : Follows(end, p, k, s)
    BY <1>4, <1>5 DEF Followed
  <1>7. PICK s : Follows(end, p, k, s)
    BY <1>6
  <1>8. DOMAIN s = 1 .. k /\ DOMAIN end.got = 1 .. k /\ k \in Nat
    BY <1>1, <1>7 DEF Follows
  <1>9. s \in Chains
    <2>1. s \in UNION {[1 .. n -> Cursors \cup {None}] : n \in 1 .. MaxPages}
      BY <1>7 DEF Follows
    <2> QED
      BY <1>7, <2>1 DEF Chains, Follows
  <1>10. Complete(p, s)
    <2>1. s \in Seq(Cursors \cup {None}) /\ Len(s) = k
      BY <1>7, <1>8 DEF Follows
    <2>2. ASSUME NEW i \in DOMAIN s
          PROVE  p[s[i]].next = IF i = Len(s) THEN None ELSE s[i + 1]
      BY <1>5, <1>7, <1>8, <2>1, <2>2 DEF Follows
    <2>3. Distinct([i \in DOMAIN s |-> p[s[i]].data.model])
      BY <1>5, <1>7, <1>8 DEF Follows, Distinct, Sound
    <2> QED
      BY <2>2, <2>3 DEF Complete
  <1>11. \E i \in DOMAIN s : p[s[i]].data = m
    BY <1>5, <1>7, <1>8 DEF Follows
  <1>12. m \in Entry /\ m.default \in m.efforts
    BY <1>5, <1>7, <1>8 DEF Follows, Sound
  <1> QED
    BY <1>9, <1>10, <1>11, <1>12

-----------------------------------------------------------------------------
(***************************************************************************)
(* What each step does to the row and to the tasks.                        *)
(***************************************************************************)

LEMMA NoOpApart == \A o \in Op : o # NoOp /\ o.kind # "None"
  BY DEF Op, NoOp

\* The task of an interaction, as it moves on.
LEMMA TaskForms ==
    /\ \A told \in {"None", "Changed", "Superseded", "Failed"} :
          Ended(told) \in Task /\ Ended(told).at = "Done"
    /\ Idle \in Task /\ Idle.at = "Idle"
    /\ \A m \in Models :
          /\ Handler("Lists", m, None, None) \in Task
          /\ Handler("Lists", m, None, None).at = "Lists"
          /\ Handler("Lists", m, None, None).against = m
    /\ \A m \in Models \cup {None}, e \in Entry, p \in Listings :
          /\ Handler("Stores", m, e, p) \in Task
          /\ Handler("Stores", m, e, p).at = "Stores"
          /\ Handler("Stores", m, e, p).against = m
          /\ Handler("Stores", m, e, p).entry = e
          /\ Handler("Stores", m, e, p).read = p
  BY DEF Ended, Idle, Handler, Task

LEMMA RowType ==
    ASSUME SelectionShape, NEW d \in Defaults
    PROVE  /\ Row(d) \in Selected /\ Row(d) # NoRow
           /\ Row(d).model \in Models /\ Row(d).effort \in Efforts
           /\ Row(d).modelBy = row.modelBy /\ Row(d).effortBy = row.effortBy
           /\ row # NoRow => Row(d) = row
           /\ row = NoRow => row.modelBy = 0 /\ row.effortBy = 0
  <1>1. /\ row \in Selected
        /\ d.model \in Models /\ d.effort \in Efforts
        /\ None \notin Models /\ None \notin Efforts
    BY DefaultsAssumption, NumbersAssumption DEF SelectionShape
  <1>2. CASE row = NoRow
    <2>1. Row(d) = [model |-> d.model, effort |-> d.effort,
                    modelBy |-> 0, effortBy |-> 0]
      BY <1>2 DEF Row, NoRow
    <2> QED
      BY <1>1, <1>2, <2>1, NumbersAssumption DEF NoRow, Selected
  <1>3. CASE row # NoRow
    <2>1. row.model \in Models /\ row.effort \in Efforts
      BY <1>3 DEF SelectionShape
    <2>2. Row(d) = row
      BY <1>1, <2>1 DEF Row
    <2> QED
      BY <1>1, <1>3, <2>1, <2>2
  <1> QED
    BY <1>2, <1>3

\* What a validation has found.
LEMMA OfferedEntry ==
    ASSUME NEW i \in Interactions, NEW p \in Listings, NEW e \in Offered(i, p)
    PROVE  /\ e \in Entry /\ e.default \in e.efforts /\ e.model = task[i].against
           /\ e \in Catalogue(p)
           /\ Kind(i) = "Effort" => asked[i] \in e.efforts
  BY CatalogueComplete DEF Offered

\* A validation finds an entry or fails; other tasks are not touched.
LEMMA Found ==
    ASSUME task \in [Interactions -> Task], NEW i \in Interactions, Validates(i)
    PROVE  /\ task' \in [Interactions -> Task] /\ task[i].at = "Lists"
           /\ \/ task'[i].at \notin {"Lists", "Stores"}
              \/ /\ task'[i].against = task[i].against
                 /\ task'[i].read \in Listings
                 /\ task'[i].entry \in Offered(i, task'[i].read)
  <1>1. CASE task' = [task EXCEPT ![i] = Ended("Failed")]
    BY <1>1, TaskForms DEF Validates
  <1>2. ASSUME NEW p \in Listings, NEW e \in Offered(i, p),
               task' = [task EXCEPT ![i] = Handler("Stores", task[i].against, e, p)]
        PROVE  /\ task' \in [Interactions -> Task]
               /\ task'[i].against = task[i].against
               /\ task'[i].read = p /\ task'[i].entry = e
    <2>1. e \in Entry
      BY OfferedEntry
    <2>2. PICK m \in Models \cup {None} : m = task[i].against
      BY DEF Task
    <2>3. PICK u \in Task : /\ u = Handler("Stores", m, e, p)
                            /\ u.against = m /\ u.entry = e /\ u.read = p
      BY <2>1, TaskForms
    <2> QED
      BY <1>2, <2>2, <2>3
  <1> QED
    BY <1>1, <1>2 DEF Validates

\* Where a choice is stored: its row is new, its outcome is the order of the
\* ids, and what it found is the pair in force.
Stores(i, applied) ==
    /\ task[i].at = "Stores" /\ ops[i] = NoOp
    /\ Recorded(i, applied) /\ Tells(i, applied)

LEMMA StoresEffect ==
    ASSUME SelectionShape, ValidatedBeforeStored, NEW i \in Interactions,
           NEW applied \in BOOLEAN, Stores(i, applied)
    PROVE  /\ ops' \in [Interactions -> {NoOp} \cup Op]
           /\ ops'[i] = [kind |-> Kind(i), value |-> asked[i],
                         state |-> IF applied THEN "APPLIED" ELSE "SUPERSEDED",
                         entry |-> task[i].entry, read |-> task[i].read,
                         found |-> row.model]
           /\ ops'[i] # NoOp
           /\ \A j \in Interactions \ {i} : ops'[j] = ops[j]
           /\ \A j \in Interactions : ops[j] # NoOp => ops'[j] = ops[j]
           /\ task' \in [Interactions -> Task]
           /\ task'[i].at = "Done"
           /\ \A j \in Interactions \ {i} : task'[j] = task[j]
           /\ row # NoRow /\ row.model \in Models /\ row.effort \in Efforts
           /\ task[i].entry \in Entry
           /\ task[i].entry.default \in task[i].entry.efforts
           /\ Kind(i) = "Model" => task[i].entry.model = asked[i]
           /\ Kind(i) = "Effort" => asked[i] \in task[i].entry.efforts
  <1> DEFINE new == [kind |-> Kind(i), value |-> asked[i],
                     state |-> IF applied THEN "APPLIED" ELSE "SUPERSEDED",
                     entry |-> task[i].entry, read |-> task[i].read,
                         found |-> row.model]
  <1>1. row # NoRow /\ row.model \in Models /\ row.effort \in Efforts
    BY DEF Stores, SelectionShape, ValidatedBeforeStored
  <1>8. task[i].read \in Listings /\ task[i].entry \in Offered(i, task[i].read)
    BY DEF Stores, ValidatedBeforeStored
  <1>9. /\ task[i].entry \in Entry
        /\ task[i].entry.default \in task[i].entry.efforts
        /\ Kind(i) = "Model" => task[i].entry.model = asked[i]
        /\ Kind(i) = "Effort" => asked[i] \in task[i].entry.efforts
    <2>1. PICK p \in Listings : p = task[i].read
      BY <1>8
    <2>2. PICK e \in Offered(i, p) : e = task[i].entry
      BY <1>8, <2>1
    <2>3. Kind(i) = "Model" => task[i].against = asked[i]
      BY DEF Stores, ValidatedBeforeStored
    <2> QED
      BY <2>1, <2>2, <2>3, OfferedEntry
  <1>2. new \in Op
    BY <1>1, <1>8, <1>9 DEF Stores, SelectionShape, Op, Kind
  <1>3. ops' = [ops EXCEPT ![i] = new]
    BY DEF Stores, Recorded
  <1>4. /\ ops \in [Interactions -> {NoOp} \cup Op]
        /\ task \in [Interactions -> Task]
    BY DEF SelectionShape
  <1>5. /\ task' \in [Interactions -> Task] /\ task'[i].at = "Done"
        /\ \A j \in Interactions \ {i} : task'[j] = task[j]
    BY <1>4, TaskForms DEF Stores, Tells
  <1>6. /\ ops' \in [Interactions -> {NoOp} \cup Op] /\ ops'[i] = new
        /\ \A j \in Interactions \ {i} : ops'[j] = ops[j]
    BY <1>2, <1>3, <1>4
  <1>7. ops'[i] # NoOp
    BY <1>2, <1>6, NoOpApart
  <1> QED
    BY <1>1, <1>5, <1>6, <1>7, <1>9 DEF Stores

\* A selection that is not a repeat: stored as superseded, or the row takes it.
Chooses(i, by, taken) ==
    /\ Stores(i, Newer(i, by))
    /\ IF Newer(i, by) THEN row' = taken ELSE row' = row
WithModel(i) == [model |-> asked[i], effort |-> Adjusted(task[i].entry),
                 modelBy |-> i, effortBy |-> row.effortBy]
WithEffort(i) == [model |-> row.model, effort |-> asked[i],
                  modelBy |-> row.modelBy, effortBy |-> i]

LEMMA RowTaken ==
    ASSUME row \in Selected, NEW i
    PROVE  /\ [row EXCEPT !.model = asked[i], !.modelBy = i,
                          !.effort = Adjusted(task[i].entry)] = WithModel(i)
           /\ [row EXCEPT !.effort = asked[i], !.effortBy = i] = WithEffort(i)
  <1>1. row = [model |-> row.model, effort |-> row.effort,
               modelBy |-> row.modelBy, effortBy |-> row.effortBy]
    BY DEF Selected
  <1>2. PICK one : one = [row EXCEPT !.model = asked[i]]
    OBVIOUS
  <1>3. one = [model |-> asked[i], effort |-> row.effort,
               modelBy |-> row.modelBy, effortBy |-> row.effortBy]
    BY <1>1, <1>2
  <1>4. PICK two : two = [one EXCEPT !.modelBy = i]
    OBVIOUS
  <1>5. two = [model |-> asked[i], effort |-> row.effort,
               modelBy |-> i, effortBy |-> row.effortBy]
    BY <1>3, <1>4
  <1>6. [two EXCEPT !.effort = Adjusted(task[i].entry)] = WithModel(i)
    BY <1>5 DEF WithModel
  <1>7. PICK only : only = [row EXCEPT !.effort = asked[i]]
    OBVIOUS
  <1>8. only = [model |-> row.model, effort |-> asked[i],
                modelBy |-> row.modelBy, effortBy |-> row.effortBy]
    BY <1>1, <1>7
  <1>9. [only EXCEPT !.effortBy = i] = WithEffort(i)
    BY <1>8 DEF WithEffort
  <1> QED
    BY <1>2, <1>4, <1>6, <1>7, <1>9, Zenon

\* The steps, by what they touch.
OnlyTasks == UNCHANGED <<asked, row, ops>>
LEMMA StepCases ==
    ASSUME SelectionShape, Next
    PROVE  /\ asked' = asked
           /\ \/ OnlyTasks
              \/ \E i \in Interactions : Begins(i)
              \/ \E i \in Interactions : /\ Kind(i) = "Model"
                                         /\ Chooses(i, row.modelBy, WithModel(i))
              \/ \E i \in Interactions : /\ Kind(i) = "Effort"
                                         /\ Chooses(i, row.effortBy, WithEffort(i))
  <1>1. row \in Selected
    BY DEF SelectionShape
  <1>2. asked' = asked
    BY DEF Next, SendTurn, Crash, Begins, Validates, SelectModel, SelectEffort, Repeats
  <1>3. ASSUME NEW i \in Interactions, SelectModel(i)
        PROVE  \/ OnlyTasks
               \/ Kind(i) = "Model" /\ Chooses(i, row.modelBy, WithModel(i))
    <2>1. CASE Repeated(i)
      BY <1>3, <2>1 DEF SelectModel, Repeated, OnlyTasks, Tells, Recorded
    <2>2. CASE ~Repeated(i)
      <3>1. /\ Stores(i, Newer(i, row.modelBy)) /\ Kind(i) = "Model"
            /\ row' = IF ~Newer(i, row.modelBy) THEN row
                      ELSE [row EXCEPT !.model = asked[i], !.modelBy = i,
                                       !.effort = Adjusted(task[i].entry)]
        BY <1>3, <2>2 DEF SelectModel, Stores, Repeated, Recorded, Tells, Newer
      <3>2. [row EXCEPT !.model = asked[i], !.modelBy = i,
                        !.effort = Adjusted(task[i].entry)] = WithModel(i)
        BY <1>1, RowTaken, Zenon
      <3> QED
        BY <3>1, <3>2 DEF Chooses
    <2> QED
      BY <2>1, <2>2
  <1>4. ASSUME NEW i \in Interactions, SelectEffort(i)
        PROVE  \/ OnlyTasks
               \/ Kind(i) = "Effort" /\ Chooses(i, row.effortBy, WithEffort(i))
    <2>1. CASE Repeated(i)
      BY <1>4, <2>1 DEF SelectEffort, Repeated, OnlyTasks, Tells, Recorded
    <2>2. CASE ~Repeated(i)
      <3>1. /\ Stores(i, Newer(i, row.effortBy)) /\ Kind(i) = "Effort"
            /\ row' = IF ~Newer(i, row.effortBy) THEN row
                      ELSE [row EXCEPT !.effort = asked[i], !.effortBy = i]
        BY <1>4, <2>2 DEF SelectEffort, Stores, Repeated, Recorded, Tells, Newer
      <3>2. [row EXCEPT !.effort = asked[i], !.effortBy = i] = WithEffort(i)
        BY <1>1, RowTaken, Zenon
      <3> QED
        BY <3>1, <3>2 DEF Chooses
    <2> QED
      BY <2>1, <2>2
  <1>5. \/ OnlyTasks
        \/ \E i \in Interactions : Begins(i) \/ SelectModel(i) \/ SelectEffort(i)
    BY DEF Next, SendTurn, Crash, Validates, Repeats, OnlyTasks
  <1> QED
    BY <1>2, <1>3, <1>4, <1>5

\* An effort that gives way gives way to one the new model has.
LEMMA AdjustedSupported ==
    ASSUME SelectionShape, row # NoRow, NEW e \in Entry, e.default \in e.efforts
    PROVE  /\ Adjusted(e) \in e.efforts /\ Adjusted(e) \in Efforts
           /\ Adjusted(e) = row.effort \/ Adjusted(e) = e.default
  BY DEF Adjusted, SelectionShape, Entry

\* The row after a choice is a whole pair again.
Pair(r) == r \in Selected /\ r.model \in Models /\ r.effort \in Efforts

LEMMA ModelRow ==
    ASSUME SelectionShape, ValidatedBeforeStored, NEW i \in Interactions,
           Kind(i) = "Model", Chooses(i, row.modelBy, WithModel(i))
    PROVE  Pair(row')
  <1>1. asked[i] \in Models
    BY DEF Kind
  <1>2. /\ row # NoRow /\ Pair(row)
        /\ task[i].entry \in Entry
        /\ task[i].entry.default \in task[i].entry.efforts
    <2>1. Stores(i, Newer(i, row.modelBy)) /\ Newer(i, row.modelBy) \in BOOLEAN
      BY DEF Chooses, Newer
    <2> QED
      BY <2>1, StoresEffect DEF SelectionShape, Pair
  <1>3. Pair(WithModel(i))
    <2>1. i \in 0 .. LastInteraction
      BY NumbersAssumption DEF Interactions
    <2> QED
      BY <1>1, <1>2, <2>1, AdjustedSupported DEF WithModel, Pair, Selected
  <1> QED
    BY <1>2, <1>3 DEF Chooses

LEMMA EffortRow ==
    ASSUME SelectionShape, ValidatedBeforeStored, NEW i \in Interactions,
           Kind(i) = "Effort", Chooses(i, row.effortBy, WithEffort(i))
    PROVE  Pair(row')
  <1>1. asked[i] \in Efforts
    BY DEF Kind, SelectionShape
  <1>2. row # NoRow /\ Pair(row)
    BY DEF Chooses, SelectionShape, Stores, Pair, ValidatedBeforeStored
  <1>3. Pair(WithEffort(i))
    <2>1. i \in 0 .. LastInteraction
      BY NumbersAssumption DEF Interactions
    <2> QED
      BY <1>1, <1>2, <2>1 DEF WithEffort, Pair, Selected
  <1> QED
    BY <1>2, <1>3 DEF Chooses

-----------------------------------------------------------------------------
(***************************************************************************)
(* One lemma for each part of the invariant.                               *)
(***************************************************************************)

LEMMA ShapeStep ==
    ASSUME SelectionShape, ValidatedBeforeStored, Next
    PROVE  SelectionShape'
  <1>1. /\ asked' = asked /\ asked \in [Interactions -> Models \cup Efforts]
        /\ task \in [Interactions -> Task]
    BY StepCases DEF SelectionShape
  <1>2. /\ sent' \in {<<>>} \cup (Models \X Efforts)
        /\ repeats' \in 0 .. MaxRepeats /\ crashes' \in 0 .. MaxCrashes
    <2>1. row.model # None => row.model \in Models /\ row.effort \in Efforts
      BY DEF SelectionShape, NoRow
    <2>2. SendTurn => sent' \in Models \X Efforts
      BY <2>1 DEF SendTurn
    <2>3. sent' = sent \/ SendTurn
      BY DEF Next, Crash, Begins, Validates, SelectModel, SelectEffort, Repeats
    <2>4. /\ repeats' = repeats \/ (repeats < MaxRepeats /\ repeats' = repeats + 1)
          /\ crashes' = crashes \/ (crashes < MaxCrashes /\ crashes' = crashes + 1)
      BY DEF Next, SendTurn, Crash, Begins, Validates, SelectModel, SelectEffort, Repeats
    <2> QED
      BY <2>2, <2>3, <2>4, NumbersAssumption DEF SelectionShape
  <1>3. task' \in [Interactions -> Task]
    <2>1. ASSUME NEW i \in Interactions, Begins(i)
          PROVE  task' \in [Interactions -> Task]
      <3>1. PICK m \in Models :
               task' = [task EXCEPT ![i] = Handler("Lists", m, None, None)]
        BY <2>1, RowType DEF Begins, Kind
      <3>2. PICK t \in Task : t = Handler("Lists", m, None, None)
        BY TaskForms
      <3> QED
        BY <1>1, <3>1, <3>2
    <2>2. ASSUME NEW i \in Interactions,
                 SelectModel(i) \/ SelectEffort(i) \/ Repeats(i)
          PROVE  task' \in [Interactions -> Task]
      BY <1>1, <2>2, TaskForms DEF SelectModel, SelectEffort, Repeats, Repeated,
         Tells
    <2>3. Crash => task' \in [Interactions -> Task]
      BY <1>1, TaskForms DEF Crash
    <2>4. ASSUME NEW i \in Interactions, Validates(i)
          PROVE  task' \in [Interactions -> Task]
      BY <1>1, <2>4, Found
    <2> QED
      BY <1>1, <2>1, <2>2, <2>3, <2>4 DEF Next, SendTurn
  <1>4. CASE OnlyTasks
    BY <1>1, <1>2, <1>3, <1>4 DEF SelectionShape, OnlyTasks, Kind
  <1>5. ASSUME NEW i \in Interactions, Begins(i)
        PROVE  SelectionShape'
    BY <1>1, <1>2, <1>3, <1>5, RowType DEF SelectionShape, Begins, Kind
  <1>6. ASSUME NEW i \in Interactions, NEW by \in 0 .. LastInteraction, NEW taken,
               Chooses(i, by, taken), Pair(row')
        PROVE  SelectionShape'
    <2>1. Newer(i, by) \in BOOLEAN /\ Stores(i, Newer(i, by))
      BY <1>6 DEF Chooses, Newer
    <2>2. ops' \in [Interactions -> {NoOp} \cup Op]
      BY <2>1, StoresEffect
    <2>3. \A j \in Interactions :
             ops'[j] # NoOp => ops'[j].kind = Kind(j) /\ ops'[j].value = asked[j]
      <3>1. ops'[i].kind = Kind(i) /\ ops'[i].value = asked[i]
        <4>1. ops'[i] = [kind |-> Kind(i), value |-> asked[i],
                         state |-> IF Newer(i, by) THEN "APPLIED" ELSE "SUPERSEDED",
                         entry |-> task[i].entry, read |-> task[i].read,
                         found |-> row.model]
          BY <2>1, StoresEffect
        <4> QED
          BY <4>1
      <3>2. \A j \in Interactions \ {i} : ops'[j] = ops[j]
        BY <2>1, StoresEffect
      <3> QED
        BY <3>1, <3>2 DEF SelectionShape
    <2> QED
      BY <1>1, <1>2, <1>3, <1>6, <2>2, <2>3 DEF SelectionShape, Pair, Kind
  <1>7. row.modelBy \in 0 .. LastInteraction /\ row.effortBy \in 0 .. LastInteraction
    BY DEF SelectionShape, Selected
  <1> QED
    BY <1>4, <1>5, <1>6, <1>7, StepCases, ModelRow, EffortRow

LEMMA ValidatedStep ==
    ASSUME SelectionShape, ValidatedBeforeStored, Next
    PROVE  ValidatedBeforeStored'
  <1>1. /\ asked' = asked /\ task \in [Interactions -> Task] /\ SelectionShape'
        /\ None \notin Models
    BY StepCases, ShapeStep, NumbersAssumption DEF SelectionShape
  <1>2. row # NoRow => row' # NoRow
    <2>1. Pair(row') => row' # NoRow
      BY <1>1 DEF Pair, NoRow
    <2>2. \A i \in Interactions : Begins(i) => row' # NoRow
      BY RowType DEF Begins
    <2> QED
      BY <2>1, <2>2, StepCases, ModelRow, EffortRow DEF OnlyTasks
  <1>3. ASSUME NEW j \in Interactions
        PROVE  \/ task'[j] = task[j]
               \/ task'[j].at \notin {"Lists", "Stores"}
               \/ Begins(j)
               \/ /\ task[j].at = "Lists" /\ task'[j].against = task[j].against
                  /\ task'[j].read \in Listings
                  /\ task'[j].entry \in Offered(j, task'[j].read)
    <2>1. ASSUME NEW i \in Interactions,
                 Begins(i) \/ Validates(i) \/ SelectModel(i) \/ SelectEffort(i) \/ Repeats(i)
          PROVE  i # j => task'[j] = task[j]
      BY <1>1, <2>1 DEF Begins, Validates, SelectModel, SelectEffort, Repeats,
         Repeated, Tells
    <2>2. Validates(j) => \/ task'[j].at \notin {"Lists", "Stores"}
                          \/ /\ task[j].at = "Lists" /\ task'[j].against = task[j].against
                             /\ task'[j].read \in Listings
                             /\ task'[j].entry \in Offered(j, task'[j].read)
      BY <1>1, Found
    <2>3. SelectModel(j) \/ SelectEffort(j) \/ Repeats(j) =>
             task'[j].at \notin {"Lists", "Stores"}
      BY <1>1, TaskForms DEF SelectModel, SelectEffort, Repeats, Repeated, Tells
    <2>4. Crash => task'[j] = task[j] \/ task'[j].at \notin {"Lists", "Stores"}
      BY <1>1, TaskForms DEF Crash
    <2> QED
      BY <2>1, <2>2, <2>3, <2>4 DEF Next, SendTurn
  <1>4. ASSUME NEW j \in Interactions, Begins(j)
        PROVE  /\ task'[j].at = "Lists" /\ task'[j].against \in Models
               /\ Kind(j) = "Model" => task'[j].against = asked[j]
               /\ row' # NoRow
    <2>1. PICK m \in Models :
             /\ task' = [task EXCEPT ![j] = Handler("Lists", m, None, None)]
             /\ Kind(j) = "Model" => m = asked[j]
             /\ row' # NoRow
      BY <1>4, RowType DEF Begins, Kind
    <2>2. PICK t \in Task : /\ t = Handler("Lists", m, None, None)
                            /\ t.at = "Lists" /\ t.against = m
      BY TaskForms
    <2> QED
      BY <1>1, <2>1, <2>2
  <1> QED
    <2>1. \A j \in Interactions : Kind(j)' = Kind(j)
      BY <1>1 DEF Kind
    <2>2. ASSUME NEW j \in Interactions, task'[j].against = task[j].against, NEW p
          PROVE  Offered(j, p)' = Offered(j, p)
      BY <1>1, <2>1, <2>2 DEF Offered
    <2> QED
      BY <1>1, <1>2, <1>3, <1>4, <2>1, <2>2 DEF ValidatedBeforeStored

LEMMA RecordedStep ==
    ASSUME SelectionInv, Next
    PROVE  ChoicesRecorded'
  <1>1. SelectionShape /\ ValidatedBeforeStored /\ ChoicesRecorded
    BY DEF SelectionInv
  <1>2. ASSUME OnlyTasks
        PROVE  ChoicesRecorded'
    BY <1>1, <1>2 DEF ChoicesRecorded, OnlyTasks
  <1>3. ASSUME NEW i \in Interactions, Begins(i)
        PROVE  ChoicesRecorded'
    BY <1>1, <1>3, RowType DEF ChoicesRecorded, Begins
  <1>4. ASSUME NEW i \in Interactions, NEW by \in Nat, NEW taken,
               Chooses(i, by, taken),
               taken.effortBy \in {row.effortBy, i},
               taken.modelBy \in {row.modelBy, i}
        PROVE  ChoicesRecorded'
    <2>1. Newer(i, by) \in BOOLEAN /\ Stores(i, Newer(i, by))
      BY <1>4 DEF Newer, Chooses
    <2>2. /\ ops'[i] # NoOp
          /\ \A j \in Interactions : ops[j] # NoOp => ops'[j] = ops[j]
      BY <1>1, <2>1, StoresEffect
    <2>3. row'.effortBy \in {row.effortBy, i} /\ row'.modelBy \in {row.modelBy, i}
      BY <1>4 DEF Chooses
    <2> QED
      BY <1>1, <2>2, <2>3 DEF ChoicesRecorded
  <1>5. row.modelBy \in Nat /\ row.effortBy \in Nat
    BY <1>1, NumbersAssumption DEF SelectionShape, Selected
  <1>6. \A i : /\ WithModel(i).effortBy = row.effortBy /\ WithModel(i).modelBy = i
              /\ WithEffort(i).effortBy = i /\ WithEffort(i).modelBy = row.modelBy
    BY DEF WithModel, WithEffort
  <1> QED
    BY <1>1, <1>2, <1>3, <1>4, <1>5, <1>6, StepCases

\* What a choice of a model leaves: it is in force if it is the newest one.
LEMMA ModelChosen ==
    ASSUME SelectionShape, ValidatedBeforeStored, NEW i \in Interactions,
           Kind(i) = "Model", Chooses(i, row.modelBy, WithModel(i))
    PROVE  /\ ops'[i].kind = "Model" /\ ops[i] = NoOp /\ ops'[i] # NoOp
           /\ \A j \in Interactions \ {i} : ops'[j] = ops[j]
           /\ row # NoRow /\ asked[i] \in Models
           /\ \/ i <= row.modelBy /\ row' = row
              \/ /\ row.modelBy < i /\ row'.modelBy = i /\ row'.model = asked[i]
                 /\ row'.effortBy = row.effortBy
                 /\ row'.effort = Adjusted(task[i].entry)
                 /\ ops'[i].state = "APPLIED"
           /\ task[i].entry \in Entry
           /\ task[i].entry.default \in task[i].entry.efforts
           /\ ops'[i].entry = task[i].entry /\ task[i].entry.model = asked[i]
  <1>1. Stores(i, Newer(i, row.modelBy)) /\ Newer(i, row.modelBy) \in BOOLEAN
    BY DEF Chooses, Newer
  <1>2. row.modelBy \in Nat /\ i \in Nat
    BY NumbersAssumption DEF SelectionShape, Selected, Interactions
  <1>3. ops'[i] = [kind |-> "Model", value |-> asked[i],
                   state |-> IF Newer(i, row.modelBy) THEN "APPLIED" ELSE "SUPERSEDED",
                   entry |-> task[i].entry, read |-> task[i].read,
                         found |-> row.model]
    BY <1>1, StoresEffect
  <1>4. /\ ops[i] = NoOp /\ ops'[i] # NoOp /\ row # NoRow
        /\ \A j \in Interactions \ {i} : ops'[j] = ops[j]
    BY <1>1, StoresEffect DEF Stores
  <1>5. /\ ops'[i].kind = "Model" /\ (Newer(i, row.modelBy) => ops'[i].state = "APPLIED")
        /\ ops'[i].entry = task[i].entry
    BY <1>3
  <1>6. /\ task[i].entry \in Entry
        /\ task[i].entry.default \in task[i].entry.efforts
        /\ task[i].entry.model = asked[i]
    BY <1>1, StoresEffect
  <1> QED
    BY <1>2, <1>4, <1>5, <1>6 DEF Chooses, Newer, WithModel, Kind

LEMMA EffortChosen ==
    ASSUME SelectionShape, ValidatedBeforeStored, NEW i \in Interactions,
           Kind(i) = "Effort", Chooses(i, row.effortBy, WithEffort(i))
    PROVE  /\ ops'[i].kind = "Effort" /\ ops[i] = NoOp /\ ops'[i] # NoOp
           /\ \A j \in Interactions \ {i} : ops'[j] = ops[j]
           /\ row # NoRow /\ asked[i] \in task[i].entry.efforts
           /\ ops'[i].entry = task[i].entry /\ ops'[i].found = row.model
           /\ \/ i <= row.effortBy /\ row' = row
              \/ /\ row.effortBy < i /\ row'.effortBy = i /\ row'.effort = asked[i]
                 /\ row'.modelBy = row.modelBy /\ row'.model = row.model
  <1>1. Stores(i, Newer(i, row.effortBy)) /\ Newer(i, row.effortBy) \in BOOLEAN
    BY DEF Chooses, Newer
  <1>2. row.effortBy \in Nat /\ i \in Nat
    BY NumbersAssumption DEF SelectionShape, Selected, Interactions
  <1>3. ops'[i] = [kind |-> "Effort", value |-> asked[i],
                   state |-> IF Newer(i, row.effortBy) THEN "APPLIED" ELSE "SUPERSEDED",
                   entry |-> task[i].entry, read |-> task[i].read,
                         found |-> row.model]
    BY <1>1, StoresEffect
  <1>4. /\ ops[i] = NoOp /\ ops'[i] # NoOp /\ row # NoRow
        /\ \A j \in Interactions \ {i} : ops'[j] = ops[j]
    BY <1>1, StoresEffect DEF Stores
  <1>5. asked[i] \in task[i].entry.efforts
    BY <1>1, StoresEffect
  <1>6. /\ ops'[i].kind = "Effort" /\ ops'[i].entry = task[i].entry
        /\ ops'[i].found = row.model
    BY <1>3
  <1> QED
    BY <1>2, <1>4, <1>5, <1>6 DEF Chooses, Newer, WithEffort

LEMMA NewestStep ==
    ASSUME SelectionInv, Next
    PROVE  NewestInForce'
  <1>1. /\ SelectionShape /\ ValidatedBeforeStored /\ NewestInForce
        /\ asked' = asked
        /\ row.modelBy \in Nat /\ row.effortBy \in Nat
        /\ \A i \in Interactions : i \in Nat
    BY StepCases, NumbersAssumption
       DEF SelectionInv, SelectionShape, Selected, Interactions
  <1>2. \A i \in Interactions : ops[i] = NoOp => ops[i].kind = "None"
    BY DEF NoOp
  <1>3. CASE OnlyTasks
    BY <1>1, <1>3 DEF OnlyTasks, NewestInForce
  <1>4. ASSUME NEW i \in Interactions, Begins(i)
        PROVE  NewestInForce'
    BY <1>1, <1>4, RowType DEF NewestInForce, Begins
  <1>5. ASSUME NEW i \in Interactions, Kind(i) = "Model",
               Chooses(i, row.modelBy, WithModel(i))
        PROVE  NewestInForce'
    <2>1. /\ ops'[i].kind = "Model" /\ ops[i].kind = "None"
          /\ \A j \in Interactions \ {i} : ops'[j] = ops[j]
          /\ row # NoRow /\ asked[i] \in Models
          /\ \/ i <= row.modelBy /\ row' = row
             \/ /\ row.modelBy < i /\ row'.modelBy = i /\ row'.model = asked[i]
                /\ row'.effortBy = row.effortBy
                /\ row'.effort = Adjusted(task[i].entry)
                /\ ops'[i].state = "APPLIED"
          /\ task[i].entry \in Entry
          /\ task[i].entry.default \in task[i].entry.efforts
          /\ ops'[i].entry = task[i].entry
      BY <1>1, <1>2, <1>5, ModelChosen
    <2>2. Adjusted(task[i].entry) \in {row.effort, ops'[i].entry.default}
      BY <1>1, <2>1, AdjustedSupported
    <2>3. \A j \in Interactions :
             /\ ops'[j].kind = "Model" => j <= row'.modelBy
             /\ ops'[j].kind = "Effort" => j <= row'.effortBy
      BY <1>1, <2>1 DEF NewestInForce
    <2>4. row'.modelBy > 0 => row'.model = asked[row'.modelBy]
      BY <1>1, <2>1 DEF NewestInForce
    <2>5. ASSUME row'.effortBy > 0
          PROVE  \/ row'.effort = asked[row'.effortBy]
                 \/ \E j \in Interactions : /\ ops'[j].kind = "Model"
                                            /\ ops'[j].state = "APPLIED"
                                            /\ row'.effort = ops'[j].entry.default
      <3>1. \A j \in Interactions : ops[j].kind = "Model" => ops'[j] = ops[j]
        BY <2>1
      <3> QED
        BY <1>1, <2>1, <2>2, <2>5, <3>1 DEF NewestInForce
    <2> QED
      BY <1>1, <2>3, <2>4, <2>5 DEF NewestInForce
  <1>6. ASSUME NEW i \in Interactions, Kind(i) = "Effort",
               Chooses(i, row.effortBy, WithEffort(i))
        PROVE  NewestInForce'
    <2>1. /\ ops'[i].kind = "Effort" /\ ops[i].kind = "None"
          /\ \A j \in Interactions \ {i} : ops'[j] = ops[j]
          /\ \/ i <= row.effortBy /\ row' = row
             \/ /\ row.effortBy < i /\ row'.effortBy = i /\ row'.effort = asked[i]
                /\ row'.modelBy = row.modelBy /\ row'.model = row.model
      BY <1>1, <1>2, <1>6, EffortChosen
    <2>2. \A j \in Interactions : ops[j].kind = "Model" => ops'[j] = ops[j]
      BY <2>1
    <2>3. \A j \in Interactions :
             /\ ops'[j].kind = "Model" => j <= row'.modelBy
             /\ ops'[j].kind = "Effort" => j <= row'.effortBy
      BY <1>1, <2>1 DEF NewestInForce
    <2>4. row'.modelBy > 0 => row'.model = asked[row'.modelBy]
      BY <1>1, <2>1 DEF NewestInForce
    <2>5. ASSUME row'.effortBy > 0
          PROVE  \/ row'.effort = asked[row'.effortBy]
                 \/ \E j \in Interactions : /\ ops'[j].kind = "Model"
                                            /\ ops'[j].state = "APPLIED"
                                            /\ row'.effort = ops'[j].entry.default
      BY <1>1, <2>1, <2>2, <2>5 DEF NewestInForce
    <2> QED
      BY <1>1, <2>3, <2>4, <2>5 DEF NewestInForce
  <1> QED
    BY <1>1, <1>3, <1>4, <1>5, <1>6, StepCases

LEMMA UnofferedStep ==
    ASSUME SelectionInv, Next
    PROVE  UnofferedOnlyIfStale'
  <1>1. /\ SelectionShape /\ ValidatedBeforeStored /\ ChoicesRecorded
        /\ UnofferedOnlyIfStale /\ asked' = asked
        /\ row.modelBy \in Nat /\ row.effortBy \in Nat
        /\ \A i \in Interactions : i \in Nat \ {0}
    BY StepCases, NumbersAssumption
       DEF SelectionInv, SelectionShape, Selected, Interactions
  \* A choice in force stands by the row of its interaction.
  <1>2. ASSUME UNCHANGED row, \A i \in Interactions : ops[i] # NoOp => ops'[i] = ops[i]
        PROVE  UnofferedOnlyIfStale'
    <2>1. \A i \in {row.modelBy, row.effortBy} \ {0} : ops'[i] = ops[i]
      BY <1>1, <1>2 DEF ChoicesRecorded
    <2>2. PairOffered' <=> PairOffered
      BY <1>2, <2>1 DEF PairOffered
    <2> QED
      BY <1>1, <1>2, <2>1, <2>2 DEF UnofferedOnlyIfStale
  <1>3. CASE OnlyTasks
    BY <1>2, <1>3 DEF OnlyTasks
  <1>4. ASSUME NEW i \in Interactions, Begins(i)
        PROVE  UnofferedOnlyIfStale'
    <2>1. CASE row = NoRow
      BY <1>4, <2>1, RowType, <1>1 DEF Begins, UnofferedOnlyIfStale
    <2>2. CASE row # NoRow
      BY <1>1, <1>2, <1>4, <2>2, RowType DEF Begins
    <2> QED
      BY <2>1, <2>2
  <1>5. ASSUME NEW i \in Interactions, Kind(i) = "Model",
               Chooses(i, row.modelBy, WithModel(i))
        PROVE  UnofferedOnlyIfStale'
    <2>1. /\ ops[i] = NoOp
          /\ \A j \in Interactions \ {i} : ops'[j] = ops[j]
          /\ row # NoRow
          /\ \/ row' = row
             \/ /\ row'.modelBy = i /\ row'.model = asked[i]
                /\ row'.effort = Adjusted(task[i].entry)
          /\ task[i].entry \in Entry
          /\ task[i].entry.default \in task[i].entry.efforts
          /\ ops'[i].entry = task[i].entry /\ task[i].entry.model = asked[i]
      BY <1>1, <1>5, ModelChosen
    <2>2. CASE row' = row
      BY <1>2, <2>1, <2>2
    <2>3. CASE row'.modelBy = i /\ row'.model = asked[i]
               /\ row'.effort = Adjusted(task[i].entry)
      <3>1. Adjusted(task[i].entry) \in task[i].entry.efforts
        BY <1>1, <2>1, AdjustedSupported
      <3>2. PairOffered'
        BY <1>1, <2>1, <2>3, <3>1 DEF PairOffered
      <3> QED
        BY <3>2 DEF UnofferedOnlyIfStale
    <2> QED
      BY <2>1, <2>2, <2>3
  <1>6. ASSUME NEW i \in Interactions, Kind(i) = "Effort",
               Chooses(i, row.effortBy, WithEffort(i))
        PROVE  UnofferedOnlyIfStale'
    <2>1. /\ ops[i] = NoOp
          /\ \A j \in Interactions \ {i} : ops'[j] = ops[j]
          /\ asked[i] \in task[i].entry.efforts
          /\ ops'[i].entry = task[i].entry /\ ops'[i].found = row.model
          /\ \/ row' = row
             \/ /\ row'.effortBy = i /\ row'.effort = asked[i]
                /\ row'.model = row.model
      BY <1>1, <1>6, EffortChosen
    <2>2. CASE row' = row
      BY <1>2, <2>1, <2>2
    <2>3. CASE row'.effortBy = i /\ row'.effort = asked[i] /\ row'.model = row.model
      <3>1. ops'[i].entry.model = row'.model => PairOffered'
        BY <1>1, <2>1, <2>3 DEF PairOffered
      <3> QED
        BY <1>1, <2>1, <2>3, <3>1 DEF UnofferedOnlyIfStale
    <2> QED
      BY <2>1, <2>2, <2>3
  <1> QED
    BY <1>1, <1>3, <1>4, <1>5, <1>6, StepCases

-----------------------------------------------------------------------------
(***************************************************************************)
(* The theorems.                                                           *)
(***************************************************************************)

LEMMA SelectionInvInit == Init => SelectionInv
  <1> SUFFICES ASSUME Init PROVE SelectionInv
    OBVIOUS
  <1>1. /\ \A i \in Interactions : ops[i] = NoOp /\ task[i] = Idle
        /\ row.modelBy = 0 /\ row.effortBy = 0
    BY DEF Init, NoRow
  <1>2. SelectionShape
    <2>1. /\ row \in Selected
          /\ row = NoRow \/ (row.model \in Models /\ row.effort \in Efforts)
      <3>1. 0 \in 0 .. LastInteraction
        BY NumbersAssumption
      <3>2. CASE row = NoRow
        BY <3>1, <3>2 DEF Selected, NoRow
      <3>3. CASE row # NoRow
        BY <3>1, <3>3, DefaultsAssumption DEF Init, Selected
      <3> QED
        BY <3>2, <3>3
    <2> QED
      BY <2>1, TaskForms, NumbersAssumption DEF Init, SelectionShape
  <1>3. ValidatedBeforeStored /\ ChoicesRecorded /\ UnofferedOnlyIfStale
    BY <1>1, TaskForms DEF ValidatedBeforeStored, ChoicesRecorded, UnofferedOnlyIfStale
  <1>4. NewestInForce
    BY <1>1 DEF NewestInForce, NoOp
  <1> QED
    BY <1>2, <1>3, <1>4 DEF SelectionInv

LEMMA SelectionInvStep == SelectionInv /\ [Next]_vars => SelectionInv'
  <1> SUFFICES ASSUME SelectionInv, [Next]_vars PROVE SelectionInv'
    OBVIOUS
  <1>1. CASE Next
    BY <1>1, ShapeStep, ValidatedStep, RecordedStep, NewestStep, UnofferedStep
       DEF SelectionInv
  <1>2. CASE UNCHANGED vars
    BY <1>2 DEF vars, SelectionInv, SelectionShape, Kind, ValidatedBeforeStored,
       ChoicesRecorded, NewestInForce, UnofferedOnlyIfStale, PairOffered, Offered
  <1> QED
    BY <1>1, <1>2

\* The pair, the rows and the tasks keep their shape, a choice is stored only
\* once it is validated, and the row of a choice in force is there.
THEOREM SelectionInvariant == Spec => []SelectionInv
  BY SelectionInvInit, SelectionInvStep, PTL DEF Spec

LEMMA TypesFollow == SelectionInv => SelectionTypeOK
  <1> SUFFICES ASSUME SelectionInv PROVE SelectionTypeOK
    OBVIOUS
  <1>1. SelectionShape
    BY DEF SelectionInv
  <1>2. ASSUME NEW i \in Interactions, ops[i] # NoOp
        PROVE  /\ ops[i].kind = Kind(i) /\ ops[i].value = asked[i]
               /\ ops[i].state \in {"APPLIED", "SUPERSEDED"}
               /\ ops[i].entry \in Entry /\ ops[i].read \in Listings
               /\ ops[i].found \in Models
    BY <1>1, <1>2 DEF SelectionShape, Op
  <1>3. \A i \in Interactions :
           /\ task[i].at \in {"Idle", "Lists", "Stores", "Done"}
           /\ task[i].against \in Models \cup {None}
           /\ task[i].entry = None \/ task[i].entry \in Entry
           /\ task[i].read \in Listings \cup {None}
           /\ task[i].told \in {"None", "Changed", "Superseded", "Failed"}
    BY <1>1 DEF SelectionShape, Task
  <1> QED
    BY <1>1, <1>2, <1>3 DEF SelectionTypeOK, SelectionShape, Selected

\* However long their validations take, a selection never gives way to an
\* older one, and the pair is the newest model with the newest effort or the
\* default it had to give way to (select_direct_model_with_efforts and
\* select_direct_reasoning_effort, src/direct_model_store.rs).
THEOREM NewestSelectionWins == Spec => []NewestWins
  <1>1. SelectionInv => NewestWins
    BY TypesFollow DEF SelectionInv, NewestInForce, NewestWins
  <1> QED
    BY <1>1, SelectionInvariant, PTL

\* A pair somebody has chosen from was offered together by a catalogue read
\* for the choices in force, unless its effort was validated against another
\* model, replaced while the catalogue was read (choose_model and choose_effort
\* of src/direct_application.rs, src/direct_model_store.rs): for any
\* catalogues and any configured pair.
THEOREM UnofferedMeansStale == Spec => []UnofferedOnlyIfStale
  <1>1. SelectionInv => UnofferedOnlyIfStale
    BY DEF SelectionInv
  <1> QED
    BY <1>1, SelectionInvariant, PTL

\* A choice once recorded keeps its row, whether it was applied or superseded,
\* however often Discord repeats it.
THEOREM ChoicesKept ==
    Spec => [][\A i \in Interactions : ops[i] # NoOp => ops'[i] = ops[i]]_vars
  <1>1. SelectionInv /\ [Next]_vars =>
           [\A i \in Interactions : ops[i] # NoOp => ops'[i] = ops[i]]_vars
    <2> SUFFICES ASSUME SelectionInv, Next, NEW i \in Interactions, ops[i] # NoOp
                 PROVE  ops'[i] = ops[i]
      OBVIOUS
    <2>1. SelectionShape /\ ValidatedBeforeStored
      BY DEF SelectionInv
    <2> QED
      BY <2>1, StepCases, ModelChosen, EffortChosen DEF OnlyTasks, Begins
  <1> QED
    BY <1>1, SelectionInvariant, PTL DEF Spec

-----------------------------------------------------------------------------
\* Every choice that is stored was found in the catalogue read for it.
OfferedInv ==
    \A i \in Interactions :
        ops[i] # NoOp => /\ ops[i].read \in Listings
                         /\ ops[i].entry \in Catalogue(ops[i].read)

LEMMA OfferedStep ==
    ASSUME SelectionShape, ValidatedBeforeStored, OfferedInv, [Next]_vars
    PROVE  OfferedInv'
  <1>1. ASSUME \A i \in Interactions : ops'[i] = ops[i]
        PROVE  OfferedInv'
    BY <1>1 DEF OfferedInv
  <1>2. ASSUME NEW i \in Interactions, NEW by, NEW taken, Chooses(i, by, taken)
        PROVE  OfferedInv'
    <2>1. /\ Stores(i, Newer(i, by)) /\ Newer(i, by) \in BOOLEAN
          /\ task[i].read \in Listings /\ task[i].entry \in Offered(i, task[i].read)
      BY <1>2 DEF Chooses, Newer, Stores, ValidatedBeforeStored
    <2>2. ops'[i] = [kind |-> Kind(i), value |-> asked[i],
                     state |-> IF Newer(i, by) THEN "APPLIED" ELSE "SUPERSEDED",
                     entry |-> task[i].entry, read |-> task[i].read,
                     found |-> row.model]
      BY <2>1, StoresEffect
    <2>3. ops'[i].read = task[i].read /\ ops'[i].entry = task[i].entry
      BY <2>2
    <2>4. \A j \in Interactions \ {i} : ops'[j] = ops[j]
      BY <2>1, StoresEffect
    <2>5. task[i].entry \in Catalogue(task[i].read)
      BY <2>1 DEF Offered
    <2> QED
      BY <2>1, <2>3, <2>4, <2>5 DEF OfferedInv
  <1>3. CASE Next
    BY <1>1, <1>2, <1>3, StepCases DEF OnlyTasks, Begins
  <1>4. CASE UNCHANGED vars
    BY <1>1, <1>4 DEF vars
  <1> QED
    BY <1>3, <1>4

\* A model is only selected from a complete catalogue: one whose pages end,
\* within the limit, and name no model twice (list_models and
\* DirectModelCatalog::list), for any pages Codex may offer.
THEOREM OnlyCompleteCatalogues == Spec => []OnlyOffered
  <1>1. Init => OfferedInv
    BY DEF Init, OfferedInv
  <1>2. SelectionInv /\ OfferedInv /\ [Next]_vars => OfferedInv'
    BY OfferedStep DEF SelectionInv
  <1>3. OfferedInv => OnlyOffered
    <2> SUFFICES ASSUME OfferedInv, NEW i \in Interactions, ops[i] # NoOp
                 PROVE  \E s \in Chains : /\ Complete(ops[i].read, s)
                                          /\ \E k \in DOMAIN s :
                                                ops[i].read[s[k]].data = ops[i].entry
      BY DEF OnlyOffered
    <2>1. PICK p \in Listings : p = ops[i].read
      BY DEF OfferedInv
    <2>2. PICK e \in Catalogue(p) : e = ops[i].entry
      BY <2>1 DEF OfferedInv
    <2> QED
      BY <2>1, <2>2, CatalogueComplete
  <1> QED
    BY <1>1, <1>2, <1>3, SelectionInvariant, PTL DEF Spec

=============================================================================
