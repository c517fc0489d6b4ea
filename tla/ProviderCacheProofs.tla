------------------------- MODULE ProviderCacheProofs -------------------------
(***************************************************************************)
(* Proofs about ProviderCache for any number of providers, readers and     *)
(* writers and any times to live: nothing older than one TTL is served,    *)
(* the caches disagree with the table only because of a race, and a key    *)
(* never shadows a reference that was saved later.                         *)
(***************************************************************************)
EXTENDS ProviderCache, TLAPS

(* A row is of the table's past, and was replaced at most n ticks ago.     *)
Within(id, row, n) ==
  /\ row.version <= table[id].version
  /\ replaced[id][row.version] <= n

(* A version that has not been replaced has no age yet. *)
Ageless ==
  \A id \in Ids, v \in Versions : v >= table[id].version => replaced[id][v] = 0

(* An entry, and what a reader holds, is as old as the time its reader     *)
(* took before it read.                                                    *)
CachesWithin ==
  /\ \A id \in Ids : raw[id] # Empty => Within(id, raw[id].row, raw[id].age)
  /\ list # Empty => \A id \in Ids : Within(id, list.rows[id], list.age)

ReadersWithin ==
  /\ \A c \in Readers : pc[c] = "got" =>
       got[c] \in Present /\ Within(want[c], got[c], age[c])
  /\ \A c \in Readers : pc[c] = "listed" =>
       all[c] \in Rows /\ \A id \in Ids : Within(id, all[c][id], age[c])

(* A key and a reference in one row were saved together. *)
Paired(row) == row.key # 0 /\ row.ref # 0 => row.key = row.ref

AllPaired ==
  /\ \A id \in Ids : Paired(table[id]) /\ (raw[id] # Empty => Paired(raw[id].row))
  /\ \A c \in Readers : pc[c] = "got" => Paired(got[c])

(* A stale cache has its race on record, or its invalidation ahead.        *)
StaleKnown ==
  \/ \E w \in Writers : writer[w] = "committed"
  \/ /\ \A id \in Ids : RawStale(id) => id \in raced
     /\ ListStale => Empty \in raced

IInv ==
  TypeOK /\ Ageless /\ CachesWithin /\ ReadersWithin /\ AllPaired /\ StaleKnown /\ ServedFresh

-----------------------------------------------------------------------------
(* The times to live are naturals, and a read ends before its entry would. *)
LEMMA Times == TTL \in Nat /\ ReadTicks \in Nat /\ ReadTicks < TTL /\ MaxWrites \in Nat
BY ReadsAssumption, WritesAssumption

(* The rows that saves and deletes write. *)
LEMMA NewRows ==
  ASSUME NEW row \in Row, row.version < MaxWrites, NEW inline \in BOOLEAN, NEW ref \in BOOLEAN
  PROVE  /\ NewRow(row, inline, ref) \in Row /\ Gone(row) \in Row
         /\ NewRow(row, inline, ref).version = row.version + 1
         /\ Gone(row).version \in {row.version, row.version + 1}
         /\ Gone(row).version = row.version => Gone(row) = row
         /\ Paired(row) => Paired(NewRow(row, inline, ref)) /\ Paired(Gone(row))
<1>1. row.version + 1 \in Versions /\ row.version \in Int /\ 0 \in Versions
  BY Times DEF Row, Versions
<1>2. NewRow(row, inline, ref) \in Row /\ Gone(row) \in Row
  BY <1>1 DEF NewRow, Gone, Row
<1>3. /\ NewRow(row, inline, ref).version = row.version + 1
      /\ Gone(row).version \in {row.version, row.version + 1}
      /\ Gone(row).version = row.version => Gone(row) = row
  BY <1>1 DEF NewRow, Gone
<1>4. Paired(row) => Paired(NewRow(row, inline, ref)) /\ Paired(Gone(row))
  BY DEF Paired, NewRow, Gone
<1>5. QED BY <1>2, <1>3, <1>4

(* What a commit does to the table, whoever makes it. *)
LEMMA Commits ==
  ASSUME TypeOK, NEW w \in Writers, NEW id \in Ids, Save(w, id) \/ Delete(w, id)
  PROVE  \E row \in Row :
           /\ Commit(w, id, row)
           /\ row.version \in {table[id].version, table[id].version + 1}
           /\ row.version = table[id].version => row = table[id]
           /\ Paired(table[id]) => Paired(row)
<1>1. table[id] \in Row
  BY DEF TypeOK, Rows
<1>2. table[id].version < MaxWrites
  BY DEF Save, Delete, Commit
<1>3. table[id].version # table[id].version + 1
  BY <1>1, Times DEF Row, Versions
<1>4. CASE Delete(w, id)
  BY <1>1, <1>2, <1>4, NewRows DEF Delete
<1>5. ASSUME NEW inline \in BOOLEAN, NEW ref \in BOOLEAN,
             Commit(w, id, NewRow(table[id], inline, ref))
      PROVE  \E row \in Row :
               /\ Commit(w, id, row)
               /\ row.version \in {table[id].version, table[id].version + 1}
               /\ row.version = table[id].version => row = table[id]
               /\ Paired(table[id]) => Paired(row)
  BY <1>1, <1>2, <1>3, <1>5, NewRows
<1>6. QED BY <1>4, <1>5 DEF Save

(* Ages grow by one up to the time to live. *)
LEMMA Aging ==
  ASSUME NEW n \in Ages
  PROVE  /\ Older(n) \in Ages
         /\ Older(n) <= n + 1
         /\ \A k \in Ages : n <= k => Older(n) <= Older(k)
BY Times DEF Older, Ages

-----------------------------------------------------------------------------
(* The types of all the state. *)
LEMMA KeepsTypes ==
  ASSUME IInv, [Next]_vars PROVE TypeOK'
<1>1. TypeOK /\ ReadersWithin
  BY DEF IInv
<1>2. 0 \in Ages /\ 0 \in 0..ReadTicks /\ \A n \in 0..ReadTicks : n \in Ages
  BY Times DEF Ages
<1>3. \A id \in Ids, row \in Row : Lag(id, row) \in Ages
  BY <1>1, <1>2 DEF TypeOK, Lag, Row
<1>4. \A row \in Present : row \in Row
  BY DEF Present
<1> USE DEF TypeOK, Goes
<1>5. ASSUME NEW c \in Readers, NEW id \in Ids, GetHit(c, id) PROVE TypeOK'
  <2>1. raw[id] \in [row: Present, age: Ages] \cup {Empty} /\ raw[id] # Empty
    BY <1>1, <1>5 DEF GetHit, Fresh
  <2>2. raw[id].row \in Row
    BY <1>4, <2>1
  <2>3. lag' \in Ages
    BY <1>3, <1>5, <2>2 DEF GetHit
  <2>4. QED BY <1>1, <1>5, <2>3 DEF GetHit
<1>6. ASSUME NEW c \in Readers, NEW id \in Ids, GetMiss(c, id) PROVE TypeOK'
  BY <1>1, <1>2, <1>6 DEF GetMiss
<1>7. ASSUME NEW c \in Readers, GetRead(c) PROVE TypeOK'
  <2>1. want[c] \in Ids /\ table[want[c]] \in Row
    BY <1>1 DEF Rows
  <2>2. table[want[c]].present => table[want[c]] \in Present
    BY <2>1 DEF Present
  <2>3. got' \in [Readers -> Present \cup {Empty}]
    BY <1>1, <1>7, <2>2 DEF GetRead
  <2>4. QED BY <1>1, <1>7, <2>3 DEF GetRead
<1>8. ASSUME NEW c \in Readers, GetStore(c) PROVE TypeOK'
  <2>1. got[c] \in Present /\ want[c] \in Ids /\ age[c] \in 0..ReadTicks
    BY <1>1, <1>8 DEF GetStore, ReadersWithin
  <2>2. lag' \in Ages
    BY <1>3, <1>4, <1>8, <2>1 DEF GetStore
  <2>3. raw' \in [Ids -> [row: Present, age: Ages] \cup {Empty}]
    BY <1>1, <1>2, <1>8, <2>1 DEF GetStore
  <2>4. raced' \subseteq Ids \cup {Empty}
    BY <1>1, <1>8, <2>1 DEF GetStore, Races
  <2>5. QED BY <1>1, <1>2, <1>8, <2>2, <2>3, <2>4 DEF GetStore
<1>9. ASSUME NEW c \in Readers, ListHit(c) PROVE TypeOK'
  <2>1. list \in [rows: Rows, age: Ages]
    BY <1>1, <1>9 DEF ListHit, Fresh
  <2>2. lag' \in Ages
    BY <1>3, <1>9, <2>1 DEF ListHit, ServesOneOf, Rows
  <2>3. QED BY <1>1, <1>9, <2>2 DEF ListHit
<1>10. ASSUME NEW c \in Readers, ListMiss(c) \/ ListRead(c) PROVE TypeOK'
  <2>1. CASE ListMiss(c)
    BY <1>1, <1>2, <2>1 DEF ListMiss
  <2>2. CASE ListRead(c)
    <3>1. all' \in [Readers -> Rows \cup {Empty}] /\ UNCHANGED age
      BY <1>1, <2>2 DEF ListRead
    <3>2. QED BY <1>1, <2>2, <3>1 DEF ListRead
  <2>3. QED BY <1>10, <2>1, <2>2
<1>11. ASSUME NEW c \in Readers, ListStore(c) PROVE TypeOK'
  <2>1. all[c] \in Rows /\ age[c] \in 0..ReadTicks
    BY <1>1, <1>11 DEF ListStore, ReadersWithin
  <2>2. lag' \in Ages
    BY <1>3, <1>11, <2>1 DEF ListStore, ServesOneOf, Rows
  <2>3. list' \in [rows: Rows, age: Ages]
    BY <1>2, <1>11, <2>1 DEF ListStore
  <2>4. raced' \subseteq Ids \cup {Empty}
    BY <1>1, <1>11 DEF ListStore, Races
  <2>5. QED BY <1>1, <1>2, <1>11, <2>2, <2>3, <2>4 DEF ListStore
<1>12. ASSUME NEW c \in Readers, ReaderCancelled(c) PROVE TypeOK'
  BY <1>1, <1>2, <1>12 DEF ReaderCancelled
<1>13. ASSUME NEW w \in Writers, NEW id \in Ids, Save(w, id) \/ Delete(w, id) PROVE TypeOK'
  <2>1. PICK row \in Row : Commit(w, id, row)
    BY <1>1, <1>13, Commits
  <2>2. QED BY <1>1, <2>1 DEF Commit, Rows
<1>14. ASSUME NEW w \in Writers, Invalidate(w) \/ WriterCancelled(w) PROVE TypeOK'
  BY <1>1, <1>14 DEF Invalidate, WriterCancelled
<1>15. CASE Tick
  <2>1. age' \in [Readers -> 0..ReadTicks]
    BY <1>1, <1>15, Times DEF Tick
  <2>2. replaced' \in [Ids -> [Versions -> Ages]]
    BY <1>1, <1>15, Aging DEF Tick
  <2>3. raw' \in [Ids -> [row: Present, age: Ages] \cup {Empty}]
    <3>1. ASSUME NEW id \in Ids, raw[id] # Empty
          PROVE  [raw[id] EXCEPT !.age = Older(@)] \in [row: Present, age: Ages]
      BY <1>1, <3>1, Aging
    <3>2. QED BY <1>1, <1>15, <3>1 DEF Tick
  <2>4. list' \in [rows: Rows, age: Ages] \cup {Empty}
    BY <1>1, <1>15, Aging DEF Tick
  <2>5. QED BY <1>1, <1>15, <2>1, <2>2, <2>3, <2>4 DEF Tick
<1>16. CASE UNCHANGED vars
  BY <1>1, <1>16 DEF vars
<1>17. QED
  BY <1>5, <1>6, <1>7, <1>8, <1>9, <1>10, <1>11, <1>12, <1>13, <1>14, <1>15, <1>16 DEF Next

-----------------------------------------------------------------------------
(* A commit brings the next version and no row loses its place in the past.*)
LEMMA KeepsAgeless ==
  ASSUME IInv, [Next]_vars PROVE Ageless'
<1>1. TypeOK /\ Ageless
  BY DEF IInv
<1>2. ASSUME NEW w \in Writers, NEW id \in Ids, Save(w, id) \/ Delete(w, id) PROVE Ageless'
  <2>1. PICK row \in Row :
          /\ Commit(w, id, row)
          /\ row.version \in {table[id].version, table[id].version + 1}
    BY <1>1, <1>2, Commits
  <2>2. \A i \in Ids : /\ table[i].version \in Int /\ table'[i].version \in Int
                       /\ table'[i].version >= table[i].version
    BY <1>1, <2>1, Times DEF Commit, TypeOK, Rows, Row, Versions
  <2>3. replaced' = replaced
    BY <2>1 DEF Commit
  <2>4. \A v \in Versions : v \in Int
    BY Times DEF Versions
  <2>5. QED BY <1>1, <2>2, <2>3, <2>4 DEF Ageless
<1>3. CASE Tick
  <2>1. \A id \in Ids, v \in Versions : v \in Int /\ table[id].version \in Int
    BY <1>1, Times DEF Versions, TypeOK, Rows, Row
  <2>2. QED BY <1>1, <1>3, <2>1 DEF Tick, Ageless
<1>4. ASSUME UNCHANGED <<table, replaced>> PROVE Ageless'
  BY <1>1, <1>4 DEF Ageless
<1>5. ASSUME NEW c \in Readers, NEW id \in Ids,
             GetHit(c, id) \/ GetMiss(c, id) \/ GetRead(c) \/ GetStore(c)
             \/ ListHit(c) \/ ListMiss(c) \/ ListRead(c) \/ ListStore(c) \/ ReaderCancelled(c)
      PROVE  Ageless'
  BY <1>4, <1>5 DEF GetHit, GetMiss, GetRead, GetStore, ListHit, ListMiss, ListRead,
    ListStore, ReaderCancelled
<1>6. ASSUME NEW c \in Readers,
             GetRead(c) \/ GetStore(c) \/ ListHit(c) \/ ListMiss(c) \/ ListRead(c)
             \/ ListStore(c) \/ ReaderCancelled(c)
      PROVE  Ageless'
  BY <1>4, <1>6 DEF GetRead, GetStore, ListHit, ListMiss, ListRead, ListStore, ReaderCancelled
<1>7. ASSUME NEW w \in Writers, Invalidate(w) \/ WriterCancelled(w) PROVE Ageless'
  BY <1>4, <1>7 DEF Invalidate, WriterCancelled
<1>8. CASE UNCHANGED vars
  BY <1>4, <1>8 DEF vars
<1>9. QED BY <1>2, <1>3, <1>5, <1>6, <1>7, <1>8 DEF Next

(* What was within n ticks before a tick is within n + 1 after it, or      *)
(* within what an entry of age n has grown to.                             *)
LEMMA TickWithin ==
  ASSUME IInv, Tick, NEW id \in Ids, NEW v \in Versions, NEW n \in Ages,
         v <= table[id].version, replaced[id][v] <= n
  PROVE  /\ v <= table'[id].version
         /\ replaced'[id][v] <= Older(n)
         /\ replaced'[id][v] <= n + 1
<1>1. /\ table' = table /\ table[id].version \in Int /\ v \in Int
      /\ replaced[id][v] \in Ages
      /\ v >= table[id].version => replaced[id][v] = 0
  BY Times DEF IInv, TypeOK, Rows, Row, Versions, Tick, Ageless
<1>2. replaced'[id][v] =
        IF v < table[id].version THEN Older(replaced[id][v]) ELSE replaced[id][v]
  BY DEF Tick
<1>3. Older(n) \in Ages /\ n + 1 >= 0 /\ Older(n) >= 0
  BY Aging, Times DEF Ages
<1>4. CASE v < table[id].version
  <2>1. Older(replaced[id][v]) <= Older(n)
    BY <1>1, Aging
  <2>2. Older(replaced[id][v]) <= n + 1
    BY <1>1, Times DEF Older, Ages
  <2>3. QED BY <1>1, <1>2, <1>4, <2>1, <2>2
<1>5. CASE ~(v < table[id].version)
  BY <1>1, <1>2, <1>3, <1>5
<1>6. QED BY <1>4, <1>5

(* A commit takes nothing further back in the past. *)
LEMMA CommitWithin ==
  ASSUME IInv, NEW w \in Writers, NEW id \in Ids, Save(w, id) \/ Delete(w, id)
  PROVE  /\ \A i \in Ids : /\ table[i].version \in Int /\ table'[i].version \in Int
                           /\ table'[i].version >= table[i].version
         /\ replaced' = replaced
<1>1. PICK row \in Row :
        /\ Commit(w, id, row)
        /\ row.version \in {table[id].version, table[id].version + 1}
  BY Commits DEF IInv
<1>2. QED BY <1>1, Times DEF IInv, Commit, TypeOK, Rows, Row, Versions

(* An entry takes over the age of the read it stems from. *)
LEMMA KeepsCachesWithin ==
  ASSUME IInv, [Next]_vars PROVE CachesWithin'
<1>1. TypeOK /\ Ageless /\ CachesWithin /\ ReadersWithin
  BY DEF IInv
<1>2. ASSUME UNCHANGED <<table, replaced, raw, list>> PROVE CachesWithin'
  BY <1>1, <1>2 DEF CachesWithin, Within
<1>3. ASSUME NEW c \in Readers, NEW id \in Ids, GetHit(c, id) \/ GetMiss(c, id)
      PROVE  CachesWithin'
  BY <1>2, <1>3 DEF GetHit, GetMiss
<1>4. ASSUME NEW c \in Readers,
             GetRead(c) \/ ListHit(c) \/ ListMiss(c) \/ ListRead(c) \/ ReaderCancelled(c)
      PROVE  CachesWithin'
  BY <1>2, <1>4 DEF GetRead, ListHit, ListMiss, ListRead, ReaderCancelled
<1>5. ASSUME NEW c \in Readers, GetStore(c) PROVE CachesWithin'
  <2>1. Within(want[c], got[c], age[c])
    BY <1>1, <1>5 DEF GetStore, Goes, ReadersWithin
  <2>2. raw' = [raw EXCEPT ![want[c]] = [row |-> got[c], age |-> age[c]]]
    BY <1>5 DEF GetStore
  <2>3. \A id \in Ids : \/ id = want[c] /\ raw'[id] = [row |-> got[c], age |-> age[c]]
                        \/ raw'[id] = raw[id]
    BY <1>1, <2>2 DEF TypeOK
  <2>4. UNCHANGED <<table, replaced, list>>
    BY <1>5 DEF GetStore
  <2>5. ASSUME NEW id \in Ids, raw'[id] # Empty PROVE Within(id, raw[id].row, raw[id].age)'
    <3>1. CASE raw'[id] = raw[id]
      BY <1>1, <2>4, <2>5, <3>1 DEF CachesWithin, Within
    <3>2. CASE id = want[c] /\ raw'[id] = [row |-> got[c], age |-> age[c]]
      BY <2>1, <2>4, <3>2 DEF Within
    <3>3. QED BY <2>3, <3>1, <3>2
  <2>6. QED BY <1>1, <2>4, <2>5 DEF CachesWithin, Within
<1>6. ASSUME NEW c \in Readers, ListStore(c) PROVE CachesWithin'
  <2>1. \A id \in Ids : Within(id, all[c][id], age[c])
    BY <1>1, <1>6 DEF ListStore, Goes, ReadersWithin
  <2>2. UNCHANGED <<table, replaced, raw>> /\ list' = [rows |-> all[c], age |-> age[c]]
    BY <1>6 DEF ListStore
  <2>3. QED BY <1>1, <2>1, <2>2 DEF CachesWithin, Within
<1>7. ASSUME NEW w \in Writers, NEW id \in Ids, Save(w, id) \/ Delete(w, id)
      PROVE  CachesWithin'
  <2>1. UNCHANGED <<replaced, raw, list>>
    BY <1>7 DEF Save, Delete, Commit
  <2>2. \A i \in Ids : /\ table[i].version \in Int /\ table'[i].version \in Int
                       /\ table'[i].version >= table[i].version
    BY <1>7, CommitWithin
  <2>3. ASSUME NEW i \in Ids, NEW v \in Versions, v <= table[i].version
        PROVE  v <= table'[i].version
    BY <2>2, <2>3, Times DEF Versions
  <2>4. /\ \A i \in Ids : raw[i] # Empty => raw[i].row.version \in Versions
        /\ list # Empty => \A i \in Ids : list.rows[i].version \in Versions
    BY <1>1 DEF TypeOK, Present, Row, Rows
  <2>5. QED BY <1>1, <2>1, <2>3, <2>4 DEF CachesWithin, Within
<1>8. ASSUME NEW w \in Writers, Invalidate(w) PROVE CachesWithin'
  BY <1>8 DEF Invalidate, CachesWithin
<1>9. ASSUME NEW w \in Writers, WriterCancelled(w) PROVE CachesWithin'
  BY <1>2, <1>9 DEF WriterCancelled
<1>10. CASE Tick
  <2>1. ASSUME NEW id \in Ids, raw'[id] # Empty PROVE Within(id, raw[id].row, raw[id].age)'
    <3>1. raw[id] # Empty /\ raw'[id] = [raw[id] EXCEPT !.age = Older(@)]
      BY <1>10, <2>1 DEF Tick
    <3>2. raw[id] \in [row: Present, age: Ages]
      BY <1>1, <3>1 DEF TypeOK
    <3>3. /\ raw'[id].row = raw[id].row /\ raw'[id].age = Older(raw[id].age)
          /\ raw[id].row.version \in Versions /\ raw[id].age \in Ages
      BY <3>1, <3>2 DEF Present, Row
    <3>4. Within(id, raw[id].row, raw[id].age)
      BY <1>1, <3>1 DEF CachesWithin
    <3>5. QED BY <1>10, <3>3, <3>4, TickWithin DEF Within
  <2>2. ASSUME list' # Empty, NEW id \in Ids PROVE Within(id, list.rows[id], list.age)'
    <3>1. list # Empty /\ list' = [list EXCEPT !.age = Older(@)]
      BY <1>10, <2>2 DEF Tick
    <3>2. list \in [rows: Rows, age: Ages]
      BY <1>1, <3>1 DEF TypeOK
    <3>3. /\ list'.rows = list.rows /\ list'.age = Older(list.age)
          /\ list.rows[id].version \in Versions /\ list.age \in Ages
      BY <3>1, <3>2 DEF Rows, Row
    <3>4. Within(id, list.rows[id], list.age)
      BY <1>1, <3>1 DEF CachesWithin
    <3>5. QED BY <1>10, <3>3, <3>4, TickWithin DEF Within
  <2>3. QED BY <2>1, <2>2 DEF CachesWithin
<1>11. CASE UNCHANGED vars
  BY <1>2, <1>11 DEF vars
<1>12. QED
  BY <1>3, <1>4, <1>5, <1>6, <1>7, <1>8, <1>9, <1>10, <1>11 DEF Next

(* What is read is current, and then grows old with its reader. *)
LEMMA KeepsReadersWithin ==
  ASSUME IInv, [Next]_vars PROVE ReadersWithin'
<1>1. TypeOK /\ Ageless /\ CachesWithin /\ ReadersWithin
  BY DEF IInv
<1> DEFINE GotWithin(c) == got[c] \in Present /\ Within(want[c], got[c], age[c])
           AllWithin(c) == all[c] \in Rows /\ \A id \in Ids : Within(id, all[c][id], age[c])
(* What is left alone by a step of another reader. *)
<1>2. ASSUME UNCHANGED <<table, replaced>>, NEW c \in Readers, pc'[c] = pc[c],
             want'[c] = want[c], age'[c] = age[c], got'[c] = got[c], all'[c] = all[c]
      PROVE  /\ pc'[c] = "got" => GotWithin(c)'
             /\ pc'[c] = "listed" => AllWithin(c)'
  BY <1>1, <1>2 DEF ReadersWithin, Within
<1>3. ASSUME NEW c \in Readers, NEW id \in Ids, GetHit(c, id) \/ GetMiss(c, id)
      PROVE  ReadersWithin'
  <2>1. /\ UNCHANGED <<table, replaced>> /\ pc'[c] \in {"idle", "get"}
        /\ \A d \in Readers \ {c} : /\ pc'[d] = pc[d] /\ want'[d] = want[d] /\ age'[d] = age[d]
                                   /\ got'[d] = got[d] /\ all'[d] = all[d]
    BY <1>1, <1>3 DEF GetHit, GetMiss, Goes, TypeOK
  <2>2. QED BY <1>2, <2>1 DEF ReadersWithin
<1>4. ASSUME NEW c \in Readers,
             ListHit(c) \/ ListMiss(c) \/ GetStore(c) \/ ListStore(c) \/ ReaderCancelled(c)
      PROVE  ReadersWithin'
  <2>1. /\ UNCHANGED <<table, replaced>> /\ pc'[c] \notin {"got", "listed"}
        /\ \A d \in Readers \ {c} : /\ pc'[d] = pc[d] /\ want'[d] = want[d] /\ age'[d] = age[d]
                                   /\ got'[d] = got[d] /\ all'[d] = all[d]
    BY <1>1, <1>4 DEF ListHit, ListMiss, GetStore, ListStore, ReaderCancelled, Goes, TypeOK
  <2>2. QED BY <1>2, <2>1 DEF ReadersWithin
(* A row is read while it is current. *)
<1>5. ASSUME NEW c \in Readers PROVE age[c] \in Nat
  BY <1>1, Times DEF TypeOK
<1>6. ASSUME NEW id \in Ids, NEW n \in Nat PROVE Within(id, table[id], n)
  <2>1. table[id].version \in Versions /\ table[id].version \in Int
    BY <1>1, Times DEF TypeOK, Rows, Row, Versions
  <2>2. replaced[id][table[id].version] = 0
    BY <1>1, <2>1 DEF Ageless
  <2>3. QED BY <2>1, <2>2 DEF Within
<1>7. ASSUME NEW c \in Readers, GetRead(c) PROVE ReadersWithin'
  <2>1. /\ UNCHANGED <<table, replaced, want, age, all>>
        /\ \A d \in Readers \ {c} : pc'[d] = pc[d] /\ got'[d] = got[d]
        /\ \/ pc'[c] = "idle"
           \/ pc'[c] = "got" /\ got'[c] = table[want[c]] /\ table[want[c]].present
    BY <1>1, <1>7 DEF GetRead, Goes, TypeOK
  <2>2. want[c] \in Ids /\ table[want[c]] \in Row
    BY <1>1 DEF TypeOK, Rows
  <2>3. pc'[c] = "got" => GotWithin(c)'
    BY <1>5, <1>6, <2>1, <2>2 DEF Within, Present
  <2>4. QED BY <1>2, <2>1, <2>3 DEF ReadersWithin
<1>8. ASSUME NEW c \in Readers, ListRead(c) PROVE ReadersWithin'
  <2>1. /\ UNCHANGED <<table, replaced, want, age, got>>
        /\ \A d \in Readers \ {c} : pc'[d] = pc[d] /\ all'[d] = all[d]
        /\ pc'[c] = "listed" /\ all'[c] = table
    BY <1>1, <1>8 DEF ListRead, Goes, TypeOK
  <2>2. AllWithin(c)'
    BY <1>1, <1>5, <1>6, <2>1 DEF Within, TypeOK
  <2>3. QED BY <1>2, <2>1, <2>2 DEF ReadersWithin
<1>9. /\ \A c \in Readers : pc[c] = "got" => want[c] \in Ids /\ got[c].version \in Versions
      /\ \A c \in Readers, id \in Ids : pc[c] = "listed" => all[c][id].version \in Versions
  BY <1>1 DEF TypeOK, ReadersWithin, Present, Row, Rows
<1>10. ASSUME NEW w \in Writers, NEW id \in Ids, Save(w, id) \/ Delete(w, id)
       PROVE  ReadersWithin'
  <2>1. UNCHANGED <<replaced, pc, want, age, got, all>>
    BY <1>10 DEF Save, Delete, Commit
  <2>2. \A i \in Ids : /\ table[i].version \in Int /\ table'[i].version \in Int
                       /\ table'[i].version >= table[i].version
    BY <1>10, CommitWithin
  <2>3. ASSUME NEW i \in Ids, NEW v \in Versions, v <= table[i].version
        PROVE  v <= table'[i].version
    BY <2>2, <2>3, Times DEF Versions
  <2>4. QED BY <1>1, <1>9, <2>1, <2>3 DEF ReadersWithin, Within
<1>11. ASSUME NEW w \in Writers, Invalidate(w) \/ WriterCancelled(w) PROVE ReadersWithin'
  BY <1>2, <1>11 DEF Invalidate, WriterCancelled, ReadersWithin
<1>12. CASE Tick
  <2>1. UNCHANGED <<table, pc, want, got, all>>
    BY <1>12 DEF Tick
  <2>2. ASSUME NEW c \in Readers, pc[c] \in Reading
        PROVE  age'[c] = age[c] + 1 /\ age[c] \in Ages
    BY <1>1, <1>12, <2>2, Times DEF Tick, TypeOK, Ages
  <2>3. ASSUME NEW c \in Readers, pc[c] = "got" PROVE GotWithin(c)'
    <3>1. Within(want[c], got[c], age[c]) /\ got[c] \in Present
      BY <1>1, <2>3 DEF ReadersWithin
    <3>2. age'[c] = age[c] + 1 /\ age[c] \in Ages
      BY <2>2, <2>3 DEF Reading
    <3>3. QED BY <1>9, <1>12, <2>1, <2>3, <3>1, <3>2, TickWithin DEF Within
  <2>4. ASSUME NEW c \in Readers, pc[c] = "listed" PROVE AllWithin(c)'
    <3>1. all[c] \in Rows /\ \A id \in Ids : Within(id, all[c][id], age[c])
      BY <1>1, <2>4 DEF ReadersWithin
    <3>2. age'[c] = age[c] + 1 /\ age[c] \in Ages
      BY <2>2, <2>4 DEF Reading
    <3>3. QED BY <1>9, <1>12, <2>1, <2>4, <3>1, <3>2, TickWithin DEF Within
  <2>5. QED BY <2>1, <2>3, <2>4 DEF ReadersWithin
<1>13. CASE UNCHANGED vars
  BY <1>2, <1>13 DEF vars, ReadersWithin
<1>14. QED
  BY <1>3, <1>4, <1>7, <1>8, <1>10, <1>11, <1>12, <1>13 DEF Next

(* Nothing as old as the time to live is served.                           *)
LEMMA KeepsFresh ==
  ASSUME IInv, [Next]_vars PROVE ServedFresh'
<1>1. TypeOK /\ CachesWithin /\ ReadersWithin /\ lag < TTL
  BY DEF IInv, ServedFresh
<1>2. ASSUME NEW id \in Ids, NEW row, NEW n \in Int, row.version \in Versions,
             Within(id, row, n), n < TTL
      PROVE  Lag(id, row) < TTL
  <2>1. replaced[id][row.version] \in Int /\ replaced[id][row.version] < TTL
    BY <1>1, <1>2, Times DEF Within, TypeOK, Ages
  <2>2. QED BY <2>1, Times DEF Lag
<1>3. ASSUME NEW c \in Readers, NEW id \in Ids, GetHit(c, id) PROVE ServedFresh'
  <2>1. /\ raw[id] \in [row: Present, age: Ages] /\ raw[id].age < TTL
        /\ Within(id, raw[id].row, raw[id].age)
    BY <1>1, <1>3 DEF GetHit, Fresh, TypeOK, CachesWithin
  <2>2. raw[id].row.version \in Versions /\ raw[id].age \in Int
    BY <2>1, Times DEF Present, Row, Ages
  <2>3. QED BY <1>2, <1>3, <2>1, <2>2 DEF GetHit, ServedFresh
<1>4. ASSUME NEW c \in Readers, GetStore(c) PROVE ServedFresh'
  <2>1. /\ got[c] \in Present /\ Within(want[c], got[c], age[c])
        /\ want[c] \in Ids /\ age[c] \in 0..ReadTicks
    BY <1>1, <1>4 DEF GetStore, Goes, ReadersWithin, TypeOK
  <2>2. got[c].version \in Versions /\ age[c] \in Int /\ age[c] < TTL
    BY <2>1, Times DEF Present, Row
  <2>3. QED BY <1>2, <1>4, <2>1, <2>2 DEF GetStore, ServedFresh
<1>5. ASSUME NEW c \in Readers, ListHit(c) PROVE ServedFresh'
  <2>1. /\ list \in [rows: Rows, age: Ages] /\ list.age < TTL
        /\ \A id \in Ids : Within(id, list.rows[id], list.age)
    BY <1>1, <1>5 DEF ListHit, Fresh, TypeOK, CachesWithin
  <2>2. list.age \in Int /\ \A id \in Ids : list.rows[id].version \in Versions
    BY <2>1, Times DEF Rows, Row, Ages
  <2>3. PICK id \in Ids : lag' = Lag(id, list.rows[id])
    BY <1>5 DEF ListHit, ServesOneOf
  <2>4. QED BY <1>2, <2>1, <2>2, <2>3 DEF ServedFresh
<1>6. ASSUME NEW c \in Readers, ListStore(c) PROVE ServedFresh'
  <2>1. /\ all[c] \in Rows /\ age[c] \in 0..ReadTicks
        /\ \A id \in Ids : Within(id, all[c][id], age[c])
    BY <1>1, <1>6 DEF ListStore, Goes, ReadersWithin, TypeOK
  <2>2. /\ age[c] \in Int /\ age[c] < TTL
        /\ \A id \in Ids : all[c][id].version \in Versions
    BY <2>1, Times DEF Rows, Row
  <2>3. PICK id \in Ids : lag' = Lag(id, all[c][id])
    BY <1>6 DEF ListStore, ServesOneOf
  <2>4. QED BY <1>2, <2>1, <2>2, <2>3 DEF ServedFresh
<1>7. lag' = lag => ServedFresh'
  BY <1>1 DEF ServedFresh
<1>8. ASSUME NEW c \in Readers, NEW id \in Ids,
             GetMiss(c, id) \/ GetRead(c) \/ ListMiss(c) \/ ListRead(c) \/ ReaderCancelled(c)
      PROVE  lag' = lag
  BY <1>8 DEF GetMiss, GetRead, ListMiss, ListRead, ReaderCancelled
<1>9. ASSUME NEW c \in Readers,
             GetRead(c) \/ ListMiss(c) \/ ListRead(c) \/ ReaderCancelled(c)
      PROVE  lag' = lag
  BY <1>9 DEF GetRead, ListMiss, ListRead, ReaderCancelled
<1>10. ASSUME NEW w \in Writers, NEW id \in Ids, Save(w, id) \/ Delete(w, id) PROVE lag' = lag
  BY <1>10 DEF Save, Delete, Commit
<1>11. ASSUME NEW w \in Writers, Invalidate(w) \/ WriterCancelled(w) PROVE lag' = lag
  BY <1>11 DEF Invalidate, WriterCancelled
<1>12. CASE Tick \/ UNCHANGED vars
  BY <1>7, <1>12 DEF Tick, vars
<1>13. QED
  BY <1>3, <1>4, <1>5, <1>6, <1>7, <1>8, <1>9, <1>10, <1>11, <1>12 DEF Next

-----------------------------------------------------------------------------
(* What pairs keys with references in the table does so in what is read    *)
(* and cached of it.                                                       *)
LEMMA KeepsPaired ==
  ASSUME IInv, [Next]_vars PROVE AllPaired'
<1>1. TypeOK /\ AllPaired
  BY DEF IInv
<1>2. ASSUME UNCHANGED <<table, raw>>,
             \A c \in Readers : pc'[c] = "got" => pc[c] = "got" /\ got'[c] = got[c]
      PROVE  AllPaired'
  BY <1>1, <1>2 DEF AllPaired, Paired
<1>3. ASSUME NEW c \in Readers, NEW id \in Ids, GetHit(c, id) \/ GetMiss(c, id)
      PROVE  AllPaired'
  BY <1>1, <1>2, <1>3 DEF GetHit, GetMiss, Goes, TypeOK
<1>4. ASSUME NEW c \in Readers,
             ListHit(c) \/ ListMiss(c) \/ ListRead(c) \/ ListStore(c) \/ ReaderCancelled(c)
      PROVE  AllPaired'
  BY <1>1, <1>2, <1>4 DEF ListHit, ListMiss, ListRead, ListStore, ReaderCancelled, Goes, TypeOK
<1>5. ASSUME NEW c \in Readers, GetRead(c) PROVE AllPaired'
  <2>1. /\ UNCHANGED <<table, raw>> /\ want[c] \in Ids
        /\ \A d \in Readers \ {c} : pc'[d] = pc[d] /\ got'[d] = got[d]
        /\ pc'[c] = "got" => got'[c] = table[want[c]]
    BY <1>1, <1>5 DEF GetRead, Goes, TypeOK
  <2>2. QED BY <1>1, <2>1 DEF AllPaired, Paired
<1>6. ASSUME NEW c \in Readers, GetStore(c) PROVE AllPaired'
  <2>1. /\ pc[c] = "got" /\ pc'[c] = "idle" /\ table' = table
        /\ \A d \in Readers \ {c} : pc'[d] = pc[d] /\ got'[d] = got[d]
        /\ \A id \in Ids : raw'[id] = raw[id] \/ raw'[id].row = got[c]
    BY <1>1, <1>6 DEF GetStore, Goes, TypeOK
  <2>2. QED BY <1>1, <2>1 DEF AllPaired, Paired
<1>7. ASSUME NEW w \in Writers, NEW id \in Ids, Save(w, id) \/ Delete(w, id) PROVE AllPaired'
  <2>1. PICK row \in Row : Commit(w, id, row) /\ (Paired(table[id]) => Paired(row))
    BY <1>1, <1>7, Commits
  <2>2. /\ UNCHANGED <<pc, got, raw>>
        /\ \A i \in Ids : table'[i] = table[i] \/ (table'[i] = row /\ Paired(table[id]))
    BY <1>1, <2>1 DEF Commit, TypeOK, Rows, AllPaired
  <2>3. QED BY <1>1, <2>1, <2>2 DEF AllPaired, Paired
<1>8. ASSUME NEW w \in Writers, Invalidate(w) PROVE AllPaired'
  BY <1>1, <1>8 DEF Invalidate, AllPaired, Paired
<1>9. ASSUME NEW w \in Writers, WriterCancelled(w) PROVE AllPaired'
  BY <1>2, <1>9 DEF WriterCancelled
<1>10. CASE Tick
  <2>1. /\ UNCHANGED <<table, pc, got>>
        /\ \A id \in Ids : raw'[id] = IF raw[id] = Empty THEN Empty
                                      ELSE [raw[id] EXCEPT !.age = Older(@)]
    BY <1>10 DEF Tick
  <2>2. ASSUME NEW id \in Ids, raw'[id] # Empty
        PROVE  raw[id] # Empty /\ raw'[id].row = raw[id].row
    <3>1. raw[id] # Empty /\ raw'[id] = [raw[id] EXCEPT !.age = Older(@)]
      BY <2>1, <2>2
    <3>2. raw[id] \in [row: Present, age: Ages]
      BY <1>1, <3>1 DEF TypeOK
    <3>3. QED BY <3>1, <3>2
  <2>3. QED BY <1>1, <2>1, <2>2 DEF AllPaired, Paired
<1>11. CASE UNCHANGED vars
  BY <1>2, <1>11 DEF vars
<1>12. QED
  BY <1>3, <1>4, <1>5, <1>6, <1>7, <1>8, <1>9, <1>10, <1>11 DEF Next

-----------------------------------------------------------------------------
(* A cache goes stale by a commit, whose writer is then under way; a       *)
(* writer that leaves has put on record what it leaves behind; and so has  *)
(* a reader that stores what is no longer current.                         *)
LEMMA KeepsStaleKnown ==
  ASSUME IInv, [Next]_vars PROVE StaleKnown'
<1>1. TypeOK /\ StaleKnown /\ ReadersWithin
  BY DEF IInv
<1>2. ASSUME UNCHANGED <<table, raw, list, writer, raced>> PROVE StaleKnown'
  BY <1>1, <1>2 DEF StaleKnown, RawStale, ListStale, Current
<1>3. ASSUME NEW c \in Readers, NEW id \in Ids, GetHit(c, id) \/ GetMiss(c, id)
      PROVE  StaleKnown'
  BY <1>2, <1>3 DEF GetHit, GetMiss
<1>4. ASSUME NEW c \in Readers,
             GetRead(c) \/ ListHit(c) \/ ListMiss(c) \/ ListRead(c) \/ ReaderCancelled(c)
      PROVE  StaleKnown'
  BY <1>2, <1>4 DEF GetRead, ListHit, ListMiss, ListRead, ReaderCancelled
<1>5. ASSUME NEW c \in Readers, GetStore(c) PROVE StaleKnown'
  <2>1. want[c] \in Ids /\ want[c] # Empty
    BY <1>1, EmptyAssumption DEF TypeOK
  <2>2. /\ UNCHANGED <<table, list, writer>>
        /\ \A id \in Ids : raw'[id] = raw[id]
                           \/ (id = want[c] /\ raw'[id].row = got[c])
        /\ raced' = IF Current(want[c], got[c])
                    THEN raced \ {want[c]} ELSE raced \cup {want[c]}
        /\ raw'[want[c]].row = got[c]
    BY <1>1, <1>5, <2>1 DEF GetStore, TypeOK, Races
  <2>3. ListStale' <=> ListStale
    BY <2>2 DEF ListStale, Current
  <2>4. Empty \in raced => Empty \in raced'
    BY <2>1, <2>2
  <2>5. ASSUME NEW id \in Ids, RawStale(id)', id # want[c]
        PROVE  RawStale(id) /\ (id \in raced => id \in raced')
    BY <2>2, <2>5 DEF RawStale, Current
  <2>6. ASSUME NEW id \in Ids, RawStale(id)', id \in raced \/ id = want[c] PROVE id \in raced'
    <3>1. CASE id = want[c]
      <4>1. raw'[want[c]] # Empty /\ got[c].version # table[want[c]].version
        BY <2>2, <2>6, <3>1 DEF RawStale, Current
      <4>2. QED BY <2>2, <3>1, <4>1 DEF Current
    <3>2. QED BY <2>5, <2>6, <3>1
  <2>7. \A id \in Ids : RawStale(id)' => id = want[c] \/ RawStale(id)
    BY <2>5
  <2>8. QED BY <1>1, <2>2, <2>3, <2>4, <2>6, <2>7 DEF StaleKnown
<1>6. ASSUME NEW c \in Readers, ListStore(c) PROVE StaleKnown'
  <2>1. /\ UNCHANGED <<table, raw, writer>> /\ list'.rows = all[c]
        /\ raced' = IF \A id \in Ids : Current(id, all[c][id])
                    THEN raced \ {Empty} ELSE raced \cup {Empty}
    BY <1>6 DEF ListStore, Races
  <2>2. \A id \in Ids : /\ RawStale(id)' <=> RawStale(id)
                        /\ id \in raced => id \in raced'
    BY <2>1, EmptyAssumption DEF RawStale, Current
  <2>3. ListStale' => Empty \in raced'
    BY <2>1 DEF ListStale, Current
  <2>4. QED BY <1>1, <2>1, <2>2, <2>3 DEF StaleKnown
<1>7. ASSUME NEW w \in Writers, NEW id \in Ids, Save(w, id) \/ Delete(w, id) PROVE StaleKnown'
  <2>1. writer'[w] = "committed"
    BY <1>1, <1>7 DEF Save, Delete, Commit, TypeOK
  <2>2. QED BY <2>1 DEF StaleKnown
<1>8. ASSUME NEW w \in Writers, Invalidate(w) PROVE StaleKnown'
  BY <1>8 DEF Invalidate, StaleKnown, RawStale, ListStale
<1>9. ASSUME NEW w \in Writers, WriterCancelled(w) PROVE StaleKnown'
  <2>1. /\ UNCHANGED <<table, raw, list>>
        /\ raced' = raced \cup {id \in Ids : RawStale(id)}
                          \cup (IF ListStale THEN {Empty} ELSE {})
    BY <1>9 DEF WriterCancelled
  <2>2. (ListStale' <=> ListStale) /\ \A id \in Ids : RawStale(id)' <=> RawStale(id)
    BY <2>1 DEF RawStale, ListStale, Current
  <2>3. QED BY <2>1, <2>2 DEF StaleKnown
<1>10. CASE Tick
  <2>1. /\ UNCHANGED <<table, writer, raced>>
        /\ \A id \in Ids : raw'[id] = IF raw[id] = Empty THEN Empty
                                      ELSE [raw[id] EXCEPT !.age = Older(@)]
        /\ list' = IF list = Empty THEN Empty ELSE [list EXCEPT !.age = Older(@)]
    BY <1>10 DEF Tick
  <2>2. ASSUME NEW id \in Ids, raw'[id] # Empty
        PROVE  raw[id] # Empty /\ raw'[id].row = raw[id].row
    <3>1. raw[id] # Empty /\ raw'[id] = [raw[id] EXCEPT !.age = Older(@)]
      BY <2>1, <2>2
    <3>2. raw[id] \in [row: Present, age: Ages]
      BY <1>1, <3>1 DEF TypeOK
    <3>3. QED BY <3>1, <3>2
  <2>3. list' # Empty => list # Empty /\ list'.rows = list.rows
    BY <1>1, <2>1 DEF TypeOK
  <2>4. (ListStale' => ListStale) /\ \A id \in Ids : RawStale(id)' => RawStale(id)
    BY <2>1, <2>2, <2>3 DEF RawStale, ListStale, Current
  <2>5. QED BY <1>1, <2>1, <2>4 DEF StaleKnown
<1>11. CASE UNCHANGED vars
  BY <1>2, <1>11 DEF vars
<1>12. QED
  BY <1>3, <1>4, <1>5, <1>6, <1>7, <1>8, <1>9, <1>10, <1>11 DEF Next

-----------------------------------------------------------------------------
(* An empty table with nothing cached of it is in the invariant. *)
LEMMA Starts == ASSUME Init PROVE IInv
<1>1. 0 \in Ages /\ 0 \in Versions /\ 0 \in 0..ReadTicks /\ 0 < TTL
  BY Times DEF Ages, Versions
<1>2. TypeOK
  BY <1>1 DEF Init, TypeOK, Rows, Row
<1>3. Ageless /\ CachesWithin /\ ReadersWithin
  BY DEF Init, Ageless, CachesWithin, ReadersWithin
<1>4. AllPaired
  BY DEF Init, AllPaired, Paired
<1>5. StaleKnown /\ ServedFresh
  BY <1>1 DEF Init, StaleKnown, RawStale, ListStale, ServedFresh
<1>6. QED BY <1>2, <1>3, <1>4, <1>5 DEF IInv

(* The inductive invariant: how far what is cached or held by a reader     *)
(* lies in the past, and which race accounts for what is outdated.         *)
THEOREM Invariance == Spec => []IInv
<1>1. Init => IInv
  BY Starts
<1>2. IInv /\ [Next]_vars => IInv'
  BY KeepsTypes, KeepsAgeless, KeepsCachesWithin, KeepsReadersWithin, KeepsFresh,
     KeepsPaired, KeepsStaleKnown
  DEF IInv
<1>3. QED BY <1>1, <1>2, PTL DEF Spec

(* Whatever is served was in the table less than one TTL ago               *)
(* (providers.py:19-20), however reads and writes overtake each other.     *)
THEOREM NothingOldIsServed == Spec => []ServedFresh
<1>1. IInv => ServedFresh
  BY DEF IInv
<1>2. QED BY <1>1, Invariance, PTL

(* With no writer under way a cache disagrees with the table only after a  *)
(* race that is on record.                                                 *)
THEOREM StaleIsARace == Spec => []StaleOnlyByRace
<1>1. IInv => StaleOnlyByRace
  BY DEF IInv, StaleKnown, StaleOnlyByRace
<1>2. QED BY <1>1, Invariance, PTL

(* No sequence of saves leaves a key beside a reference that was saved     *)
(* later, in the table or in the cache.                                    *)
THEOREM KeysAreCurrent == Spec => []KeyDoesNotShadowRef
<1>1. IInv => KeyDoesNotShadowRef
  BY DEF IInv, AllPaired, Paired, KeyDoesNotShadowRef
<1>2. QED BY <1>1, Invariance, PTL
=============================================================================
