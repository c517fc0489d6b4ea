---------------------------- MODULE ProviderCache ----------------------------
(***************************************************************************)
(* store/providers.py: the table of providers and the two caches in front  *)
(* of it, one per id (get_provider) and one for the list (list_providers). *)
(* A reader takes the time, finds a fresh entry or reads the table, and    *)
(* stores what it has read under the time it took first; a writer commits  *)
(* and then drops both caches.  Everything between two awaits is a step.   *)
(***************************************************************************)
EXTENDS Integers, FiniteSets

CONSTANTS
  Ids,       \* provider ids
  Readers, Writers,
  Empty,     \* nothing cached, nothing read
  TTL,       \* _PROVIDER_CACHE_TTL in ticks
  ReadTicks, \* how long a reader may be between its two awaits
  MaxWrites  \* bound: saves and deletes of one provider

ASSUME ReadsAssumption == TTL \in Nat /\ ReadTicks \in Nat /\ ReadTicks < TTL
ASSUME WritesAssumption == MaxWrites \in Nat
ASSUME EmptyAssumption == Empty \notin Ids

VARIABLES
  table,    \* providers, by id
  replaced, \* history: time since a version of a row was replaced
  raw,      \* _provider_cache_raw with _provider_cache_raw_time
  list,     \* _provider_cache with _provider_cache_time
  pc,       \* per reader: where it is
  want,     \* per reader: the id it gets
  age,      \* per reader: time since it took `now`
  got,      \* per reader: the row it has read
  all,      \* per reader: the rows it has read for the list
  writer,   \* per writer: idle, or committed and not yet invalidated
  raced,    \* history: the caches that hold what a race has left there
  lag       \* history: how outdated was what was served last

vars == <<table, replaced, raw, list, pc, want, age, got, all,
          writer, raced, lag>>

(* A row counts its writes; key and ref are the writes that have brought   *)
(* enc_key and api_key_ref, 0 for NULL.                                    *)
Versions == 0..MaxWrites
Row == [version: Versions, present: BOOLEAN, key: Versions, ref: Versions]
Present == {row \in Row : row.present}
Rows == [Ids -> Row]
Ages == 0..TTL

TypeOK ==
  /\ table \in Rows
  /\ replaced \in [Ids -> [Versions -> Ages]]
  /\ raw \in [Ids -> [row: Present, age: Ages] \cup {Empty}]
  /\ list \in [rows: Rows, age: Ages] \cup {Empty}
  /\ pc \in [Readers -> {"idle", "get", "got", "list", "listed", "chosen"}]
  /\ want \in [Readers -> Ids]
  /\ age \in [Readers -> 0..ReadTicks]
  /\ got \in [Readers -> Present \cup {Empty}]
  /\ all \in [Readers -> Rows \cup {Empty}]
  /\ writer \in [Writers -> {"idle", "committed"}]
  /\ raced \subseteq Ids \cup {Empty}
  /\ lag \in Ages

Init ==
  /\ table = [id \in Ids |-> [version |-> 0, present |-> FALSE, key |-> 0, ref |-> 0]]
  /\ replaced = [id \in Ids |-> [v \in Versions |-> 0]]
  /\ raw = [id \in Ids |-> Empty]
  /\ list = Empty
  /\ pc = [c \in Readers |-> "idle"]
  /\ want \in [Readers -> Ids]
  /\ age = [c \in Readers |-> 0]
  /\ got = [c \in Readers |-> Empty]
  /\ all = [c \in Readers |-> Empty]
  /\ writer = [w \in Writers |-> "idle"]
  /\ raced = {}
  /\ lag = 0
-----------------------------------------------------------------------------
Goes(c, from, to) == pc[c] \in from /\ pc' = [pc EXCEPT ![c] = to]

Current(id, row) == row.version = table[id].version
Lag(id, row) == IF Current(id, row) THEN 0 ELSE replaced[id][row.version]
ServesOneOf(rows) == \E id \in Ids : lag' = Lag(id, rows[id])

Fresh(entry) == entry # Empty /\ entry.age < TTL

(* get_provider, alone (idle) or at the end of a resolve (chosen): a fresh *)
(* entry is served at once.                                                *)
GetHit(c, id) ==
  /\ Goes(c, {"idle", "chosen"}, "idle")
  /\ Fresh(raw[id])
  /\ lag' = Lag(id, raw[id].row)
  /\ UNCHANGED <<table, replaced, raw, list, want, age, got, all, writer, raced>>

GetMiss(c, id) ==
  /\ Goes(c, {"idle", "chosen"}, "get")
  /\ ~Fresh(raw[id])
  /\ want' = [want EXCEPT ![c] = id]
  /\ age' = [age EXCEPT ![c] = 0]
  /\ UNCHANGED <<table, replaced, raw, list, got, all, writer, raced, lag>>

(* The SELECT; a missing row is not cached. *)
GetRead(c) ==
  /\ IF table[want[c]].present
     THEN Goes(c, {"get"}, "got") /\ got' = [got EXCEPT ![c] = table[want[c]]]
     ELSE Goes(c, {"get"}, "idle") /\ UNCHANGED got
  /\ UNCHANGED <<table, replaced, raw, list, want, age, all, writer, raced, lag>>

(* The cache x now holds what is current, or a race has left it outdated.  *)
Races(x, current) == raced' = IF current THEN raced \ {x} ELSE raced \cup {x}

(* Mutant: the entry's time is taken after the read. *)
GetStoreLate(c) ==
  /\ Goes(c, {"got"}, "idle")
  /\ raw' = [raw EXCEPT ![want[c]] = [row |-> got[c], age |-> 0]]
  /\ got' = [got EXCEPT ![c] = Empty]
  /\ age' = [age EXCEPT ![c] = 0]
  /\ lag' = Lag(want[c], got[c])
  /\ Races(want[c], Current(want[c], got[c]))
  /\ UNCHANGED <<table, replaced, list, want, all, writer>>

GetStore(c) ==
  /\ Goes(c, {"got"}, "idle")
  /\ raw' = [raw EXCEPT ![want[c]] = [row |-> got[c], age |-> age[c]]]
  /\ got' = [got EXCEPT ![c] = Empty]
  /\ age' = [age EXCEPT ![c] = 0]
  /\ lag' = Lag(want[c], got[c])
  /\ Races(want[c], Current(want[c], got[c]))
  /\ UNCHANGED <<table, replaced, list, want, all, writer>>
-----------------------------------------------------------------------------
(* list_providers, and what resolve_provider_for_model does with it: the   *)
(* list, and then, if it wants one, the provider that the list, the        *)
(* prefix of the model or the default names.                               *)
ListHit(c) ==
  /\ \E place \in {"idle", "chosen"} : Goes(c, {"idle"}, place)
  /\ Fresh(list)
  /\ ServesOneOf(list.rows)
  /\ UNCHANGED <<table, replaced, raw, list, want, age, got, all, writer, raced>>

ListMiss(c) ==
  /\ Goes(c, {"idle"}, "list")
  /\ ~Fresh(list)
  /\ age' = [age EXCEPT ![c] = 0]
  /\ UNCHANGED <<table, replaced, raw, list, want, got, all, writer, raced, lag>>

ListRead(c) ==
  /\ Goes(c, {"list"}, "listed")
  /\ all' = [all EXCEPT ![c] = table]
  /\ UNCHANGED <<table, replaced, raw, list, want, age, got, writer, raced, lag>>

ListStore(c) ==
  /\ \E place \in {"idle", "chosen"} : Goes(c, {"listed"}, place)
  /\ list' = [rows |-> all[c], age |-> age[c]]
  /\ all' = [all EXCEPT ![c] = Empty]
  /\ age' = [age EXCEPT ![c] = 0]
  /\ ServesOneOf(all[c])
  /\ Races(Empty, \A id \in Ids : Current(id, all[c][id]))
  /\ UNCHANGED <<table, replaced, raw, want, got, writer>>

(* A reader is cancelled at one of its awaits. *)
ReaderCancelled(c) ==
  /\ Goes(c, {"get", "got", "list", "listed"}, "idle")
  /\ got' = [got EXCEPT ![c] = Empty]
  /\ all' = [all EXCEPT ![c] = Empty]
  /\ age' = [age EXCEPT ![c] = 0]
  /\ UNCHANGED <<table, replaced, raw, list, want, writer, raced, lag>>
-----------------------------------------------------------------------------
(* Mutant: a save without inline key always keeps the stored one. *)
NewRowKeeping(row, inline, ref) ==
  LET v == row.version + 1 IN
  [version |-> v, present |-> TRUE,
   key |-> IF inline THEN v ELSE row.key, ref |-> IF ref THEN v ELSE 0]

(* An inline key is stored; a reference without one clears the stored key; *)
(* neither keeps it.                                                       *)
NewRow(row, inline, ref) ==
  LET v == row.version + 1 IN
  [version |-> v, present |-> TRUE,
   key |-> IF inline THEN v ELSE IF ref THEN 0 ELSE row.key,
   ref |-> IF ref THEN v ELSE 0]

(* Mutant: a delete forgets the caches. *)
CommitQuietly(w, id, row) ==
  /\ writer[w] = "idle"
  /\ table[id].version < MaxWrites
  /\ table' = [table EXCEPT ![id] = row]
  /\ writer' = [writer EXCEPT ![w] = IF row.present THEN "committed" ELSE "idle"]
  /\ UNCHANGED <<replaced, raw, list, pc, want, age, got, all, raced, lag>>

(* db.commit *)
Commit(w, id, row) ==
  /\ writer[w] = "idle"
  /\ table[id].version < MaxWrites
  /\ table' = [table EXCEPT ![id] = row]
  /\ writer' = [writer EXCEPT ![w] = "committed"]
  /\ UNCHANGED <<replaced, raw, list, pc, want, age, got, all, raced, lag>>

Save(w, id) ==
  \E inline, ref \in BOOLEAN : Commit(w, id, NewRow(table[id], inline, ref))

(* A delete of a row that is not there commits and invalidates as well. *)
Gone(row) ==
  IF row.present
  THEN [version |-> row.version + 1, present |-> FALSE, key |-> 0, ref |-> 0]
  ELSE row

Delete(w, id) == Commit(w, id, Gone(table[id]))

(* _invalidate_provider_cache, after the connection has been closed. *)
Invalidate(w) ==
  /\ writer[w] = "committed"
  /\ writer' = [writer EXCEPT ![w] = "idle"]
  /\ raw' = [id \in Ids |-> Empty]
  /\ list' = Empty
  /\ raced' = {}
  /\ UNCHANGED <<table, replaced, pc, want, age, got, all, lag>>

RawStale(id) == raw[id] # Empty /\ ~Current(id, raw[id].row)
ListStale == list # Empty /\ \E id \in Ids : ~Current(id, list.rows[id])

(* The writer is cancelled after its commit: nothing is invalidated. *)
WriterCancelled(w) ==
  /\ writer[w] = "committed"
  /\ writer' = [writer EXCEPT ![w] = "idle"]
  /\ raced' = raced \cup {id \in Ids : RawStale(id)} \cup (IF ListStale THEN {Empty} ELSE {})
  /\ UNCHANGED <<table, replaced, raw, list, pc, want, age, got, all, lag>>

Reading == {"get", "got", "list", "listed"}
Older(n) == IF n < TTL THEN n + 1 ELSE n

(* A read of the table takes at most ReadTicks. *)
Tick ==
  /\ \A c \in Readers : pc[c] \in Reading => age[c] < ReadTicks
  /\ age' = [c \in Readers |-> IF pc[c] \in Reading THEN age[c] + 1 ELSE age[c]]
  /\ replaced' = [id \in Ids |-> [v \in Versions |->
       IF v < table[id].version THEN Older(replaced[id][v]) ELSE replaced[id][v]]]
  /\ raw' = [id \in Ids |->
       IF raw[id] = Empty THEN Empty ELSE [raw[id] EXCEPT !.age = Older(@)]]
  /\ list' = IF list = Empty THEN Empty ELSE [list EXCEPT !.age = Older(@)]
  /\ UNCHANGED <<table, pc, want, got, all, writer, raced, lag>>

Next ==
  \/ \E c \in Readers :
       \/ \E id \in Ids : GetHit(c, id) \/ GetMiss(c, id)
       \/ GetRead(c) \/ GetStore(c)
       \/ ListHit(c) \/ ListMiss(c) \/ ListRead(c) \/ ListStore(c)
       \/ ReaderCancelled(c)
  \/ \E w \in Writers : \/ \E id \in Ids : Save(w, id) \/ Delete(w, id)
                        \/ Invalidate(w) \/ WriterCancelled(w)
  \/ Tick

Spec == Init /\ [][Next]_vars
-----------------------------------------------------------------------------
(* Whatever is served, from a cache or from a read that a write has        *)
(* overtaken, was in the table less than one TTL ago (providers.py:19-20): *)
(* an entry is as old as the time its reader took before it read.          *)
ServedFresh == lag < TTL

(* "Invalidated on every save/delete" (providers.py:20): a cache disagrees *)
(* with the table only while a writer is on its way to the invalidation,   *)
(* after a writer that was cancelled on that way, or after a reader that   *)
(* was overtaken by a whole write.                                         *)
StaleOnlyByRace ==
  (\A w \in Writers : writer[w] = "idle") =>
    /\ \A id \in Ids : RawStale(id) => id \in raced
    /\ ListStale => Empty \in raced

(* A key is never used in preference to a reference that was saved later   *)
(* ("so a stale secret is not used", providers.py:219-221): where both are *)
(* present they were saved together, after any sequence of saves, in the   *)
(* table and in the cache.                                                 *)
KeyDoesNotShadowRef == TypeOK /\
  \A id \in Ids :
    \A row \in {table[id]} \cup (IF raw[id] = Empty THEN {} ELSE {raw[id].row}) :
      row.key # 0 /\ row.ref # 0 => row.key = row.ref
=============================================================================
