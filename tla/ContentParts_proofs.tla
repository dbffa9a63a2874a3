-------------------------- MODULE ContentParts_proofs --------------------------
(***************************************************************************)
(* Proofs about what administrators enter and what users are told of it:   *)
(* the planner's response cache by itself (Spec), and, over the behaviours *)
(* of any of the parts (PartsSpec), the saves of places, the daily digest, *)
(* the imports of the calendar and the imports of locations.               *)
(***************************************************************************)
EXTENDS ContentParts, FiniteSetTheorems, WellFoundedInduction, TLAPS

-----------------------------------------------------------------------------
(* The planner's response cache                                            *)

\* The versions map of an answer under way keeps its type when a table is read.
LEMMA QueryTyped ==
    ASSUME TypeOK, NEW q \in Readers, NEW t \in Tables, reader[q].at = "query",
           NEW at \in {"query", "set"}
    PROVE  [reader[q] EXCEPT !.value[t] = version[t], !.unread = @ \ {t},
                             !.at = at] \in Reader
<1>1. reader[q] \in Reader
  BY DEF TypeOK
<1>2. version[t] \in Nat
  BY DEF TypeOK, Versions
<1> QED BY <1>1, <1>2 DEF Reader, Versions

\* Every state is well-typed: an entry's time left never leaves -1..TTL.
THEOREM TypeCorrect == Spec => []TypeOK
<1>1. Init => TypeOK
  BY PlannerAssumption DEF Init, TypeOK, Start, Versions, NoEntry, Entry
<1>2. TypeOK /\ [Next]_vars => TypeOK'
  <2> SUFFICES ASSUME TypeOK, [Next]_vars PROVE TypeOK'
    OBVIOUS
  <2> USE PlannerAssumption
  <2>0. NoEntry \in Entry
    BY DEF NoEntry, Entry, Start, Versions
  <2>1. ASSUME NEW q \in Readers, NEW k \in Keys, Ask(q, k) PROVE TypeOK'
    <3>1. [at |-> "query", key |-> k, unread |-> Reads[k], value |-> Start] \in Reader
      BY DEF Reader, Start, Versions
    <3>2. store' \in [Keys -> Entry] /\ missed' \in SUBSET Readers
      BY <2>0, <2>1 DEF Ask, TypeOK
    <3>3. reader' \in [Readers -> Reader \cup {[at |-> "idle"]}]
      BY <2>1, <3>1 DEF Ask, TypeOK
    <3> QED BY <2>1, <3>2, <3>3 DEF Ask, TypeOK
  <2>2. ASSUME NEW q \in Readers, NEW t \in Tables, Query(q, t) PROVE TypeOK'
    <3> DEFINE next == IF reader[q].unread = {t} THEN "set" ELSE "query"
               r == [reader[q] EXCEPT !.value[t] = version[t],
                                      !.unread = @ \ {t}, !.at = next]
    <3>1. reader[q].at = "query"
      BY <2>2 DEF Query
    <3>2. r \in Reader
      BY <3>1, QueryTyped
    <3>3. reader' = [reader EXCEPT ![q] = r]
      BY <2>2 DEF Query
    <3>4. reader' \in [Readers -> Reader \cup {[at |-> "idle"]}]
      BY <3>2, <3>3 DEF TypeOK
    <3> QED BY <2>2, <3>4 DEF Query, TypeOK
  <2>3. ASSUME NEW q \in Readers, QueryFails(q) PROVE TypeOK'
    BY <2>3 DEF QueryFails, TypeOK
  <2>4. ASSUME NEW q \in Readers, Set(q) PROVE TypeOK'
    <3>1. reader[q] \in Reader
      BY <2>4 DEF Set, TypeOK
    <3>2. [on |-> TRUE, value |-> reader[q].value, left |-> TTL,
           late |-> q \in missed] \in Entry
      BY <3>1 DEF Reader, Entry
    <3>3. store' \in [Keys -> Entry]
      BY <2>4, <3>2 DEF Set, TypeOK
    <3> QED BY <2>4, <3>3 DEF Set, TypeOK
  <2>5. ASSUME NEW a \in Editors, NEW t \in Tables, Commit(a, t) PROVE TypeOK'
    <3>1. version' \in Versions
      BY <2>5 DEF Commit, TypeOK, Versions
    <3> QED BY <2>5, <3>1 DEF Commit, TypeOK
  <2>6. ASSUME NEW a \in Editors, InvalidateAll(a) PROVE TypeOK'
    BY <2>0, <2>6 DEF InvalidateAll, TypeOK
  <2>7. ASSUME Tick PROVE TypeOK'
    <3>1. ASSUME NEW k \in Keys, ~(store[k].left < 0)
          PROVE  [store[k] EXCEPT !.left = @ - 1] \in Entry
      <4>1. store[k] \in Entry
        BY DEF TypeOK
      <4>2. store[k].left - 1 \in -1..TTL
        BY <3>1, <4>1 DEF Entry
      <4> QED BY <4>1, <4>2 DEF Entry
    <3>2. store' \in [Keys -> Entry]
      BY <2>7, <3>1 DEF Tick, TypeOK
    <3> QED BY <2>7, <3>2 DEF Tick, TypeOK
  <2>8. ASSUME Crash PROVE TypeOK'
    BY <2>0, <2>8 DEF Crash, TypeOK
  <2>9. CASE UNCHANGED vars
    BY <2>9 DEF vars, TypeOK
  <2> QED BY <2>1, <2>2, <2>3, <2>4, <2>5, <2>6, <2>7, <2>8, <2>9 DEF Next
<1> QED BY <1>1, <1>2, PTL DEF Spec

-----------------------------------------------------------------------------
(* The strengthening: what a reader has read is as good as an entry, unless *)
(* the store was emptied meanwhile.                                         *)

Good(k, value, unread) ==
    \A t \in (Reads[k] \ unread) \cap Announced :
        value[t] = version[t] \/ Unannounced(t)

ReadersCurrent ==
    \A q \in Readers : reader[q].at # "idle" =>
        q \in missed \/ Good(reader[q].key, reader[q].value, reader[q].unread)

\* Only a reader that has read all of its tables stores an answer.
AllRead == \A q \in Readers : reader[q].at = "set" => reader[q].unread = {}

IInv == TypeOK /\ ReadersCurrent /\ AllRead /\ StaleOnlyIfMissed

\* An edit leaves no entry stored before it, whatever the readers do.
THEOREM NoEntrySurvivesAnEdit == Spec => []StaleOnlyIfMissed
<1>1. Init => IInv
  <2> SUFFICES ASSUME Init PROVE IInv
    OBVIOUS
  <2>1. TypeOK
    BY PlannerAssumption DEF Init, TypeOK, Start, Versions, NoEntry, Entry
  <2>2. ReadersCurrent /\ AllRead
    BY DEF Init, ReadersCurrent, AllRead
  <2>3. StaleOnlyIfMissed
    BY DEF Init, StaleOnlyIfMissed, NoEntry
  <2> QED BY <2>1, <2>2, <2>3 DEF IInv
<1>2. IInv /\ TypeOK' /\ [Next]_vars => IInv'
  <2> SUFFICES ASSUME IInv, TypeOK', [Next]_vars
               PROVE  ReadersCurrent' /\ AllRead' /\ StaleOnlyIfMissed'
    BY DEF IInv
  <2> USE PlannerAssumption DEF IInv
  <2>1. ASSUME NEW q \in Readers, NEW k \in Keys, Ask(q, k)
        PROVE  ReadersCurrent' /\ AllRead' /\ StaleOnlyIfMissed'
    <3>1. ReadersCurrent'
      BY <2>1 DEF Ask, ReadersCurrent, Good, Unannounced, TypeOK
    <3>2. AllRead'
      BY <2>1 DEF Ask, AllRead, TypeOK
    <3>3. StaleOnlyIfMissed'
      BY <2>1 DEF Ask, StaleOnlyIfMissed, Unannounced, NoEntry, TypeOK
    <3> QED BY <3>1, <3>2, <3>3
  <2>2. ASSUME NEW q \in Readers, NEW t \in Tables, Query(q, t)
        PROVE  ReadersCurrent' /\ AllRead' /\ StaleOnlyIfMissed'
    <3>1. reader[q] \in Reader /\ version[t] \in Nat
      BY <2>2 DEF Query, TypeOK, Versions
    <3>2. /\ reader'[q].key = reader[q].key
          /\ reader'[q].unread = reader[q].unread \ {t}
          /\ reader'[q].value = [reader[q].value EXCEPT ![t] = version[t]]
          /\ reader'[q].at = (IF reader[q].unread = {t} THEN "set" ELSE "query")
      BY <2>2, <3>1 DEF Query, TypeOK, Reader
    <3>3. \A p \in Readers : p # q => reader'[p] = reader[p]
      BY <2>2 DEF Query, TypeOK
    <3>4. reader[q].at = "query" /\ UNCHANGED <<version, store, editor, missed>>
      BY <2>2 DEF Query
    <3>5. reader[q].value \in [Tables -> Nat]
      BY <3>1 DEF Reader, Versions
    <3>6. ReadersCurrent'
      <4> SUFFICES ASSUME NEW p \in Readers, reader'[p].at # "idle", p \notin missed,
                          NEW u \in (Reads[reader'[p].key] \ reader'[p].unread)
                                      \cap Announced
                   PROVE  reader'[p].value[u] = version[u] \/ Unannounced(u)
        BY <3>4 DEF ReadersCurrent, Good, Unannounced
      <4>1. CASE p # q
        BY <3>3, <4>1 DEF ReadersCurrent, Good
      <4>2. CASE p = q /\ u = t
        BY <3>2, <3>5, <4>2
      <4>3. CASE p = q /\ u # t
        BY <3>2, <3>4, <3>5, <4>3 DEF ReadersCurrent, Good
      <4> QED BY <4>1, <4>2, <4>3
    <3>7. AllRead'
      BY <3>2, <3>3 DEF AllRead
    <3>8. StaleOnlyIfMissed'
      BY <3>4 DEF StaleOnlyIfMissed, Unannounced
    <3> QED BY <3>6, <3>7, <3>8
  <2>3. ASSUME NEW q \in Readers, QueryFails(q)
        PROVE  ReadersCurrent' /\ AllRead' /\ StaleOnlyIfMissed'
    BY <2>3 DEF QueryFails, ReadersCurrent, AllRead, Good, StaleOnlyIfMissed,
                Unannounced, TypeOK
  <2>4. ASSUME NEW q \in Readers, Set(q)
        PROVE  ReadersCurrent' /\ AllRead' /\ StaleOnlyIfMissed'
    <3>1. ReadersCurrent' /\ AllRead'
      BY <2>4 DEF Set, ReadersCurrent, AllRead, Good, Unannounced, TypeOK
    <3>2. reader[q].unread = {} /\ reader[q].at = "set"
      BY <2>4 DEF Set, AllRead
    <3>3. q \in missed \/ Good(reader[q].key, reader[q].value, {})
      BY <3>2 DEF ReadersCurrent
    <3>4. StaleOnlyIfMissed'
      <4> SUFFICES ASSUME NEW k \in Keys, store'[k].on, ~store'[k].late,
                          NEW t \in Reads[k] \cap Announced
                   PROVE  store'[k].value[t] = version[t] \/ Unannounced(t)
        BY <2>4 DEF Set, StaleOnlyIfMissed, Unannounced
      <4>1. CASE k # reader[q].key
        BY <2>4, <4>1 DEF Set, StaleOnlyIfMissed, TypeOK
      <4>2. CASE k = reader[q].key
        BY <2>4, <3>3, <4>2 DEF Set, Good, TypeOK
      <4> QED BY <4>1, <4>2
    <3> QED BY <3>1, <3>4
  <2>5. ASSUME NEW a \in Editors, NEW t \in Tables, Commit(a, t)
        PROVE  ReadersCurrent' /\ AllRead' /\ StaleOnlyIfMissed'
    <3>1. t \in Announced => Unannounced(t)'
      BY <2>5 DEF Commit, Unannounced, TypeOK
    <3>2. \A u \in Tables : u # t => version'[u] = version[u]
      BY <2>5 DEF Commit, TypeOK, Versions
    <3>3. \A u \in Tables : Unannounced(u) => Unannounced(u)'
      BY <2>5 DEF Commit, Unannounced, TypeOK
    <3>4. UNCHANGED <<store, reader, missed>>
      BY <2>5 DEF Commit
    <3>5. ASSUME NEW u \in Announced, NEW n, n = version[u] \/ Unannounced(u)
          PROVE  n = version'[u] \/ Unannounced(u)'
      BY <3>1, <3>2, <3>3, <3>5
    <3>6. ReadersCurrent'
      BY <3>4, <3>5 DEF ReadersCurrent, Good
    <3>7. AllRead'
      BY <3>4 DEF AllRead
    <3>8. StaleOnlyIfMissed'
      BY <3>4, <3>5 DEF StaleOnlyIfMissed
    <3> QED BY <3>6, <3>7, <3>8
  <2>6. ASSUME NEW a \in Editors, InvalidateAll(a)
        PROVE  ReadersCurrent' /\ AllRead' /\ StaleOnlyIfMissed'
    <3>1. ReadersCurrent' /\ AllRead'
      BY <2>6 DEF InvalidateAll, ReadersCurrent, AllRead
    <3>2. StaleOnlyIfMissed'
      BY <2>6 DEF InvalidateAll, StaleOnlyIfMissed, NoEntry
    <3> QED BY <3>1, <3>2
  <2>7. ASSUME Tick PROVE ReadersCurrent' /\ AllRead' /\ StaleOnlyIfMissed'
    <3>1. UNCHANGED <<version, reader, editor, missed>>
      BY <2>7 DEF Tick
    <3>2. \A k \in Keys : /\ store'[k].on = store[k].on
                          /\ store'[k].late = store[k].late
                          /\ store'[k].value = store[k].value
      BY <2>7 DEF Tick, TypeOK, Entry
    <3>3. ReadersCurrent' /\ AllRead'
      BY <3>1 DEF ReadersCurrent, AllRead, Good, Unannounced
    <3>4. StaleOnlyIfMissed'
      BY <3>1, <3>2 DEF StaleOnlyIfMissed, Unannounced
    <3> QED BY <3>3, <3>4
  <2>8. ASSUME Crash PROVE ReadersCurrent' /\ AllRead' /\ StaleOnlyIfMissed'
    BY <2>8 DEF Crash, ReadersCurrent, AllRead, StaleOnlyIfMissed, NoEntry
  <2>9. CASE UNCHANGED vars
    BY <2>9 DEF vars, ReadersCurrent, AllRead, Good, StaleOnlyIfMissed, Unannounced
  <2> QED BY <2>1, <2>2, <2>3, <2>4, <2>5, <2>6, <2>7, <2>8, <2>9 DEF Next
<1>3. IInv => StaleOnlyIfMissed
  BY DEF IInv
<1> QED BY <1>1, <1>2, <1>3, TypeCorrect, PTL DEF Spec

-----------------------------------------------------------------------------
(* Places: what a save leaves behind                                       *)

\* A row has its columns, and its name is the Chinese one.
Whole(entity) ==
    /\ entity = [c \in Places!Columns |-> entity[c]]
    /\ entity.name = entity.zh

\* What is stored, what requests are to save, and what their saves have read.
PlacesInv ==
    /\ row = [p \in PlaceIds |-> row[p]]
    /\ request = [r \in Admins |-> request[r]]
    /\ \A p \in PlaceIds : Places!Present(p) => Whole(row[p])
    /\ \A r \in Admins :
         request[r].at \in {"select", "write"} =>
            /\ Whole(request[r].entity) /\ Places!Checked(request[r].entity)
            /\ request[r].place \in PlaceIds
    /\ \A r \in Admins :
         request[r].at = "write" => request[r].seen = Places!NoRow \/ Whole(request[r].seen)

LEMMA ColumnNames ==
    /\ Places!Columns = {"low", "high", "reserved", "page", "closings", "lastEntry", "name", "zh"}
    /\ DOMAIN Places!Blank = Places!Columns \ {"name", "zh"}
BY DEF Places!Columns, Places!Blank

\* A row with its columns is not the absence of one.
LEMMA WholeIsPresent == ASSUME NEW x, Whole(x) PROVE x # Places!NoRow
<1>1. "zh" \in DOMAIN x
  BY ColumnNames DEF Whole
<1>2. DOMAIN Places!NoRow = {"low"}
  BY DEF Places!NoRow
<1> QED
  BY <1>1, <1>2

\* A merged row has its columns, and keeps its name with its translation.
LEMMA MergedIsWhole ==
    ASSUME NEW x, Whole(x), NEW form
    PROVE  Whole(Places!Merged(x, form))
<1> DEFINE m == Places!Merged(x, form)
           n == Places!Named(x, form)
<1>1. n.name = n.zh
  <2>1. CASE {"zh", "mn"} \cap DOMAIN form = {}
    BY <2>1 DEF Places!Named, Whole
  <2>2. CASE {"zh", "mn"} \cap DOMAIN form # {}
    <3>1. {"name", "zh"} \subseteq DOMAIN x
      BY ColumnNames DEF Whole
    <3>2. PICK zh : n = [x EXCEPT !.zh = zh, !.name = zh]
      BY <2>2, Zenon DEF Places!Named
    <3> QED
      BY <3>1, <3>2
  <2> QED
    BY <2>1, <2>2
<1>2. m.name = n.name /\ m.zh = n.zh
  BY ColumnNames DEF Places!Merged
<1>3. m = [c \in Places!Columns |-> m[c]]
  BY DEF Places!Merged
<1> QED
  BY <1>1, <1>2, <1>3 DEF Whole

\* A row that is created passes the checks of an update.
LEMMA CreatedIsWhole ==
    ASSUME NEW form \in Posts, Places!RangeGiven(form), NEW entity,
           entity = [c \in Places!Columns |-> IF c = "name" THEN form.zh
                        ELSE IF c \in DOMAIN form THEN form[c] ELSE Places!Blank[c]],
           Places!PageKnown(entity), Places!EntryBeforeClosing(entity)
    PROVE  Whole(entity) /\ Places!Checked(entity)
<1>1. "zh" \in DOMAIN form
  BY PartsAssumption
<1>2. entity.name = form.zh /\ entity.zh = form.zh
  BY <1>1, ColumnNames
<1>3. Places!RangeHolds(entity)
  <2>1. /\ entity.low = IF "low" \in DOMAIN form THEN form.low ELSE Places!None
        /\ entity.high = IF "high" \in DOMAIN form THEN form.high ELSE Places!None
    BY ColumnNames DEF Places!Blank
  <2> QED
    BY <2>1 DEF Places!RangeHolds, Places!RangeGiven, Places!Priced
<1> QED
  BY <1>2, <1>3 DEF Whole, Places!Checked

\* What a save writes over a row that is as it has read it is its own entity.
LEMMA SavedIsWhole ==
    ASSUME NEW now, NEW entity, NEW seen, Whole(now), Whole(entity), Whole(seen)
    PROVE  LET after == Places!Updated(now, entity, seen)
           IN  /\ Whole(after)
               /\ now = seen => (Places!Checked(entity) => Places!Checked(after))
<1> DEFINE after == Places!Updated(now, entity, seen)
<1>1. after = [c \in Places!Columns |-> IF entity[c] # seen[c] THEN entity[c] ELSE now[c]]
  BY WholeIsPresent DEF Places!Updated
<1>2. after.name = after.zh
  BY <1>1, ColumnNames DEF Whole
<1>3. after = [c \in Places!Columns |-> after[c]]
  BY <1>1
<1>4. ASSUME now = seen PROVE \A c \in Places!Columns : after[c] = entity[c]
  BY <1>1, <1>4
<1>5. ASSUME now = seen, Places!Checked(entity) PROVE Places!Checked(after)
  <2>1. /\ after.low = entity.low /\ after.high = entity.high
        /\ after.reserved = entity.reserved /\ after.page = entity.page
        /\ after.closings = entity.closings /\ after.lastEntry = entity.lastEntry
    BY <1>4, <1>5, ColumnNames
  <2> QED
    BY <1>5, <2>1, Zenon DEF Places!Checked, Places!RangeHolds, Places!PageKnown,
                             Places!EntryBeforeClosing
<1> QED
  BY <1>2, <1>3, <1>5 DEF Whole

LEMMA PlacesInitial == Places!Init => PlacesInv
BY DEF Places!Init, PlacesInv, Places!Idle, Places!Present

\* What the save of a step may leave of a place.
Sound(p) ==
    row'[p] \notin {row[p], Places!NoRow} /\ p \notin crossed' =>
        /\ Places!Checked(row'[p])
        /\ row[p] = Places!NoRow \/ row[p].name = row[p].zh => row'[p].name = row'[p].zh

LEMMA WholeIsSound ==
    ASSUME NEW p \in PlaceIds, row'[p] # Places!NoRow => Whole(row'[p]),
           row'[p] \notin {row[p], Places!NoRow} /\ p \notin crossed' => Places!Checked(row'[p])
    PROVE  Sound(p)
BY DEF Sound, Whole

\* Each step keeps the invariant and saves nothing unsound.
LEMMA PlacesHold ==
    ASSUME PlacesInv, Places!Next
    PROVE  PlacesInv' /\ \A p \in PlaceIds : Sound(p)
<1>1. ASSUME NEW r \in Admins, NEW p \in PlaceIds, NEW form \in Posts,
             Places!Create(r, p, form)
      PROVE  PlacesInv' /\ \A q \in PlaceIds : Sound(q)
  <2> DEFINE entity == [c \in Places!Columns |-> IF c = "name" THEN form.zh
                           ELSE IF c \in DOMAIN form THEN form[c] ELSE Places!Blank[c]]
  <2>1. Whole(entity) /\ Places!Checked(entity)
    <3>1. Places!PageKnown(entity) /\ Places!EntryBeforeClosing(entity)
             /\ Places!RangeGiven(form)
      BY <1>1 DEF Places!Create
    <3> HIDE DEF entity
    <3> QED
      BY <3>1, CreatedIsWhole DEF entity
  <2>2. row' = [row EXCEPT ![p] = entity] /\ UNCHANGED request
    BY <1>1 DEF Places!Create
  <2> HIDE DEF entity
  <2>3. PlacesInv'
    BY <2>1, <2>2 DEF PlacesInv, Places!Present
  <2>4. row' = [q \in PlaceIds |-> IF q = p THEN entity ELSE row[q]]
    BY <2>2 DEF PlacesInv
  <2>5. \A q \in PlaceIds : Sound(q)
    BY <2>1, <2>3, <2>4, WholeIsSound DEF PlacesInv, Places!Present
  <2> QED
    BY <2>3, <2>5
<1>2. ASSUME NEW r \in Admins, NEW p \in PlaceIds, NEW form \in Forms,
             Places!Update(r, p, form)
      PROVE  PlacesInv' /\ \A q \in PlaceIds : Sound(q)
  <2> DEFINE m == Places!Merged(row[p], form)
             to == [at |-> "select", place |-> p, entity |-> m]
  <2>1. Whole(m) /\ Places!Checked(m)
    BY <1>2, MergedIsWhole DEF Places!Update, PlacesInv
  <2>2. request' = [request EXCEPT ![r] = to] /\ UNCHANGED row
    BY <1>2 DEF Places!Update, Places!Goes
  <2> HIDE DEF m
  <2>3. to.at = "select" /\ to.place = p /\ to.entity = m
    OBVIOUS
  <2>4. PlacesInv'
    BY <2>1, <2>2, <2>3 DEF PlacesInv, Places!Present
  <2> QED
    BY <2>2, <2>4 DEF Sound
<1>3. ASSUME NEW r \in Admins, NEW p \in PlaceIds, Places!Delete(r, p)
      PROVE  PlacesInv' /\ \A q \in PlaceIds : Sound(q)
  <2>1. row' = [q \in PlaceIds |-> IF q = p THEN Places!NoRow ELSE row[q]] /\ UNCHANGED request
    BY <1>3 DEF Places!Delete, PlacesInv
  <2>2. PlacesInv'
    BY <2>1 DEF PlacesInv, Places!Present
  <2> QED
    BY <2>1, <2>2 DEF Sound
<1>4. ASSUME NEW r \in Admins, Places!Select(r)
      PROVE  PlacesInv' /\ \A q \in PlaceIds : Sound(q)
  <2> DEFINE to == [at |-> "write", place |-> request[r].place,
                    entity |-> request[r].entity, seen |-> row[request[r].place]]
  <2>1. request' = [request EXCEPT ![r] = to] /\ UNCHANGED row
    BY <1>4 DEF Places!Select, Places!Goes
  <2>2. /\ to.at = "write" /\ to.place = request[r].place
        /\ to.entity = request[r].entity /\ to.seen = row[request[r].place]
    OBVIOUS
  <2>3. PlacesInv'
    BY <1>4, <2>1, <2>2 DEF PlacesInv, Places!Present, Places!Select, Places!At
  <2> QED
    BY <2>1, <2>3 DEF Sound
<1>5. ASSUME NEW r \in Admins, Places!Write(r)
      PROVE  PlacesInv' /\ \A q \in PlaceIds : Sound(q)
  <2> DEFINE p == request[r].place
             seen == request[r].seen
             entity == request[r].entity
             after == IF seen # Places!NoRow THEN Places!Updated(row[p], entity, seen)
                      ELSE IF row[p] = Places!NoRow THEN entity ELSE row[p]
  <2>1. /\ p \in PlaceIds /\ Whole(entity) /\ Places!Checked(entity)
        /\ seen = Places!NoRow \/ Whole(seen)
        /\ row[p] = Places!NoRow \/ Whole(row[p])
    BY <1>5 DEF Places!Write, Places!At, PlacesInv, Places!Present
  <2>2. row' = [row EXCEPT ![p] = after]
    BY <1>5 DEF Places!Write
  <2>3. request' = [request EXCEPT ![r] = Places!Idle] /\ Places!Idle.at = "idle"
    BY <1>5 DEF Places!Write, Places!Goes, Places!Idle
  <2>4. row[p] # seen => p \in crossed'
    BY <1>5 DEF Places!Write
  <2>5. after # Places!NoRow => Whole(after)
    BY <2>1, SavedIsWhole DEF Places!Updated
  <2>6. after \notin {row[p], Places!NoRow} /\ row[p] = seen => Places!Checked(after)
    BY <2>1, SavedIsWhole
  <2> HIDE DEF after, p, seen, entity
  <2>7. row' = [q \in PlaceIds |-> IF q = p THEN after ELSE row[q]]
    BY <2>2 DEF PlacesInv
  <2>8. PlacesInv'
    BY <2>1, <2>3, <2>5, <2>7 DEF PlacesInv, Places!Present
  <2>9. \A q \in PlaceIds : Sound(q)
    BY <2>1, <2>4, <2>5, <2>6, <2>7, <2>8, WholeIsSound DEF PlacesInv, Places!Present
  <2> QED
    BY <2>8, <2>9
<1> QED
  BY <1>1, <1>2, <1>3, <1>4, <1>5 DEF Places!Next

LEMMA PlacesAlways == PartsSpec => []PlacesInv
<1>1. PartsInit => PlacesInv
  BY PlacesInitial DEF PartsInit
<1>2. PlacesInv /\ [PartsNext]_allVars => PlacesInv'
  <2>1. ASSUME PlacesInv, UNCHANGED placeVars PROVE PlacesInv'
    BY <2>1 DEF PlacesInv, placeVars, Places!Present
  <2>2. ASSUME PlacesInv, PartsNext PROVE PlacesInv'
    BY <2>1, <2>2, PlacesHold DEF PartsNext
  <2> QED
    BY <2>1, <2>2 DEF allVars
<1> QED
  BY <1>1, <1>2, PTL DEF PartsSpec

\* A save that no other has crossed leaves a row that passes its checks, and
\* a name that is its translation, however many administrators edit at once.
THEOREM SavesStaySound == PartsSpec => SavesAreSound
<1>1. PlacesInv /\ [PartsNext]_allVars
      => [\A p \in PlaceIds :
            row'[p] \notin {row[p], Places!NoRow} /\ p \notin crossed' =>
               /\ Places!Checked(row'[p])
               /\ row[p] = Places!NoRow \/ row[p].name = row[p].zh
                     => row'[p].name = row'[p].zh]_Places!vars
  <2>1. CASE UNCHANGED placeVars
    BY <2>1 DEF placeVars, Places!vars
  <2>2. ASSUME PlacesInv, PartsNext, ~UNCHANGED placeVars PROVE \A p \in PlaceIds : Sound(p)
    BY <2>2, PlacesHold DEF PartsNext
  <2> QED
    BY <2>1, <2>2 DEF allVars, Sound
<1> QED
  BY <1>1, PlacesAlways, PTL DEF PartsSpec, SavesAreSound, Places!SavesAreSound

-----------------------------------------------------------------------------
(* The digest: one from nine to nine                                       *)

\* A due timer means that nothing was mailed since nine. While a timer is set
\* there is no run, so a run that lasts beyond midnight, or beyond the next
\* nine o'clock, delays the one that follows. A run mails nobody twice: those
\* still to do have had nothing since nine.
DigestInv ==
    /\ Digest!TypeOK
    /\ \A u \in Users : mailed[u] <= 1
    /\ timer = "today" /\ hour = "late" => \A u \in Users : mailed[u] = 0
    /\ timer # "never" => run.at = "idle"
    /\ process = "down" => timer = "never" /\ run.at = "idle"
    /\ run.at \in {"probe", "list"} => \A u \in Users : mailed[u] = 0
    /\ run.at \in {"preview", "send"} => \A u \in run.todo : mailed[u] = 0
    /\ run.at = "send" => \E u \in run.todo : run.user = {u}

LEMMA DigestInitial == Digest!Init => DigestInv
BY PartsAssumption DEF Digest!Init, DigestInv, Digest!TypeOK, Digest!NoRun

\* A run that ends sets the timer for the next nine o'clock.
LEMMA RunEnding ==
    ASSUME DigestInv, Digest!RunEnds, UNCHANGED <<note, ready, process, hour, cleanup, news>>,
           process # "down", faults' \in 0..MaxFaults,
           mailed' \in [Users -> Nat], \A u \in Users : mailed'[u] <= 1
    PROVE  DigestInv'
<1>1. run'.at = "idle" /\ Digest!TypeOK'
  BY DEF Digest!RunEnds, Digest!NoRun, Digest!NextWindow, DigestInv, Digest!TypeOK
<1>2. timer' = "today" => hour' = "early"
  BY DEF Digest!RunEnds, Digest!NextWindow, DigestInv, Digest!TypeOK
<1> QED
  BY <1>1, <1>2 DEF DigestInv

\* A run has a process.
LEMMA RunHasProcess == DigestInv /\ run.at # "idle" => process # "down" /\ timer = "never"
BY DEF DigestInv

\* A mail that is accepted is the first its user gets since nine.
LEMMA MailIsFirst ==
    ASSUME DigestInv, run.at = "send", Digest!Send(TRUE)
    PROVE  /\ mailed' \in [Users -> Nat]
           /\ \A u \in Users : mailed'[u] <= 1
           /\ \A u \in run.todo \ run.user : mailed'[u] = 0
<1>1. PICK v \in run.todo : run.user = {v}
  BY DEF DigestInv
<1>2. \A u : Digest!Cardinality({u} \cap run.user) = IF u = v THEN 1 ELSE 0
  <2>1. \A u : Cardinality({u} \cap run.user) = IF u = v THEN 1 ELSE 0
    <3>1. \A u : u = v => {u} \cap run.user = {v}
      BY <1>1
    <3>2. \A u : u # v => {u} \cap run.user = {}
      BY <1>1
    <3> QED
      BY <3>1, <3>2, FS_Singleton, FS_EmptySet
  <2> QED
    BY <2>1 DEF Digest!Cardinality, Cardinality
<1>3. mailed' = [u \in Users |-> mailed[u] + Digest!Cardinality({u} \cap run.user)]
  BY DEF Digest!Send
<1>4. ASSUME NEW u \in Users
      PROVE  mailed'[u] = IF u = v THEN mailed[u] + 1 ELSE mailed[u]
  <2> DEFINE n == Digest!Cardinality({u} \cap run.user)
  <2>1. mailed'[u] = mailed[u] + n
    BY <1>3
  <2>2. n = IF u = v THEN 1 ELSE 0
    BY <1>2
  <2>3. mailed[u] \in Nat
    BY DEF DigestInv, Digest!TypeOK
  <2> HIDE DEF n
  <2> QED
    BY <2>1, <2>2, <2>3
<1>5. mailed[v] = 0 /\ v \in Users /\ run.todo \subseteq Users
  <2>1. run.todo \subseteq Users
    <3>1. run \in [at : {"idle", "probe", "list", "preview", "send"}, todo : SUBSET Users,
                   user : SUBSET Users, seen : BOOLEAN]
      BY DEF DigestInv, Digest!TypeOK
    <3> QED
      BY <3>1
  <2>2. \A u \in run.todo : mailed[u] = 0
    BY DEF DigestInv
  <2> QED
    BY <1>1, <2>1, <2>2
<1>6. \A u \in Users : mailed'[u] \in Nat /\ mailed'[u] <= 1
  BY <1>4, <1>5 DEF DigestInv, Digest!TypeOK
<1>7. mailed' \in [Users -> Nat]
  BY <1>3, <1>6
<1>8. ASSUME NEW u \in run.todo \ run.user PROVE mailed'[u] = 0
  <2>1. u # v /\ u \in Users /\ mailed[u] = 0
    BY <1>1, <1>5 DEF DigestInv
  <2> QED
    BY <1>4, <2>1
<1> QED
  BY <1>6, <1>7, <1>8

LEMMA DigestHolds == DigestInv /\ Digest!Next => DigestInv'
<1> SUFFICES ASSUME DigestInv, Digest!Next PROVE DigestInv'
  OBVIOUS
<1> USE DEF Digest!env, Digest!time, Digest!jobs
<1>1. ASSUME NEW u \in Users, Digest!Create(u) \/ Digest!Read(u) \/ Digest!GrowsOld(u)
      PROVE  DigestInv'
  <2>1. Digest!TypeOK'
    BY <1>1 DEF Digest!Create, Digest!Read, Digest!GrowsOld, DigestInv, Digest!TypeOK
  <2> QED
    BY <1>1, <2>1 DEF Digest!Create, Digest!Read, Digest!GrowsOld, DigestInv
<1>2. CASE Digest!Start
  BY <1>2 DEF Digest!Start, Digest!NextWindow, DigestInv, Digest!TypeOK
<1>3. CASE Digest!Rejects
  BY <1>3, PartsAssumption DEF Digest!Rejects, Digest!Dead, Digest!NoRun, DigestInv, Digest!TypeOK
<1>4. CASE Digest!CleanupTick
  BY <1>4 DEF Digest!CleanupTick, DigestInv, Digest!TypeOK
<1>5. CASE Digest!CleanupProbes \/ Digest!CleanupDeletes
  <2>1. /\ UNCHANGED <<ready, hour, timer, run, faults, news, mailed>>
        /\ process' \in {"up", process} /\ cleanup' \in {"idle", "delete"}
        /\ note' \in [Users -> {"none", "unread", "read", "old"}]
    BY <1>5 DEF Digest!CleanupProbes, Digest!CleanupDeletes, Digest!CleanupEnds, DigestInv,
                Digest!TypeOK
  <2> QED
    BY <2>1 DEF DigestInv, Digest!TypeOK
<1>6. CASE Digest!Fire
  BY <1>6 DEF Digest!Fire, Digest!NoRun, DigestInv, Digest!TypeOK
<1>7. CASE Digest!Probe
  <2>1. run.at = "probe" /\ UNCHANGED <<note, ready, process, hour, cleanup, faults, news, mailed>>
    BY <1>7 DEF Digest!Probe
  <2>2. CASE ready
    BY <1>7, <2>2 DEF Digest!Probe, DigestInv, Digest!TypeOK
  <2>3. CASE ~ready
    <3>1. Digest!RunEnds
      BY <1>7, <2>3 DEF Digest!Probe
    <3> QED
      BY <2>1, <3>1, RunEnding, RunHasProcess DEF DigestInv, Digest!TypeOK
  <2> QED
    BY <2>2, <2>3
<1>8. CASE Digest!List
  <2> DEFINE unread == {u \in Users : note[u] = "unread"}
  <2>1. run.at = "list" /\ UNCHANGED <<note, ready, process, hour, cleanup, faults, news, mailed>>
    BY <1>8 DEF Digest!List
  <2>2. CASE unread # {}
    <3>1. run' = [run EXCEPT !.at = "preview", !.todo = unread] /\ UNCHANGED timer
      BY <1>8, <2>2 DEF Digest!List
    <3>2. unread \subseteq Users
      OBVIOUS
    <3> HIDE DEF unread
    <3>3. run'.at = "preview" /\ run'.todo = unread /\ Digest!TypeOK'
      BY <2>1, <3>1, <3>2 DEF DigestInv, Digest!TypeOK
    <3>4. \A u \in unread : mailed'[u] = 0
      BY <2>1, <3>2 DEF DigestInv
    <3> QED
      BY <2>1, <3>1, <3>3, <3>4 DEF DigestInv
  <2>3. CASE unread = {}
    <3>1. Digest!RunEnds
      BY <1>8, <2>3 DEF Digest!List
    <3> QED
      BY <2>1, <3>1, RunEnding, RunHasProcess DEF DigestInv, Digest!TypeOK
  <2> QED
    BY <2>2, <2>3
<1>9. ASSUME NEW u \in Users, Digest!Preview(u) PROVE DigestInv'
  BY <1>9 DEF Digest!Preview, DigestInv, Digest!TypeOK
<1>10. ASSUME NEW accepted \in BOOLEAN, Digest!Send(accepted) PROVE DigestInv'
  <2> DEFINE rest == run.todo \ run.user
  <2>1. run.at = "send" /\ UNCHANGED <<note, ready, process, hour, cleanup>>
    BY <1>10 DEF Digest!Send
  <2>2. /\ mailed' \in [Users -> Nat]
        /\ \A u \in Users : mailed'[u] <= 1
        /\ \A u \in rest : mailed'[u] = 0
    <3>1. CASE accepted
      BY <1>10, <2>1, <3>1, MailIsFirst
    <3>2. CASE ~accepted
      BY <1>10, <2>1, <3>2 DEF Digest!Send, DigestInv, Digest!TypeOK
    <3> QED
      BY <3>1, <3>2
  <2>3. news' \subseteq Users /\ faults' \in 0..MaxFaults
    BY <1>10, PartsAssumption DEF Digest!Send, DigestInv, Digest!TypeOK
  <2>4. CASE rest # {}
    <3>1. run' = [Digest!NoRun EXCEPT !.at = "preview", !.todo = rest] /\ UNCHANGED timer
      BY <1>10, <2>4 DEF Digest!Send
    <3> QED
      BY <2>1, <2>2, <2>3, <3>1 DEF Digest!NoRun, DigestInv, Digest!TypeOK
  <2>5. CASE rest = {}
    <3>1. Digest!RunEnds
      BY <1>10, <2>5 DEF Digest!Send
    <3>2. timer' \in {"today", "tomorrow"} /\ (timer' = "today" => hour = "early")
             /\ run' = Digest!NoRun
      BY <3>1 DEF Digest!RunEnds, Digest!NextWindow, DigestInv, Digest!TypeOK
    <3> QED
      BY <2>1, <2>2, <2>3, <3>2, RunHasProcess DEF DigestInv, Digest!TypeOK, Digest!NoRun
  <2> QED
    BY <2>4, <2>5
<1>11. CASE Digest!Nine
  BY <1>11 DEF Digest!Nine, DigestInv, Digest!TypeOK
<1>12. CASE Digest!Midnight
  BY <1>12 DEF Digest!Midnight, DigestInv, Digest!TypeOK
<1>13. CASE Digest!Migrate
  BY <1>13 DEF Digest!Migrate, DigestInv, Digest!TypeOK
<1> QED
  BY <1>1, <1>2, <1>3, <1>4, <1>5, <1>6, <1>7, <1>8, <1>9, <1>10, <1>11, <1>12, <1>13
  DEF Digest!Next, Digest!DigestStep

\* Whatever fails and however often the process starts again, a user gets at
\* most one digest from one nine o'clock to the next.
THEOREM OneDigestAMorning == PartsSpec => []OncePerMorning
<1>1. PartsInit => DigestInv
  BY DigestInitial DEF PartsInit
<1>2. DigestInv /\ [PartsNext]_allVars => DigestInv'
  <2>1. ASSUME DigestInv, UNCHANGED digestVars PROVE DigestInv'
    BY <2>1 DEF DigestInv, digestVars, Digest!TypeOK
  <2>2. ASSUME DigestInv, PartsNext PROVE DigestInv'
    BY <2>1, <2>2, DigestHolds DEF PartsNext
  <2> QED
    BY <2>1, <2>2 DEF allVars
<1>3. DigestInv => OncePerMorning
  BY DEF DigestInv, OncePerMorning, Digest!OncePerMorning
<1> QED
  BY <1>1, <1>2, <1>3, PTL DEF PartsSpec

-----------------------------------------------------------------------------
(* The calendar's file: what the Map of its entries holds                  *)

\* Every set of natural numbers but the empty one has a smallest element.
LEMMA Smallest ==
    ASSUME NEW S \in SUBSET Nat, S # {}
    PROVE  \E x \in S : \A y \in S : x <= y
<1> DEFINE R == OpToRel(<, Nat)
<1>1. IsWellFoundedOn(R, Nat)
  BY NatLessThanWellFounded
<1>2. \A x, y \in Nat : x < y => <<x, y>> \in R
  BY DEF OpToRel
<1> HIDE DEF R
<1>3. PICK x \in S : \A y \in S : ~(<<y, x>> \in R)
  BY <1>1, WFMin, Zenon
<1>4. SUFFICES ASSUME NEW y \in S PROVE x <= y
  BY Zenon
<1>5. ~(y < x) /\ x \in Nat /\ y \in Nat
  BY <1>2, <1>3, Zenon
<1> QED
  BY <1>5, SMT

\* g lists the Maps of the first entries of a file, up to the k-th.
MapsOf(file, k, g) ==
    g = [j \in 0..k |-> IF j = 0 THEN <<>> ELSE Calendar!Entered(g[j - 1], file[j])]

LEMMA MapsGrow ==
    ASSUME NEW file, NEW k \in Nat, NEW g, MapsOf(file, k, g)
    PROVE  \E h : MapsOf(file, k + 1, h)
<1> DEFINE next == Calendar!Entered(g[k], file[k + 1])
           h == [j \in 0..(k + 1) |-> IF j = k + 1 THEN next ELSE g[j]]
<1>1. DOMAIN g = 0..k
  BY DEF MapsOf
<1>2. \A j \in 0..k : g[j] = IF j = 0 THEN <<>> ELSE Calendar!Entered(g[j - 1], file[j])
  BY DEF MapsOf
<1>3. ASSUME NEW j \in 0..(k + 1)
      PROVE  h[j] = IF j = 0 THEN <<>> ELSE Calendar!Entered(h[j - 1], file[j])
  <2> HIDE DEF next
  <2>1. \A i \in 0..k : h[i] = g[i]
    OBVIOUS
  <2>2. h[k + 1] = next
    OBVIOUS
  <2> HIDE DEF h
  <2>3. CASE j = k + 1
    <3>1. j # 0 /\ j - 1 = k /\ k \in 0..k
      BY <2>3
    <3> QED
      BY <2>1, <2>2, <2>3, <3>1 DEF next
  <2>4. CASE j # k + 1
    <3>1. j \in 0..k
      BY <2>4
    <3>2. j # 0 => j - 1 \in 0..k
      BY <3>1
    <3> QED
      BY <1>2, <2>1, <3>1, <3>2
  <2> QED
    BY <2>3, <2>4
<1>4. DOMAIN h = 0..(k + 1) /\ h = [j \in 0..(k + 1) |-> h[j]]
  OBVIOUS
<1> HIDE DEF h
<1> QED
  BY <1>3, <1>4 DEF MapsOf

LEMMA MapsAre == ASSUME NEW file, NEW k \in Nat PROVE \E g : MapsOf(file, k, g)
<1> DEFINE S == {j \in Nat : ~\E g : MapsOf(file, j, g)}
<1> SUFFICES ASSUME S # {} PROVE FALSE
  OBVIOUS
<1>1. PICK j \in S : \A i \in S : j <= i
  BY Smallest
<1>2. CASE j = 0
  <2> DEFINE g == [i \in 0..0 |-> <<>>]
  <2>1. MapsOf(file, 0, g)
    BY DEF MapsOf
  <2> QED
    BY <1>2, <2>1
<1>3. CASE j # 0
  <2>1. j - 1 \in Nat /\ ~(j <= j - 1)
    BY <1>3
  <2>2. PICK g : MapsOf(file, j - 1, g)
    BY <1>1, <2>1
  <2>3. PICK i \in Nat : i = j - 1
    BY <2>1
  <2>4. \E h : MapsOf(file, i + 1, h)
    BY <2>2, <2>3, MapsGrow
  <2> QED
    BY <2>3, <2>4
<1> QED
  BY <1>2, <1>3

\* The Map of a file is the last of them.
LEMMA UniqueIs ==
    ASSUME NEW file, Len(file) \in Nat
    PROVE  \E g : MapsOf(file, Len(file), g) /\ Calendar!Unique(file) = g[Len(file)]
<1>1. PICK g : g = CHOOSE f : MapsOf(file, Len(file), f)
  OBVIOUS
<1>2. MapsOf(file, Len(file), g)
  BY <1>1, MapsAre
<1>3. Calendar!Unique(file) = g[Len(file)]
  BY <1>1 DEF Calendar!Unique, MapsOf
<1> QED
  BY <1>2, <1>3

\* What the Map of the first k entries holds: for each of their dates the
\* last of them, and nothing else.
LastOfDate(file, k, j) ==
    j \in 1..k /\ \A i \in 1..k : file[i].date = file[j].date => i <= j
MapHolds(file, k, days) ==
    /\ days \in Seq(Calendar!Row)
    /\ \A m, n \in DOMAIN days : m # n => days[m].date # days[n].date
    /\ \A n \in DOMAIN days : \E j \in 1..k : LastOfDate(file, k, j) /\ days[n] = file[j]
    /\ \A j \in 1..k : \E n \in DOMAIN days : days[n].date = file[j].date

LEMMA EnteredHolds ==
    ASSUME NEW file \in Seq(Calendar!Row), NEW k \in Nat, k + 1 <= Len(file), NEW days,
           MapHolds(file, k, days), NEW e, e = file[k + 1]
    PROVE  MapHolds(file, k + 1, Calendar!Entered(days, e))
<1>1. e \in Calendar!Row
  OBVIOUS
<1>2. days \in Seq(Calendar!Row) /\ Len(days) \in Nat /\ DOMAIN days = 1..Len(days)
  BY DEF MapHolds
<1>3. PICK new : new = Calendar!Entered(days, e)
  OBVIOUS
<1>4. \A j \in 1..(k + 1) : j \in 1..k \/ j = k + 1
  OBVIOUS
<1>5. ASSUME NEW j \in 1..k, LastOfDate(file, k, j), file[j].date # e.date
      PROVE  LastOfDate(file, k + 1, j)
  BY <1>4, <1>5 DEF LastOfDate
<1>6. k + 1 \in 1..(k + 1) /\ LastOfDate(file, k + 1, k + 1)
  BY DEF LastOfDate
<1>7. CASE \E n \in DOMAIN days : days[n].date = e.date
  <2>1. /\ DOMAIN new = DOMAIN days
        /\ \A n \in DOMAIN days : new[n] = IF days[n].date = e.date THEN e ELSE days[n]
        /\ new = [n \in 1..Len(days) |-> IF days[n].date = e.date THEN e ELSE days[n]]
    BY <1>2, <1>3, <1>7 DEF Calendar!Entered
  <2>2. new \in Seq(Calendar!Row)
    BY <1>1, <1>2, <2>1
  <2>3. \A n \in DOMAIN days : new[n].date = days[n].date
    BY <2>1
  <2>4. \A n \in DOMAIN new : \E j \in 1..(k + 1) : LastOfDate(file, k + 1, j) /\ new[n] = file[j]
    <3>1. TAKE n \in DOMAIN new
    <3>2. CASE days[n].date = e.date
      <4>1. new[n] = file[k + 1]
        BY <2>1, <3>2
      <4> QED
        BY <1>6, <4>1
    <3>3. CASE days[n].date # e.date
      <4>1. PICK j \in 1..k : LastOfDate(file, k, j) /\ days[n] = file[j]
        BY <2>1 DEF MapHolds
      <4>2. j \in 1..(k + 1) /\ LastOfDate(file, k + 1, j)
        BY <1>5, <3>3, <4>1
      <4> QED
        BY <2>1, <3>3, <4>1, <4>2
    <3> QED
      BY <3>2, <3>3
  <2>5. \A j \in 1..(k + 1) : \E n \in DOMAIN new : new[n].date = file[j].date
    <3>1. TAKE j \in 1..(k + 1)
    <3>2. CASE j = k + 1
      BY <1>7, <2>1, <2>3, <3>2
    <3>3. CASE j \in 1..k
      <4>1. PICK n \in DOMAIN days : days[n].date = file[j].date
        BY <3>3 DEF MapHolds
      <4>2. n \in DOMAIN new /\ new[n].date = file[j].date
        BY <2>1, <2>3, <4>1
      <4> QED
        BY <4>2
    <3> QED
      BY <1>4, <3>2, <3>3
  <2>6. ASSUME NEW m \in DOMAIN new, NEW n \in DOMAIN new, m # n
        PROVE  new[m].date # new[n].date
    <3>1. m \in DOMAIN days /\ n \in DOMAIN days
      BY <2>1
    <3>2. days[m].date # days[n].date
      BY <2>6, <3>1 DEF MapHolds
    <3> QED
      BY <2>3, <3>1, <3>2
  <2>7. MapHolds(file, k + 1, new)
    BY <2>2, <2>4, <2>5, <2>6, Zenon DEF MapHolds
  <2> QED
    BY <1>3, <2>7
<1>8. CASE ~\E n \in DOMAIN days : days[n].date = e.date
  <2>1. new = Append(days, e)
    BY <1>3, <1>8 DEF Calendar!Entered
  <2>2. /\ new \in Seq(Calendar!Row) /\ DOMAIN new = 1..(Len(days) + 1)
        /\ new[Len(days) + 1] = e /\ \A n \in DOMAIN days : new[n] = days[n]
    BY <1>1, <1>2, <2>1
  <2>3. \A n \in DOMAIN new : n \in DOMAIN days \/ n = Len(days) + 1
    BY <1>2, <2>2
  <2>4. \A n \in DOMAIN days : n \in DOMAIN new
    BY <1>2, <2>2
  <2>5. ASSUME NEW m \in DOMAIN new, NEW n \in DOMAIN new, m # n
        PROVE  new[m].date # new[n].date
    <3>1. CASE m \in DOMAIN days /\ n \in DOMAIN days
      BY <2>2, <2>5, <3>1 DEF MapHolds
    <3>2. CASE m \in DOMAIN days /\ n = Len(days) + 1
      BY <1>8, <2>2, <3>2
    <3>3. CASE n \in DOMAIN days /\ m = Len(days) + 1
      BY <1>8, <2>2, <3>3
    <3> QED
      BY <2>3, <2>5, <3>1, <3>2, <3>3
  <2>6. \A n \in DOMAIN new : \E j \in 1..(k + 1) : LastOfDate(file, k + 1, j) /\ new[n] = file[j]
    <3>1. TAKE n \in DOMAIN new
    <3>2. CASE n = Len(days) + 1
      BY <1>6, <2>2, <3>2
    <3>3. CASE n \in DOMAIN days
      <4>1. PICK j \in 1..k : LastOfDate(file, k, j) /\ days[n] = file[j]
        BY <3>3 DEF MapHolds
      <4>2. j \in 1..(k + 1) /\ LastOfDate(file, k + 1, j)
        BY <1>5, <1>8, <3>3, <4>1
      <4> QED
        BY <2>2, <3>3, <4>1, <4>2
    <3> QED
      BY <2>3, <3>2, <3>3
  <2>7. \A j \in 1..(k + 1) : \E n \in DOMAIN new : new[n].date = file[j].date
    <3>1. TAKE j \in 1..(k + 1)
    <3>2. CASE j = k + 1
      <4>1. Len(days) + 1 \in DOMAIN new
        BY <1>2, <2>2
      <4> QED
        BY <2>2, <3>2, <4>1
    <3>3. CASE j \in 1..k
      BY <2>2, <2>4, <3>3 DEF MapHolds
    <3> QED
      BY <1>4, <3>2, <3>3
  <2>8. MapHolds(file, k + 1, new)
    BY <2>2, <2>5, <2>6, <2>7, Zenon DEF MapHolds
  <2> QED
    BY <1>3, <2>8
<1> QED
  BY <1>7, <1>8

LEMMA MapsHold ==
    ASSUME NEW file \in Seq(Calendar!Row), NEW g, MapsOf(file, Len(file), g)
    PROVE  \A k \in 0..Len(file) : MapHolds(file, k, g[k])
<1>0. Len(file) \in Nat
  OBVIOUS
<1> DEFINE S == {k \in 0..Len(file) : ~MapHolds(file, k, g[k])}
<1> SUFFICES ASSUME S # {} PROVE FALSE
  OBVIOUS
<1>1. PICK k \in S : \A i \in S : k <= i
  <2>1. S \in SUBSET Nat
    BY <1>0
  <2> HIDE DEF S
  <2> QED
    BY <2>1, Smallest
<1>2. \A j \in 0..Len(file) :
         g[j] = IF j = 0 THEN <<>> ELSE Calendar!Entered(g[j - 1], file[j])
  BY DEF MapsOf
<1>3. CASE k = 0
  <2>1. g[0] = <<>>
    BY <1>0, <1>2
  <2>2. MapHolds(file, 0, <<>>)
    BY DEF MapHolds
  <2> QED
    BY <1>3, <2>1, <2>2
<1>4. CASE k # 0
  <2>1. PICK i \in Nat : i + 1 = k /\ i \in 0..Len(file) /\ ~(k <= i)
    <3>1. k - 1 \in Nat /\ (k - 1) + 1 = k /\ k - 1 \in 0..Len(file) /\ ~(k <= k - 1)
      BY <1>0, <1>4
    <3> QED
      BY <3>1
  <2>2. MapHolds(file, i, g[i])
    BY <1>1, <2>1
  <2>3. g[k] = Calendar!Entered(g[i], file[i + 1]) /\ i + 1 <= Len(file)
    BY <1>0, <1>2, <1>4, <2>1
  <2>4. MapHolds(file, i + 1, g[k])
    BY <2>2, <2>3, EnteredHolds
  <2> QED
    BY <2>1, <2>4
<1> QED
  BY <1>3, <1>4

\* The last type a file gives a date.
FinalType(file, d) ==
    LET ks == {k \in DOMAIN file : file[k].date = d}
    IN  file[CHOOSE k \in ks : \A j \in ks : j <= k].type

\* The days an import saves: one for each date of its file, of the last type.
LEMMA DaysOfFile ==
    ASSUME NEW file \in Years, NEW days, days = Calendar!Unique(file)
    PROVE  /\ days \in Seq(Calendar!Row)
           /\ \A m, n \in DOMAIN days : m # n => days[m].date # days[n].date
           /\ \A n \in DOMAIN days : /\ days[n].date \in Calendar!DatesOf(file)
                                     /\ days[n].type = FinalType(file, days[n].date)
           /\ \A d \in Calendar!DatesOf(file) : \E n \in DOMAIN days : days[n].date = d
           /\ Calendar!DatesOf(file) \subseteq Dates
<1>0. file \in Seq(Calendar!Row)
  BY PartsAssumption, Zenon DEF Calendar!Row
<1>1. file \in Seq(Calendar!Row) /\ Len(file) \in Nat /\ DOMAIN file = 1..Len(file)
  BY <1>0
<1>2. MapHolds(file, Len(file), days)
  <2>1. PICK g : MapsOf(file, Len(file), g) /\ days = g[Len(file)]
    BY <1>1, UniqueIs
  <2>2. Len(file) \in 0..Len(file)
    BY <1>1
  <2> QED
    BY <1>1, <2>1, <2>2, MapsHold
<1>3. ASSUME NEW n \in DOMAIN days
      PROVE  /\ days[n].date \in Calendar!DatesOf(file)
             /\ days[n].type = FinalType(file, days[n].date)
  <2>1. PICK j \in 1..Len(file) : LastOfDate(file, Len(file), j) /\ days[n] = file[j]
    BY <1>2 DEF MapHolds
  <2> DEFINE ks == {k \in DOMAIN file : file[k].date = days[n].date}
  <2>2. j \in ks /\ \A i \in ks : i <= j
    BY <1>1, <2>1 DEF LastOfDate
  <2>3. \A k \in ks : (\A i \in ks : i <= k) => k = j
    BY <1>1, <2>2
  <2>4. j = CHOOSE k \in ks : \A i \in ks : i <= k
    BY <2>2, <2>3
  <2> QED
    BY <1>1, <2>1, <2>4 DEF FinalType, Calendar!DatesOf
<1>4. \A d \in Calendar!DatesOf(file) : \E n \in DOMAIN days : days[n].date = d
  BY <1>1, <1>2 DEF MapHolds, Calendar!DatesOf
<1>5. Calendar!DatesOf(file) \subseteq Dates
  <2>1. \A n \in DOMAIN file : file[n] \in Calendar!Row
    BY <1>1
  <2> QED
    BY <2>1 DEF Calendar!DatesOf, Calendar!Row
<1> QED
  BY <1>2, <1>3, <1>4, <1>5 DEF MapHolds

-----------------------------------------------------------------------------
(* The calendar: a row for a date, and what an import alone has made of it  *)

\* The rows t of n identifiers: none beyond them, and no two for a date.
DaysSound(t, n) ==
    /\ t \in [Calendar!Ids -> Calendar!Row \cup {Calendar!NoDay}]
    /\ n \in 0..MaxRows
    /\ \A i \in Calendar!Ids : i > n => t[i] = Calendar!NoDay
    /\ \A i, j \in Calendar!Ids : (i # j /\ t[i].date \in Dates) => t[i].date # t[j].date

FoundDay == [at : {"found"}, id : Calendar!Ids, row : Calendar!Row]
YearImport == [at : {"import", "done", "refused"}, days : Seq(Calendar!Row), next : Nat \ {0},
               found : SUBSET Calendar!Ids, dates : [Calendar!Ids -> Dates \cup {"none"}],
               alone : BOOLEAN, file : Years, before : [Dates -> SUBSET DayTypes]]

\* The types the rows t give each date, and the dates an import has saved.
TypesOf(t) == [d \in Dates |-> {t[i].type : i \in {j \in Calendar!Ids : t[j].date = d}}]
DoneDates(q) == {q.days[k].date : k \in 1..(q.next - 1)}

\* An import follows the days of its file, and has found rows of their dates.
Follows(q, n) ==
    /\ q.days = Calendar!Unique(q.file)
    /\ q.next <= Len(q.days) + 1
    /\ q.at = "done" => q.next > Len(q.days)
    /\ \A i \in q.found : i <= n /\ q.dates[i] \in Dates

\* What one nobody disturbs has made of the rows: the dates it has done have
\* their last type; the rows of the others are those it found, where it
\* found them.
Made(q, t) ==
    /\ q.at # "refused"
    /\ TypesOf(t) = [d \in Dates |-> IF d \in DoneDates(q) THEN {FinalType(q.file, d)}
                                                           ELSE q.before[d]]
    /\ \A i \in q.found : t[i].date = q.dates[i]
    /\ \A i \in Calendar!Ids :
          (t[i].date \in Calendar!DatesOf(q.file) \ DoneDates(q)) => i \in q.found

Asked(q, t, n) ==
    \/ q = Calendar!Idle
    \/ q \in FoundDay /\ q.id <= n
    \/ q \in YearImport /\ Follows(q, n) /\ (q.alone => Made(q, t))

CalendarInv ==
    /\ DaysSound(day, drawn)
    /\ asked = [a \in Admins |-> asked[a]]
    /\ \A a \in Admins : Asked(asked[a], day, drawn)

-----------------------------------------------------------------------------
LEMMA DayFacts ==
    ASSUME NEW t, NEW n, DaysSound(t, n), NEW i \in Calendar!Ids
    PROVE  /\ t[i] \in Calendar!Row => t[i].date \in Dates
           /\ t[i] = Calendar!NoDay => t[i].date = "none"
           /\ t[i].date \in Dates \cup {"none"}
           /\ t[i].date = "none" => t[i] = Calendar!NoDay
           /\ "none" \notin Dates
BY PartsAssumption DEF DaysSound, Calendar!Row, Calendar!NoDay

\* Where a request is says which fields it has.
LEMMA AskedKinds ==
    ASSUME NEW q, NEW t, NEW n, Asked(q, t, n)
    PROVE  /\ q.at = "found" => q \in FoundDay /\ q.id <= n
           /\ q.at \in {"import", "done", "refused"} =>
                 q \in YearImport /\ Follows(q, n) /\ (q.alone => Made(q, t))
           /\ q.at \in {"idle", "found", "import", "done", "refused"}
           /\ q.at = "idle" => q = Calendar!Idle
BY DEF Asked, FoundDay, YearImport, Calendar!Idle

\* A save keeps a row for a date.
LEMMA SaveIsSound ==
    ASSUME DaysSound(day, drawn), NEW i \in Calendar!Ids, NEW entry \in Calendar!Row,
           Calendar!Save(i, entry), NEW n \in 0..MaxRows, i <= n, drawn <= n
    PROVE  DaysSound(day', n)
<1>1. day' = [day EXCEPT ![i] = entry] /\ \A j \in Calendar!Ids \ {i} : day[j].date # entry.date
  BY DEF Calendar!Save, Calendar!Taken
<1>2. /\ day' \in [Calendar!Ids -> Calendar!Row \cup {Calendar!NoDay}]
      /\ day'[i] = entry /\ \A j \in Calendar!Ids \ {i} : day'[j] = day[j]
  BY <1>1 DEF DaysSound
<1>3. \A j \in Calendar!Ids : j > n => j # i /\ j > drawn
  BY PartsAssumption DEF DaysSound, Calendar!Ids
<1>4. \A j \in Calendar!Ids : j > n => day'[j] = Calendar!NoDay
  BY <1>2, <1>3 DEF DaysSound
<1>5. \A j, k \in Calendar!Ids : (j # k /\ day'[j].date \in Dates) => day'[j].date # day'[k].date
  <2>1. TAKE j, k \in Calendar!Ids
  <2>2. CASE j = i
    BY <1>1, <1>2, <2>2
  <2>3. CASE k = i
    BY <1>1, <1>2, <2>3
  <2>4. CASE j # i /\ k # i
    BY <1>2, <2>4 DEF DaysSound
  <2> QED
    BY <2>2, <2>3, <2>4
<1> QED
  BY <1>2, <1>4, <1>5 DEF DaysSound

\* The day an import saves next, and the row it saves it to.
Saving(q, n, e, i) ==
    LET known == {k \in q.found : q.dates[k] = e.date}
    IN  /\ q.next <= Len(q.days) /\ e = q.days[q.next]
        /\ i \in Calendar!Ids
        /\ i \in known \/ (known = {} /\ i > n)

\* Nobody else has the date an import that is alone is about to save.
LEMMA NotTaken ==
    ASSUME NEW t, NEW n, DaysSound(t, n), NEW q \in YearImport, Follows(q, n), Made(q, t),
           NEW e, NEW i, Saving(q, n, e, i)
    PROVE  /\ e \in Calendar!Row /\ e.date \in Calendar!DatesOf(q.file) \ DoneDates(q)
           /\ e.type = FinalType(q.file, e.date)
           /\ t[i].date \in {e.date, "none"}
           /\ \A j \in Calendar!Ids \ {i} : t[j].date # e.date
<1>1. q.file \in Years /\ q.next \in Nat \ {0} /\ q.days \in Seq(Calendar!Row)
      /\ q.days = Calendar!Unique(q.file)
  BY DEF YearImport, Follows
<1>2. q.next \in DOMAIN q.days /\ 1..(q.next - 1) \subseteq DOMAIN q.days
      /\ q.next \notin 1..(q.next - 1) /\ e = q.days[q.next]
  BY <1>1 DEF Saving
<1>3. /\ e \in Calendar!Row /\ e.date \in Calendar!DatesOf(q.file)
      /\ e.type = FinalType(q.file, e.date) /\ e.date \in Dates
  BY <1>1, <1>2, DaysOfFile
<1>4. e.date \notin DoneDates(q)
  <2> SUFFICES ASSUME NEW k \in 1..(q.next - 1) PROVE q.days[k].date # e.date
    BY DEF DoneDates
  <2>1. k \in DOMAIN q.days /\ k # q.next
    BY <1>2
  <2> QED
    BY <1>1, <1>2, <2>1, DaysOfFile
<1>5. ASSUME NEW j \in Calendar!Ids, t[j].date = e.date
      PROVE  j \in q.found /\ q.dates[j] = e.date
  BY <1>3, <1>4, <1>5 DEF Made
<1>6. CASE i \in q.found /\ q.dates[i] = e.date
  <2>1. t[i].date = e.date /\ i \in Calendar!Ids
    BY <1>6 DEF Made, Saving
  <2> QED
    BY <1>3, <1>4, <2>1 DEF DaysSound
<1>7. CASE i \in Calendar!Ids /\ i > n /\ {k \in q.found : q.dates[k] = e.date} = {}
  <2>1. t[i].date = "none"
    BY <1>7, DayFacts DEF DaysSound
  <2> QED
    BY <1>3, <1>4, <1>5, <1>7, <2>1
<1> QED
  BY <1>6, <1>7 DEF Saving

\* What one save makes of the rows.
LEMMA SavedDay ==
    ASSUME NEW t, NEW n, DaysSound(t, n), NEW q \in YearImport, Follows(q, n), Made(q, t),
           q.at = "import", NEW e, NEW i, Saving(q, n, e, i),
           NEW u, u = [t EXCEPT ![i] = e], NEW to, to = [q EXCEPT !.next = @ + 1]
    PROVE  Made(to, u)
<1>1. /\ e \in Calendar!Row /\ e.date \in Calendar!DatesOf(q.file) \ DoneDates(q)
      /\ e.type = FinalType(q.file, e.date)
      /\ t[i].date \in {e.date, "none"}
      /\ \A j \in Calendar!Ids \ {i} : t[j].date # e.date
  BY NotTaken
<1>2. i \in Calendar!Ids /\ e = q.days[q.next] /\ e.date \in Dates /\ "none" \notin Dates
  BY <1>1, PartsAssumption DEF Saving, Calendar!Row
<1>3. u[i] = e /\ \A j \in Calendar!Ids \ {i} : u[j] = t[j]
  BY <1>2 DEF DaysSound
<1>4. /\ to.at = q.at /\ to.days = q.days /\ to.next = q.next + 1 /\ to.found = q.found
      /\ to.dates = q.dates /\ to.file = q.file /\ to.before = q.before
  BY DEF YearImport
<1>5. DoneDates(to) = DoneDates(q) \cup {e.date}
  <2>1. q.next \in Nat \ {0}
    BY DEF YearImport
  <2>2. 1..(to.next - 1) = 1..(q.next - 1) \cup {q.next}
    BY <1>4, <2>1
  <2> QED
    BY <1>2, <1>4, <2>2 DEF DoneDates
<1>6. TypesOf(u) = [d \in Dates |-> IF d \in DoneDates(to) THEN {FinalType(to.file, d)}
                                                            ELSE to.before[d]]
  <2>1. ASSUME NEW d \in Dates
        PROVE  {u[j].type : j \in {k \in Calendar!Ids : u[k].date = d}} =
                 IF d \in DoneDates(to) THEN {FinalType(to.file, d)} ELSE to.before[d]
    <3>1. CASE d = e.date
      <4>1. {k \in Calendar!Ids : u[k].date = d} = {i}
        BY <1>1, <1>2, <1>3, <3>1
      <4> QED
        BY <1>1, <1>3, <1>4, <1>5, <3>1, <4>1
    <3>2. CASE d # e.date
      <4>1. {k \in Calendar!Ids : u[k].date = d} = {k \in Calendar!Ids : t[k].date = d}
        BY <1>1, <1>2, <1>3, <3>2
      <4>2. \A k \in {k \in Calendar!Ids : t[k].date = d} : u[k] = t[k]
        BY <1>1, <1>2, <1>3, <3>2
      <4>3. {u[j].type : j \in {k \in Calendar!Ids : u[k].date = d}} = TypesOf(t)[d]
        BY <4>1, <4>2 DEF TypesOf
      <4>4. TypesOf(t)[d] = IF d \in DoneDates(q) THEN {FinalType(q.file, d)} ELSE q.before[d]
        BY DEF Made
      <4> QED
        BY <1>4, <1>5, <3>2, <4>3, <4>4
    <3> QED
      BY <3>1, <3>2
  <2> QED
    BY <2>1 DEF TypesOf
<1>7. \A k \in to.found : u[k].date = to.dates[k]
  <2>1. TAKE k \in to.found
  <2>2. k \in Calendar!Ids /\ k \in q.found
    BY <1>4 DEF YearImport
  <2>3. CASE k # i
    BY <1>3, <1>4, <2>2, <2>3 DEF Made
  <2>4. CASE k = i
    <3>1. k <= n
      BY <2>2 DEF Follows
    <3>2. q.dates[i] = e.date
      BY <1>2, <2>2, <2>4, <3>1 DEF Saving, DaysSound, Calendar!Ids
    <3> QED
      BY <1>3, <1>4, <2>4, <3>2
  <2> QED
    BY <2>3, <2>4
<1>8. \A k \in Calendar!Ids :
         (u[k].date \in Calendar!DatesOf(to.file) \ DoneDates(to)) => k \in to.found
  BY <1>3, <1>4, <1>5 DEF Made
<1> QED
  BY <1>4, <1>6, <1>7, <1>8 DEF Made

\* A request that goes on while the rows stay.
LEMMA AskedGoes ==
    ASSUME CalendarInv, NEW a \in Admins, NEW to, Calendar!Goes(a, to), Asked(to, day, drawn),
           UNCHANGED <<day, drawn>>
    PROVE  CalendarInv'
<1>1. DOMAIN asked = Admins
  BY DEF CalendarInv
<1>2. /\ asked' = [b \in Admins |-> asked'[b]]
      /\ asked'[a] = to /\ \A b \in Admins \ {a} : asked'[b] = asked[b]
  BY <1>1 DEF Calendar!Goes
<1> QED
  BY <1>2 DEF CalendarInv

\* A request that has written: imports of others are no longer alone.
LEMMA AskedWrites ==
    ASSUME CalendarInv, NEW a \in Admins, NEW to, Calendar!Writes(a, to),
           DaysSound(day', drawn'), drawn <= drawn', Asked(to, day', drawn')
    PROVE  CalendarInv'
<1>1. DOMAIN asked = Admins
  BY DEF CalendarInv
<1>2. /\ asked' = [b \in Admins |-> asked'[b]]
      /\ asked'[a] = to
      /\ \A b \in Admins \ {a} : asked'[b] =
            IF asked[b].at \in {"import", "done", "refused"}
            THEN [asked[b] EXCEPT !.alone = FALSE] ELSE asked[b]
  BY <1>1 DEF Calendar!Writes, Calendar!Disturbed
<1>3. drawn \in Nat /\ drawn' \in Nat
  BY PartsAssumption DEF CalendarInv, DaysSound
<1>4. ASSUME NEW b \in Admins \ {a} PROVE Asked(asked'[b], day', drawn')
  <2>1. PICK q : q = asked[b] /\ Asked(q, day, drawn)
    BY DEF CalendarInv
  <2>2. PICK new : new = asked'[b]
    OBVIOUS
  <2>3. CASE q.at \in {"import", "done", "refused"}
    <3>1. new = [q EXCEPT !.alone = FALSE]
      BY <1>2, <2>1, <2>2, <2>3
    <3>2. q \in YearImport /\ Follows(q, drawn)
      BY <2>1, <2>3, AskedKinds
    <3>3. new \in YearImport
      BY <3>1, <3>2 DEF YearImport
    <3>4. /\ new.at = q.at /\ new.days = q.days /\ new.file = q.file /\ new.next = q.next
          /\ new.found = q.found /\ new.dates = q.dates /\ new.alone = FALSE
      BY <3>1, <3>2 DEF YearImport
    <3>5. \A i \in q.found : i \in Nat
      BY <3>2, PartsAssumption DEF YearImport, Calendar!Ids
    <3>6. Follows(new, drawn')
      BY <1>3, <3>2, <3>4, <3>5 DEF Follows
    <3> QED
      BY <2>2, <3>3, <3>4, <3>6 DEF Asked
  <2>4. CASE q.at \notin {"import", "done", "refused"}
    <3>1. new = q
      BY <1>2, <2>1, <2>2, <2>4
    <3>2. q = Calendar!Idle \/ (q \in FoundDay /\ q.id <= drawn)
      BY <2>1, <2>4 DEF Asked, YearImport
    <3>3. q \in FoundDay => q.id \in Nat
      BY PartsAssumption DEF FoundDay, Calendar!Ids
    <3> QED
      BY <1>3, <2>2, <3>1, <3>2, <3>3 DEF Asked
  <2> QED
    BY <2>3, <2>4
<1> QED
  BY <1>2, <1>4 DEF CalendarInv

LEMMA CreateHolds ==
    ASSUME CalendarInv, NEW a \in Admins, NEW entry \in Calendar!Row, Calendar!CreateDay(a, entry)
    PROVE  CalendarInv'
<1>1. drawn + 1 \in Calendar!Ids /\ drawn' = drawn + 1 /\ Calendar!Save(drawn + 1, entry)
         /\ Calendar!Writes(a, Calendar!Idle)
  BY DEF Calendar!CreateDay
<1>2. DaysSound(day, drawn) /\ drawn \in Nat /\ MaxRows \in Nat
  BY PartsAssumption DEF CalendarInv, DaysSound
<1>3. drawn' \in 0..MaxRows /\ drawn + 1 <= drawn' /\ drawn <= drawn'
  BY <1>1, <1>2 DEF Calendar!Ids
<1>4. PICK n \in 0..MaxRows : n = drawn' /\ drawn + 1 <= n /\ drawn <= n
  BY <1>3
<1>5. DaysSound(day', drawn')
  BY <1>1, <1>2, <1>4, SaveIsSound
<1> QED
  BY <1>1, <1>3, <1>5, AskedWrites DEF Asked

LEMMA FindHolds ==
    ASSUME CalendarInv, NEW a \in Admins, NEW i \in Calendar!Ids, Calendar!Find(a, i)
    PROVE  CalendarInv'
<1>1. PICK to : to = [at |-> "found", id |-> i, row |-> day[i]]
  OBVIOUS
<1>2. day[i] \in Calendar!Row /\ i <= drawn
  BY PartsAssumption DEF Calendar!Find, Calendar!Present, CalendarInv, DaysSound, Calendar!Ids
<1>3. to \in FoundDay /\ to.id <= drawn
  BY <1>1, <1>2 DEF FoundDay
<1> QED
  BY <1>1, <1>3, AskedGoes DEF Calendar!Find, Asked

LEMMA UpdateHolds ==
    ASSUME CalendarInv, NEW a \in Admins, NEW date \in Dates, NEW type \in DayTypes,
           Calendar!UpdateDay(a, date, type)
    PROVE  CalendarInv'
<1>1. PICK i : i = asked[a].id
  OBVIOUS
<1>2. asked[a] \in FoundDay /\ asked[a].id <= drawn
  BY AskedKinds DEF CalendarInv, Calendar!UpdateDay, Calendar!At
<1>3. i \in Calendar!Ids /\ i <= drawn
  BY <1>1, <1>2 DEF FoundDay
<1>4. PICK entry \in Calendar!Row : entry = [date |-> date, type |-> type]
  BY DEF Calendar!Row
<1>5. Calendar!Save(i, entry) /\ Calendar!Writes(a, Calendar!Idle) /\ drawn' = drawn
  BY <1>1, <1>4 DEF Calendar!UpdateDay
<1>6. DaysSound(day, drawn) /\ drawn \in 0..MaxRows /\ drawn <= drawn
  BY PartsAssumption DEF CalendarInv, DaysSound
<1>7. DaysSound(day', drawn)
  BY <1>3, <1>5, <1>6, SaveIsSound
<1> QED
  BY <1>5, <1>6, <1>7, AskedWrites DEF Asked

LEMMA DeleteHolds ==
    ASSUME CalendarInv, NEW a \in Admins, Calendar!DeleteDay(a)
    PROVE  CalendarInv'
<1>1. day' = [day EXCEPT ![asked[a].id] = Calendar!NoDay] /\ drawn' = drawn
         /\ Calendar!Writes(a, Calendar!Idle)
  BY DEF Calendar!DeleteDay
<1>2. DaysSound(day, drawn) /\ drawn <= drawn /\ Calendar!NoDay.date \notin Dates
  BY PartsAssumption DEF CalendarInv, DaysSound, Calendar!NoDay
<1>3. day' \in [Calendar!Ids -> Calendar!Row \cup {Calendar!NoDay}]
  BY <1>1, <1>2 DEF DaysSound
<1>4. \A j \in Calendar!Ids : day'[j] = day[j] \/ day'[j] = Calendar!NoDay
  BY <1>1, <1>2 DEF DaysSound
<1>5. \A i, j \in Calendar!Ids : (i # j /\ day'[i].date \in Dates) => day'[i].date # day'[j].date
  <2>1. TAKE i, j \in Calendar!Ids
  <2>2. CASE day'[i] = Calendar!NoDay
    BY <1>2, <2>2
  <2>3. CASE day'[i] = day[i] /\ day'[j] = Calendar!NoDay
    BY <1>2, <2>3
  <2>4. CASE day'[i] = day[i] /\ day'[j] = day[j]
    BY <1>2, <2>4 DEF DaysSound
  <2> QED
    BY <1>4, <2>2, <2>3, <2>4
<1>6. DaysSound(day', drawn')
  BY <1>1, <1>2, <1>3, <1>4, <1>5 DEF DaysSound
<1> QED
  BY <1>1, <1>2, <1>6, AskedWrites DEF Asked

\* The calendar of the module is what the rows give.
LEMMA CalendarIs == Calendar!Calendar = TypesOf(day)
BY DEF Calendar!Calendar, TypesOf

LEMMA StartYearHolds ==
    ASSUME CalendarInv, NEW a \in Admins, NEW file \in Years, Calendar!StartImport(a, file)
    PROVE  CalendarInv'
<1>1. PICK days : days = Calendar!Unique(file)
  OBVIOUS
<1>2. PICK found : found = {i \in Calendar!Ids : day[i].date \in Calendar!DatesOf(file)}
  OBVIOUS
<1>3. PICK dates : dates = [i \in Calendar!Ids |-> day[i].date]
  OBVIOUS
<1>4. PICK before : before = TypesOf(day)
  OBVIOUS
<1>5. PICK to : to = [at |-> "import", days |-> days, next |-> 1, found |-> found,
                      dates |-> dates, alone |-> TRUE, file |-> file, before |-> before]
  OBVIOUS
<1>6. Calendar!Goes(a, to) /\ UNCHANGED <<day, drawn>>
  BY <1>1, <1>2, <1>3, <1>4, <1>5, CalendarIs DEF Calendar!StartImport
<1>7. /\ days \in Seq(Calendar!Row) /\ Calendar!DatesOf(file) \subseteq Dates /\ Len(days) \in Nat
  BY <1>1, DaysOfFile
<1>8. DaysSound(day, drawn)
  BY DEF CalendarInv
<1>9. dates \in [Calendar!Ids -> Dates \cup {"none"}] /\ \A i \in Calendar!Ids : dates[i] = day[i].date
  BY <1>3, <1>8, DayFacts
<1>10. before \in [Dates -> SUBSET DayTypes]
  <2>1. ASSUME NEW i \in Calendar!Ids, day[i].date \in Dates PROVE day[i].type \in DayTypes
    BY <1>8, <2>1, DayFacts DEF DaysSound, Calendar!Row
  <2> QED
    BY <1>4, <2>1 DEF TypesOf
<1>11. to \in YearImport
  BY <1>2, <1>5, <1>7, <1>9, <1>10 DEF YearImport
<1>12. /\ to.at = "import" /\ to.days = days /\ to.next = 1 /\ to.found = found
       /\ to.dates = dates /\ to.file = file /\ to.before = before
  BY <1>5
<1>13. Follows(to, drawn)
  <2>1. \A i \in found : i <= drawn /\ dates[i] \in Dates
    <3>1. TAKE i \in found
    <3>2. i \in Calendar!Ids /\ day[i].date \in Dates
      BY <1>2, <1>7
    <3>3. ~(i > drawn)
      BY <1>8, <3>2, DayFacts DEF DaysSound
    <3> QED
      BY <1>8, <1>9, <3>2, <3>3, PartsAssumption DEF DaysSound, Calendar!Ids
  <2> QED
    BY <1>1, <1>7, <1>12, <2>1 DEF Follows
<1>14. Made(to, day)
  <2>1. DoneDates(to) = {}
    BY <1>12 DEF DoneDates
  <2>2. TypesOf(day) = [d \in Dates |-> before[d]]
    BY <1>4 DEF TypesOf
  <2> QED
    BY <1>2, <1>9, <1>12, <2>1, <2>2 DEF Made
<1> QED
  BY <1>6, <1>11, <1>13, <1>14, AskedGoes DEF Asked

LEMMA ImportDayHolds ==
    ASSUME CalendarInv, NEW a \in Admins, Calendar!ImportDay(a)
    PROVE  CalendarInv'
<1>1. PICK q \in YearImport : /\ q = asked[a] /\ q.at = "import" /\ Follows(q, drawn)
                              /\ q.alone => Made(q, day)
  BY AskedKinds DEF CalendarInv, Calendar!ImportDay, Calendar!At
<1>2. PICK e : e = q.days[q.next]
  OBVIOUS
<1> DEFINE known == {k \in q.found : q.dates[k] = e.date}
<1>3. PICK i : i = IF known # {} THEN CHOOSE k \in known : TRUE ELSE drawn + 1
  OBVIOUS
<1>4. PICK to : to = [q EXCEPT !.next = @ + 1]
  OBVIOUS
<1>5. PICK stop : stop = [q EXCEPT !.at = "refused"]
  OBVIOUS
<1>6. /\ q.next <= Len(q.days) /\ i \in Calendar!Ids
      /\ \/ /\ Calendar!Save(i, e) /\ Calendar!Writes(a, to)
            /\ drawn' = IF known = {} THEN i ELSE drawn
         \/ /\ Calendar!Taken(e.date, i) /\ Calendar!Goes(a, stop) /\ UNCHANGED <<day, drawn>>
  BY <1>1, <1>2, <1>3, <1>4, <1>5 DEF Calendar!ImportDay
<1>7. DaysSound(day, drawn) /\ drawn \in Nat /\ MaxRows \in Nat
  BY PartsAssumption DEF CalendarInv, DaysSound
<1>8. Saving(q, drawn, e, i)
  <2>1. CASE known # {}
    BY <1>2, <1>3, <1>6, <2>1 DEF Saving
  <2>2. CASE known = {}
    BY <1>2, <1>3, <1>6, <1>7, <2>2 DEF Saving
  <2> QED
    BY <2>1, <2>2
<1>9. q.next \in Nat \ {0} /\ q.days \in Seq(Calendar!Row) /\ q.next + 1 \in Nat \ {0}
  BY DEF YearImport
<1>10. e \in Calendar!Row
  <2>1. q.next \in 1..Len(q.days)
    BY <1>6, <1>9
  <2> QED
    BY <1>2, <1>9, <2>1
<1>11. CASE /\ Calendar!Save(i, e) /\ Calendar!Writes(a, to)
            /\ drawn' = IF known = {} THEN i ELSE drawn
  <2>1. drawn' \in 0..MaxRows /\ drawn <= drawn' /\ i <= drawn'
    <3>1. CASE known = {}
      BY <1>3, <1>6, <1>7, <1>11, <3>1 DEF Calendar!Ids
    <3>2. CASE known # {}
      <4>1. i \in q.found
        BY <1>3, <3>2
      <4> QED
        BY <1>1, <1>7, <1>11, <3>2, <4>1 DEF Follows, DaysSound
    <3> QED
      BY <3>1, <3>2
  <2>2. PICK n \in 0..MaxRows : n = drawn' /\ drawn <= n /\ i <= n
    BY <2>1
  <2>3. DaysSound(day', n)
    BY <1>6, <1>7, <1>10, <1>11, <2>2, SaveIsSound
  <2>4. to \in YearImport
    BY <1>4, <1>9 DEF YearImport
  <2>5. /\ to.at = q.at /\ to.days = q.days /\ to.next = q.next + 1 /\ to.found = q.found
        /\ to.dates = q.dates /\ to.file = q.file /\ to.alone = q.alone
    BY <1>4 DEF YearImport
  <2>6. Follows(to, n)
    <3>1. \A k \in q.found : k \in Nat
      BY PartsAssumption DEF YearImport, Calendar!Ids
    <3>2. \A k \in q.found : k <= n
      BY <1>1, <1>7, <2>2, <3>1 DEF Follows
    <3>3. q.next + 1 <= Len(q.days) + 1
      BY <1>6, <1>9
    <3> QED
      BY <1>1, <2>5, <3>2, <3>3 DEF Follows
  <2>7. ASSUME q.alone PROVE Made(to, day')
    <3>1. PICK u : u = [day EXCEPT ![i] = e]
      OBVIOUS
    <3>2. u = day'
      BY <1>11, <3>1 DEF Calendar!Save
    <3>3. Made(to, u)
      BY <1>1, <1>4, <1>7, <1>8, <2>7, <3>1, SavedDay
    <3> QED
      BY <3>2, <3>3
  <2>8. Asked(to, day', drawn')
    BY <2>2, <2>4, <2>5, <2>6, <2>7 DEF Asked
  <2> QED
    BY <1>11, <2>2, <2>3, <2>8, AskedWrites
<1>12. CASE Calendar!Taken(e.date, i) /\ Calendar!Goes(a, stop) /\ UNCHANGED <<day, drawn>>
  <2>1. ~q.alone
    <3> SUFFICES ASSUME q.alone PROVE FALSE
      OBVIOUS
    <3>1. \A j \in Calendar!Ids \ {i} : day[j].date # e.date
      BY <1>1, <1>7, <1>8, NotTaken
    <3> QED
      BY <1>12, <3>1 DEF Calendar!Taken
  <2>2. stop \in YearImport
    BY <1>5 DEF YearImport
  <2>3. /\ stop.at = "refused" /\ stop.days = q.days /\ stop.next = q.next /\ stop.found = q.found
        /\ stop.dates = q.dates /\ stop.file = q.file /\ stop.alone = q.alone
    BY <1>5 DEF YearImport
  <2>4. Follows(stop, drawn)
    BY <1>1, <2>3 DEF Follows
  <2> QED
    BY <1>12, <2>1, <2>2, <2>3, <2>4, AskedGoes DEF Asked
<1> QED
  BY <1>6, <1>11, <1>12

LEMMA ImportEndHolds ==
    ASSUME CalendarInv, NEW a \in Admins, Calendar!ImportEnds(a)
    PROVE  CalendarInv'
<1>1. PICK q \in YearImport : /\ q = asked[a] /\ q.at = "import" /\ Follows(q, drawn)
                              /\ q.alone => Made(q, day)
  BY AskedKinds DEF CalendarInv, Calendar!ImportEnds, Calendar!At
<1>2. PICK to : to = [q EXCEPT !.at = "done"]
  OBVIOUS
<1>3. Calendar!Goes(a, to) /\ q.next > Len(q.days) /\ UNCHANGED <<day, drawn>>
  BY <1>1, <1>2 DEF Calendar!ImportEnds
<1>4. to \in YearImport
  BY <1>2 DEF YearImport
<1>5. /\ to.at = "done" /\ to.days = q.days /\ to.next = q.next /\ to.found = q.found
      /\ to.dates = q.dates /\ to.file = q.file /\ to.alone = q.alone /\ to.before = q.before
  BY <1>2 DEF YearImport
<1>6. Follows(to, drawn)
  BY <1>1, <1>3, <1>5 DEF Follows
<1>7. DoneDates(to) = DoneDates(q)
  BY <1>5 DEF DoneDates
<1>8. q.alone => Made(to, day)
  BY <1>1, <1>5, <1>7 DEF Made
<1> QED
  BY <1>3, <1>4, <1>5, <1>6, <1>8, AskedGoes DEF Asked

LEMMA CalendarHolds ==
    ASSUME CalendarInv, Calendar!Next
    PROVE  CalendarInv'
<1>1. ASSUME NEW a \in Admins, Calendar!Leave(a) PROVE CalendarInv'
  BY <1>1, AskedGoes DEF Calendar!Leave, Asked
<1> QED
  BY <1>1, CreateHolds, FindHolds, UpdateHolds, DeleteHolds, StartYearHolds, ImportDayHolds,
     ImportEndHolds, Zenon DEF Calendar!Next

\* What an import alone has made is what the module says of it.
LEMMA MadeIsPrefix == CalendarInv => Calendar!ImportIsPrefix
<1> SUFFICES ASSUME CalendarInv, NEW a \in Admins, NEW q, q = asked[a],
                    q.at \in {"import", "done", "refused"}, q.alone
             PROVE  /\ q.at # "refused"
                    /\ Calendar!Calendar = [d \in Dates |-> IF d \in DoneDates(q)
                                              THEN {FinalType(q.file, d)} ELSE q.before[d]]
                    /\ q.at = "done" => DoneDates(q) = Calendar!DatesOf(q.file)
  BY DEF Calendar!ImportIsPrefix, DoneDates, FinalType
<1>1. q \in YearImport /\ Follows(q, drawn) /\ Made(q, day)
  BY AskedKinds DEF CalendarInv
<1>2. ASSUME q.at = "done" PROVE DoneDates(q) = Calendar!DatesOf(q.file)
  <2>1. q.days \in Seq(Calendar!Row) /\ q.next \in Nat /\ q.file \in Years
           /\ q.days = Calendar!Unique(q.file)
    BY <1>1 DEF YearImport, Follows
  <2>2. q.next = Len(q.days) + 1
    BY <1>1, <1>2, <2>1 DEF Follows
  <2>3. DOMAIN q.days = 1..(q.next - 1)
    BY <2>1, <2>2
  <2> QED
    BY <2>1, <2>3, DaysOfFile DEF DoneDates
<1> QED
  BY <1>1, <1>2, CalendarIs DEF Made

\* A failed or interrupted import of the calendar that nobody disturbed leaves
\* the first days of its file over what it found; one that ends leaves them
\* all, and none is refused.
THEOREM ImportsArePrefixes == PartsSpec => []ImportIsPrefix
<1>1. PartsInit => CalendarInv
  <2> SUFFICES ASSUME PartsInit PROVE CalendarInv
    OBVIOUS
  <2>1. /\ day = [i \in Calendar!Ids |-> Calendar!NoDay] /\ drawn = 0
        /\ asked = [a \in Admins |-> Calendar!Idle]
    BY DEF PartsInit, Calendar!Init
  <2>2. Calendar!NoDay.date \notin Dates
    BY PartsAssumption DEF Calendar!NoDay
  <2>3. DaysSound(day, drawn)
    BY <2>1, <2>2, PartsAssumption DEF DaysSound
  <2> QED
    BY <2>1, <2>3 DEF CalendarInv, Asked
<1>2. CalendarInv /\ [PartsNext]_allVars => CalendarInv'
  <2>1. ASSUME CalendarInv, UNCHANGED calendarVars PROVE CalendarInv'
    BY <2>1 DEF CalendarInv, calendarVars
  <2>2. ASSUME CalendarInv, PartsNext PROVE CalendarInv'
    BY <2>1, <2>2, CalendarHolds DEF PartsNext
  <2> QED
    BY <2>1, <2>2 DEF allVars
<1>3. CalendarInv => ImportIsPrefix
  <2> SUFFICES ASSUME CalendarInv PROVE Calendar!TypeOK
    BY MadeIsPrefix DEF ImportIsPrefix
  <2>1. \A a \in Admins : asked[a].at \in {"idle", "found", "import", "done", "refused"}
    BY AskedKinds DEF CalendarInv
  <2> QED
    BY <2>1 DEF CalendarInv, DaysSound, Calendar!TypeOK
<1> QED
  BY <1>1, <1>2, <1>3, PTL DEF PartsSpec

-----------------------------------------------------------------------------
(* Imports of locations: what a transaction holds                          *)

Values == Nat \cup {Locations!Absent}
Partial == UNION {[S -> Values] : S \in SUBSET LocationKeys}
Busyness == {"parents", "read", "rows", "stale", "delete", "commit"}
Running == [at : Busyness, file : ImportFiles, n : Nat \ {0}, known : SUBSET LocationKeys,
            cache : SUBSET (LocationKeys \cup {"none"}), mine : Partial,
            stmt : SUBSET [key : LocationKeys, was : Values],
            aborted : BOOLEAN, skipped : BOOLEAN, gone : SUBSET AirportKeys,
            alone : BOOLEAN, late : SUBSET LocationKeys, overtaken : SUBSET LocationKeys]
Ended == [at : {"purge", "answered", "failed"}, file : ImportFiles, alone : BOOLEAN,
         skipped : BOOLEAN]

\* What an import q sees of key k in the table t.
Seen(q, t, k) == IF k \in DOMAIN q.mine THEN q.mine[k] ELSE t[k]
NoBad(file) == \A n \in DOMAIN file.rows : ~file.rows[n].bad

\* The row of a code says what the last of the file's rows before the n-th
\* says, unless it has been overtaken or is about to be written again.
LastSays(q, t, m) ==
    \E j \in m..(q.n - 1) :
       /\ q.file.rows[j].code = q.file.rows[m].code
       /\ \A i \in 1..(q.n - 1) : q.file.rows[i].code = q.file.rows[m].code => i <= j
       /\ Seen(q, t, q.file.rows[m].code) = q.file.rows[j].says
Unsure(q) == q.overtaken \cup {s.key : s \in q.stmt}
RowsSaved(q, t) ==
    \A m \in 1..(q.n - 1) : q.file.rows[m].code \in Unsure(q) \/ LastSays(q, t, m)

\* A statement is for a parent or a row, one at a time; and the row of an
\* UPDATE is known of unless it has gone since its SELECT.
StmtFits(q) ==
    /\ \A s \in q.stmt : /\ q.at \in {"parents", "rows"}
                         /\ q.at = "parents" => s.key \in Locations!Parents(q.file) \ q.cache
                         /\ q.at = "rows" => q.n <= Len(q.file.rows)
                         /\ \A z \in q.stmt : s = z
    /\ \A s \in q.stmt : (s.was # Locations!Absent /\ s.key \in Locations!Codes(q.file))
                            => s.key \in q.known \cup q.overtaken

\* What the transaction holds: nothing once it is aborted, else the rows so
\* far with what they depend on, and in the end the deletions.
Fit(q, t) ==
    /\ q.skipped = q.aborted
    /\ q.aborted => q.mine = Locations!Nothing /\ q.at \in {"rows", "stale", "commit"}
    /\ q.at \in {"parents", "read"} => q.n = 1
    /\ q.at \in {"stale", "delete", "commit"} => q.n > Len(q.file.rows)
    /\ q.cache \subseteq Locations!Parents(q.file) \cup {"none"}
    /\ DOMAIN q.mine \subseteq Locations!Codes(q.file) \cup Locations!Parents(q.file) \cup q.gone
    /\ q.gone \cap Locations!Codes(q.file) = {}
    /\ q.at \in {"parents", "read", "rows", "stale"} => q.gone = {}
    /\ \A k \in DOMAIN q.mine : q.mine[k] = Locations!Absent => k \in q.gone
    /\ ~q.aborted =>
         /\ q.n <= Len(q.file.rows) + 1
         /\ RowsSaved(q, t)
         /\ \A m \in 1..(q.n - 1) : q.file.rows[m].parent \in q.cache
         /\ \A k \in q.cache \ {"none"} : Seen(q, t, k) # Locations!Absent
    /\ (q.at \in {"delete", "commit"} /\ q.file.dataset = "airports") =>
         \A k \in AirportKeys \ (Locations!Codes(q.file) \cup q.late) :
             t[k] # Locations!Absent => k \in q.gone
    /\ q.at = "commit" => \A k \in q.gone : k \in DOMAIN q.mine /\ q.mine[k] = Locations!Absent
    /\ StmtFits(q)

\* An import nobody disturbs inserts nothing that is there, and knows of every
\* row there is for its codes.
Quiet(q, t) ==
    q.alone =>
      /\ \A s \in q.stmt : s.was = Locations!Absent => Seen(q, t, s.key) = Locations!Absent
      /\ NoBad(q.file) => ~q.aborted
      /\ q.at = "parents" =>
           \A k \in Locations!Parents(q.file) \ q.cache : Seen(q, t, k) = Locations!Absent
      /\ (q.at = "rows" /\ ~q.aborted) =>
           \A k \in Locations!Codes(q.file) : Seen(q, t, k) # Locations!Absent => k \in q.known

Clean(q) == (q.alone /\ NoBad(q.file)) => q.at # "failed" /\ ~q.skipped

ImportInv ==
    /\ table \in [LocationKeys -> Values]
    /\ import \in [Admins -> Running \cup Ended \cup {Locations!Idle}]
    /\ \A r \in Admins : import[r] \in Running => Fit(import[r], table) /\ Quiet(import[r], table)
    /\ \A r \in Admins : import[r] \in Ended => Clean(import[r])
    /\ \A r, p \in Admins : r # p /\ Locations!Busy(r) /\ import[r].alone => ~Locations!Busy(p)

-----------------------------------------------------------------------------
LEMMA FileFacts ==
    ASSUME NEW file \in ImportFiles
    PROVE  /\ Len(file.rows) \in Nat /\ DOMAIN file.rows = 1..Len(file.rows)
           /\ \A n \in 1..Len(file.rows) :
                /\ file.rows[n].code \in LocationKeys \cap Locations!Codes(file)
                /\ file.rows[n].parent \in Locations!Parents(file)
                /\ file.rows[n].says \in Nat
           /\ Locations!Codes(file) \subseteq LocationKeys
           /\ Locations!Parents(file) \subseteq LocationKeys \cup {"none"}
           /\ Locations!Codes(file) \cap Locations!Parents(file) = {}
           /\ Locations!Parents(file) \cap AirportKeys = {}
           /\ "none" \notin Locations!Codes(file)
<1>1. file.rows \in Seq(FileRows)
  BY PartsAssumption DEF ImportFile
<1>2. Len(file.rows) \in Nat /\ DOMAIN file.rows = 1..Len(file.rows)
  BY <1>1
<1>3. \A n \in DOMAIN file.rows : file.rows[n] \in FileRows
  BY <1>1, <1>2
<1>4. \A n, m \in DOMAIN file.rows : file.rows[n].parent \notin {file.rows[m].code} \cup AirportKeys
  BY PartsAssumption
<1>5. "none" \notin LocationKeys
  BY PartsAssumption
<1> QED
  BY <1>2, <1>3, <1>4, <1>5 DEF FileRows, Locations!Codes, Locations!Parents

\* Where an import is says which fields it has.
LEMMA Kinds ==
    ASSUME ImportInv, NEW r \in Admins
    PROVE  /\ import[r].at \in Busyness => import[r] \in Running
           /\ import[r].at \in {"purge", "answered", "failed"} => import[r] \in Ended
           /\ Locations!Busy(r) <=> (import[r].at \in Busyness \cup {"purge"})
           /\ Locations!InTransaction(r) <=> import[r].at \in Busyness
           /\ import[r].at \in {"idle", "purge", "answered", "failed"} \cup Busyness
BY DEF ImportInv, Running, Ended, Busyness, Locations!Idle, Locations!Busy,
       Locations!InTransaction, Locations!At

LEMMA PartialFacts ==
    /\ \A f \in Partial : DOMAIN f \subseteq LocationKeys /\ \A k \in DOMAIN f : f[k] \in Values
    /\ Locations!Nothing \in Partial /\ DOMAIN Locations!Nothing = {}
    /\ \A S \in SUBSET LocationKeys : \A f \in [S -> Values] : f \in Partial
<1>1. \A S \in SUBSET LocationKeys : \A f \in [S -> Values] : f \in Partial
  BY DEF Partial
<1>2. Locations!Nothing \in [{} -> Values] /\ DOMAIN Locations!Nothing = {}
  BY DEF Locations!Nothing
<1>3. ASSUME NEW f \in Partial PROVE DOMAIN f \subseteq LocationKeys /\ \A k \in DOMAIN f : f[k] \in Values
  <2>1. PICK S \in SUBSET LocationKeys : f \in [S -> Values]
    BY DEF Partial
  <2> QED
    BY <2>1
<1> QED
  BY <1>1, <1>2, <1>3

\* h is g with the values of f where f has one.
IsOver(h, f, g) ==
    /\ DOMAIN h = DOMAIN f \cup DOMAIN g
    /\ \A k \in DOMAIN f : h[k] = f[k]
    /\ \A k \in DOMAIN g \ DOMAIN f : h[k] = g[k]

LEMMA OverFacts ==
    ASSUME NEW f \in Partial, NEW g, DOMAIN g \subseteq LocationKeys,
           \A k \in DOMAIN g : g[k] \in Values,
           NEW h, h = Locations!Over(f, g)
    PROVE  h \in Partial /\ h \in [DOMAIN h -> Values] /\ IsOver(h, f, g)
<1>1. IsOver(h, f, g) /\ h = [k \in DOMAIN h |-> h[k]]
  BY DEF Locations!Over, IsOver
<1>2. DOMAIN f \subseteq LocationKeys /\ \A k \in DOMAIN f : f[k] \in Values
  BY PartialFacts
<1>3. DOMAIN h \subseteq LocationKeys /\ h \in [DOMAIN h -> Values]
  BY <1>1, <1>2 DEF IsOver
<1>4. h \in Partial
  BY <1>3, PartialFacts
<1> QED
  BY <1>1, <1>3, <1>4

\* w is q once it has written v for key k.
Written(w, q, k, v) ==
    /\ w.at = q.at /\ w.file = q.file /\ w.n = q.n /\ w.known = q.known
    /\ w.cache = q.cache /\ w.stmt = {} /\ w.aborted = q.aborted
    /\ w.skipped = q.skipped /\ w.gone = q.gone /\ w.alone = q.alone
    /\ w.late = q.late /\ w.overtaken = q.overtaken
    /\ DOMAIN w.mine = DOMAIN q.mine \cup {k}
    /\ w.mine[k] = v /\ \A x \in DOMAIN q.mine \ {k} : w.mine[x] = q.mine[x]

\* A statement that writes one key.
LEMMA WritesFacts ==
    ASSUME NEW q \in Running, NEW k \in LocationKeys, NEW v \in Values,
           NEW w, w = Locations!Writes(q, k, v)
    PROVE  w \in Running /\ Written(w, q, k, v)
<1> DEFINE one == [x \in {k} |-> v]
           m == Locations!Over(one, q.mine)
<1>1. one \in Partial /\ DOMAIN one = {k} /\ one[k] = v
  <2>1. one \in [{k} -> Values]
    OBVIOUS
  <2> QED
    BY <2>1, PartialFacts
<1>2. /\ q.mine \in Partial
      /\ DOMAIN q.mine \subseteq LocationKeys /\ \A x \in DOMAIN q.mine : q.mine[x] \in Values
  BY PartialFacts DEF Running
<1> HIDE DEF one
<1>3. m \in Partial /\ DOMAIN m = DOMAIN q.mine \cup {k} /\ m[k] = v
         /\ \A x \in DOMAIN q.mine \ {k} : m[x] = q.mine[x]
  <2> HIDE DEF m
  <2>1. m \in Partial /\ IsOver(m, one, q.mine)
    BY <1>1, <1>2, OverFacts, Zenon DEF m
  <2> QED
    BY <1>1, <2>1 DEF IsOver
<1>4. w = [q EXCEPT !.mine = m, !.stmt = {}]
  BY DEF Locations!Writes, one
<1> HIDE DEF m
<1>5. w \in Running /\ w.mine = m
  BY <1>3, <1>4 DEF Running
<1>6. /\ w.at = q.at /\ w.file = q.file /\ w.n = q.n /\ w.known = q.known
      /\ w.cache = q.cache /\ w.stmt = {} /\ w.aborted = q.aborted
      /\ w.skipped = q.skipped /\ w.gone = q.gone /\ w.alone = q.alone
      /\ w.late = q.late /\ w.overtaken = q.overtaken
  BY <1>4 DEF Running
<1> QED
  BY <1>3, <1>5, <1>6 DEF Written

\* to has what q holds.
Alike(to, q) ==
    /\ to.file = q.file /\ to.n = q.n /\ to.cache = q.cache /\ to.mine = q.mine
    /\ to.aborted = q.aborted /\ to.skipped = q.skipped /\ to.late = q.late
    /\ to.stmt = q.stmt /\ to.overtaken = q.overtaken

LEMMA AlikeFacts ==
    ASSUME NEW to, NEW q, Alike(to, q)
    PROVE  /\ \A t : RowsSaved(to, t) <=> RowsSaved(q, t)
           /\ \A t, k : Seen(to, t, k) = Seen(q, t, k)
BY DEF Alike, RowsSaved, LastSays, Unsure, Seen

-----------------------------------------------------------------------------
(* Imports: each action                                                    *)

\* A request that goes on alone while the table stays.
LEMMA OwnStep ==
    ASSUME ImportInv, NEW r \in Admins, NEW to \in Running \cup Ended \cup {Locations!Idle},
           Locations!Goes(r, to), UNCHANGED table,
           to \in Running => Fit(to, table) /\ Quiet(to, table),
           to \in Ended => Clean(to),
           to.at \in Busyness \cup {"purge"}
             => import[r].at \in Busyness /\ to.alone = import[r].alone
    PROVE  ImportInv'
<1>1. import' \in [Admins -> Running \cup Ended \cup {Locations!Idle}]
  BY DEF ImportInv, Locations!Goes
<1>2. import'[r] = to /\ \A p \in Admins \ {r} : import'[p] = import[p]
  BY DEF ImportInv, Locations!Goes
<1>3. /\ \A p \in Admins : import'[p] \in Running =>
            Fit(import'[p], table) /\ Quiet(import'[p], table)
      /\ \A p \in Admins : import'[p] \in Ended => Clean(import'[p])
  BY <1>2 DEF ImportInv
<1>4. \A p \in Admins : (Locations!Busy(p))' <=> (import'[p].at \in Busyness \cup {"purge"})
  BY <1>1 DEF Locations!Busy, Locations!At, Running, Ended, Busyness, Locations!Idle
<1>5. \A p, s \in Admins : (p # s /\ (Locations!Busy(p))' /\ import'[p].alone)
         => ~(Locations!Busy(s))'
  BY <1>2, <1>4, Kinds DEF ImportInv
<1>6. table' \in [LocationKeys -> Values]
  BY DEF ImportInv
<1> QED
  BY <1>1, <1>3, <1>5, <1>6 DEF ImportInv

\* Nobody has written a key where a lone import is in its transaction.
LEMMA LoneIsFree ==
    ASSUME ImportInv, NEW r \in Admins, Locations!InTransaction(r), import[r].alone
    PROVE  \A k : Locations!Holder(r, k) = {}
BY Kinds DEF ImportInv, Locations!Holder, Locations!InTransaction

\* Keys that another transaction has written are keys of rows.
LEMMA HeldKeys ==
    ASSUME ImportInv, NEW r \in Admins, NEW k, ~Locations!Free(r, k)
    PROVE  k \in LocationKeys
<1>1. PICK p \in Admins : Locations!InTransaction(p) /\ k \in DOMAIN import[p].mine
  BY DEF Locations!Free, Locations!Holder
<1>2. import[p] \in Running
  BY <1>1, Kinds
<1>3. import[p].mine \in Partial
  BY <1>2 DEF Running
<1> QED
  BY <1>1, <1>3, PartialFacts

\* The catch block of a row.
LEMMA SkippedFits ==
    ASSUME NEW q \in Running, NEW t, Fit(q, t), q.at = "rows",
           q.alone => ~NoBad(q.file), NEW s, s = Locations!Skipped(q)
    PROVE  s \in Running /\ Fit(s, t) /\ Quiet(s, t) /\ s.at = "rows" /\ s.alone = q.alone
<1>1. s = [q EXCEPT !.stmt = {}, !.n = q.n + 1, !.skipped = TRUE, !.aborted = TRUE,
                    !.mine = Locations!Nothing]
  BY DEF Locations!Skipped
<1>2. /\ s \in Running
      /\ s.at = "rows" /\ s.alone = q.alone /\ s.file = q.file /\ s.n = q.n + 1
      /\ s.stmt = {} /\ s.skipped = TRUE /\ s.aborted = TRUE /\ s.mine = Locations!Nothing
      /\ s.cache = q.cache /\ s.gone = q.gone
  <2> DEFINE next == q.n + 1
             none == Locations!Nothing
  <2>1. none \in Partial
    BY PartialFacts
  <2>2. next \in Nat \ {0}
    BY DEF Running
  <2>3. s = [q EXCEPT !.stmt = {}, !.n = next, !.skipped = TRUE, !.aborted = TRUE, !.mine = none]
    BY <1>1
  <2> HIDE DEF next, none
  <2>4. s \in Running
    BY <2>1, <2>2, <2>3 DEF Running
  <2>5. /\ s.at = "rows" /\ s.alone = q.alone /\ s.file = q.file /\ s.n = next
        /\ s.stmt = {} /\ s.skipped = TRUE /\ s.aborted = TRUE /\ s.mine = none
        /\ s.cache = q.cache /\ s.gone = q.gone
    BY <2>3 DEF Running
  <2> QED
    BY <2>4, <2>5 DEF next, none
<1>3. Fit(s, t)
  <2>1. q.n # 1 => q.at \notin {"parents", "read"}
    BY DEF Fit
  <2> QED
    BY <1>2, PartialFacts DEF Fit, StmtFits
<1>4. Quiet(s, t)
  BY <1>2 DEF Quiet
<1> QED
  BY <1>2, <1>3, <1>4

\* A failure ends an import or skips a row; a lone one of good rows has none.
LEMMA FailsHolds ==
    ASSUME ImportInv, NEW r \in Admins, import[r].at \in Busyness, Locations!Fails(r),
           UNCHANGED table, import[r].alone => ~NoBad(import[r].file)
    PROVE  ImportInv'
<1>1. PICK q \in Running : q = import[r] /\ Fit(q, table)
  BY Kinds DEF ImportInv
<1>2. CASE q.at = "rows"
  <2>1. Locations!Goes(r, Locations!Skipped(q))
    BY <1>1, <1>2 DEF Locations!Fails, Locations!At
  <2> DEFINE s == Locations!Skipped(q)
  <2>2. s \in Running /\ Fit(s, table) /\ Quiet(s, table) /\ s.at = "rows" /\ s.alone = q.alone
    BY <1>1, <1>2, SkippedFits
  <2>3. s \notin Ended
    BY <2>2 DEF Ended
  <2> HIDE DEF s
  <2> QED
    BY <1>1, <2>1, <2>2, <2>3, OwnStep DEF Busyness, s
<1>3. CASE q.at # "rows"
  <2>1. Locations!Goes(r, Locations!Failed(q))
    BY <1>1, <1>3 DEF Locations!Fails, Locations!At
  <2>2. Locations!Failed(q) \in Ended /\ Locations!Failed(q).at = "failed"
           /\ Locations!Failed(q).alone = q.alone /\ Locations!Failed(q).file = q.file
    BY DEF Locations!Failed, Locations!Ended, Ended, Running
  <2>3. Locations!Failed(q) \notin Running /\ Clean(Locations!Failed(q))
    BY <1>1, <2>2 DEF Running, Clean, Busyness
  <2> QED
    BY <1>1, <2>1, <2>2, <2>3, OwnStep DEF Busyness
<1> QED
  BY <1>2, <1>3

\* A transaction that goes on.
LEMMA Onward ==
    ASSUME ImportInv, NEW r \in Admins, import[r].at \in Busyness, NEW to \in Running,
           Locations!Goes(r, to), UNCHANGED table, Fit(to, table), Quiet(to, table),
           to.alone = import[r].alone
    PROVE  ImportInv'
<1>1. to \notin Ended
  BY DEF Running, Ended, Busyness
<1> QED
  BY <1>1, OwnStep

\* An import that ends, or a request that has its answer.
LEMMA Ending ==
    ASSUME ImportInv, NEW r \in Admins, NEW to \in Ended \cup {Locations!Idle},
           Locations!Goes(r, to), UNCHANGED table, to \in Ended => Clean(to),
           to.at # "purge"
    PROVE  ImportInv'
<1>1. to \notin Running /\ to.at \notin Busyness
  BY DEF Running, Ended, Busyness, Locations!Idle
<1> QED
  BY <1>1, OwnStep

LEMMA ReadExistingHolds ==
    ASSUME ImportInv, NEW r \in Admins, Locations!ReadExisting(r)
    PROVE  ImportInv'
<1>1. PICK q \in Running : q = import[r] /\ Fit(q, table) /\ Quiet(q, table)
                              /\ q.at \in {"parents", "read"}
  BY Kinds DEF ImportInv, Locations!ReadExisting, Locations!At, Busyness
<1> DEFINE known == {k \in Locations!Codes(q.file) : Locations!View(r, k) # Locations!Absent}
           to == [q EXCEPT !.at = "rows", !.known = known]
<1>2. Locations!Goes(r, to) /\ UNCHANGED table
  BY <1>1 DEF Locations!ReadExisting
<1>3. known = {k \in Locations!Codes(q.file) : Seen(q, table, k) # Locations!Absent}
  BY <1>1 DEF Locations!View, Seen
<1>4. known \subseteq LocationKeys
  BY FileFacts DEF Running
<1> HIDE DEF known
<1>5. to \in Running
  BY <1>4 DEF Running, Busyness
<1>6. /\ to.at = "rows" /\ to.known = known /\ to.file = q.file /\ to.n = q.n
      /\ to.cache = q.cache /\ to.mine = q.mine /\ to.stmt = q.stmt /\ to.aborted = q.aborted
      /\ to.skipped = q.skipped /\ to.gone = q.gone /\ to.alone = q.alone
      /\ to.late = q.late /\ to.overtaken = q.overtaken
  BY DEF Running
<1> HIDE DEF to
<1>9. q.stmt = {}
  BY <1>1 DEF Locations!ReadExisting, Locations!At, Fit, StmtFits
<1>7. Fit(to, table)
  <2>1. Alike(to, q)
    BY <1>6 DEF Alike
  <2> QED
    BY <1>1, <1>6, <1>9, <2>1, AlikeFacts DEF Fit, StmtFits
<1>8. Quiet(to, table)
  BY <1>1, <1>3, <1>6, <1>9 DEF Quiet, Seen
<1> QED
  BY <1>1, <1>2, <1>5, <1>6, <1>7, <1>8, Onward DEF Running

\* The next parent is one of the file and not yet cached.
LEMMA NextParentFacts ==
    ASSUME ImportInv, NEW r \in Admins, NEW k \in Locations!NextParents(r), NEW q \in Running,
           q = import[r], Fit(q, table)
    PROVE  /\ q.at \in {"parents", "rows"} /\ ~q.aborted
           /\ k \in Locations!Parents(q.file) \ Locations!Codes(q.file)
           /\ k \notin AirportKeys
<1>1. q.at \in {"parents", "rows"} /\ ~q.aborted
  BY DEF Locations!NextParents, Locations!At, Fit
<1>2. k \in Locations!Parents(q.file)
  <2>1. CASE q.at = "parents"
    BY <2>1 DEF Locations!NextParents, Locations!At
  <2>2. CASE q.at = "rows"
    <3>1. k = q.file.rows[q.n].parent /\ q.n <= Len(q.file.rows)
      BY <2>2 DEF Locations!NextParents, Locations!At
    <3> QED
      BY <3>1, FileFacts DEF Running
  <2> QED
    BY <1>1, <2>1, <2>2
<1> QED
  BY <1>1, <1>2, FileFacts DEF Running

\* to is q once parent k has a row and is cached.
Cached(to, q, k) ==
    /\ to.at = q.at /\ to.file = q.file /\ to.n = q.n /\ to.known = q.known
    /\ to.cache = q.cache \cup {k} /\ to.stmt = {} /\ to.aborted = q.aborted
    /\ to.skipped = q.skipped /\ to.gone = q.gone /\ to.alone = q.alone /\ to.late = q.late
    /\ to.overtaken = q.overtaken
    /\ DOMAIN to.mine \in {DOMAIN q.mine, DOMAIN q.mine \cup {k}}
    /\ \A x \in DOMAIN q.mine \ {k} : to.mine[x] = q.mine[x]

\* A transaction that has written a parent, or found it.
LEMMA ParentFits ==
    ASSUME NEW q \in Running, NEW t, Fit(q, t), Quiet(q, t), NEW k \in LocationKeys,
           k \in Locations!Parents(q.file) \ Locations!Codes(q.file),
           q.at \in {"parents", "rows"}, ~q.aborted, \A s \in q.stmt : s.key = k,
           NEW to, Cached(to, q, k), Seen(to, t, k) # Locations!Absent
    PROVE  Fit(to, t) /\ Quiet(to, t)
<1> USE DEF Cached
<1>1. \A x : x # k => Seen(to, t, x) = Seen(q, t, x)
  BY DEF Seen
<1>2. \A x \in DOMAIN to.mine : to.mine[x] = Locations!Absent => x \in to.gone
  BY DEF Fit, Seen
<1>3. RowsSaved(to, t)
  <2>1. ASSUME NEW m \in 1..(q.n - 1)
        PROVE  q.file.rows[m].code \in Unsure(to) \/ LastSays(to, t, m)
    <3>1. m \in 1..Len(q.file.rows)
      BY FileFacts DEF Fit, Running
    <3>2. q.file.rows[m].code # k
      BY <3>1, FileFacts DEF Running
    <3>3. q.file.rows[m].code \in q.overtaken \/ LastSays(q, t, m)
      BY <3>2 DEF Fit, RowsSaved, Unsure
    <3> QED
      BY <1>1, <3>2, <3>3 DEF Unsure, LastSays
  <2> QED
    BY <2>1 DEF RowsSaved
<1>4. Fit(to, t)
  BY <1>1, <1>2, <1>3 DEF Fit, StmtFits
<1>5. Quiet(to, t)
  BY <1>1 DEF Quiet
<1> QED
  BY <1>4, <1>5

\* A transaction that has chosen its next statement.
Chosen(to, q, s) ==
    /\ to.at = q.at /\ to.file = q.file /\ to.n = q.n /\ to.known = q.known
    /\ to.cache = q.cache /\ to.stmt = {s} /\ to.aborted = q.aborted
    /\ to.skipped = q.skipped /\ to.gone = q.gone /\ to.alone = q.alone /\ to.late = q.late
    /\ to.overtaken \in {q.overtaken, q.overtaken \ {s.key}} /\ to.mine = q.mine

LEMMA ChosenFits ==
    ASSUME NEW q \in Running, NEW t, Fit(q, t), Quiet(q, t), q.stmt = {},
           NEW s \in [key : LocationKeys, was : Values], NEW to, Chosen(to, q, s),
           q.at \in {"parents", "rows"}, q.at = "rows" => q.n <= Len(q.file.rows),
           q.at = "parents" => s.key \in Locations!Parents(q.file) \ q.cache,
           (s.was # Locations!Absent /\ s.key \in Locations!Codes(q.file)) => s.key \in q.known,
           (q.alone /\ s.was = Locations!Absent) => Seen(q, t, s.key) = Locations!Absent
    PROVE  Fit(to, t) /\ Quiet(to, t)
<1> USE DEF Chosen
<1>1. \A x : Seen(to, t, x) = Seen(q, t, x)
  BY DEF Seen
<1>2. RowsSaved(q, t) => RowsSaved(to, t)
  <2>1. Unsure(q) \subseteq Unsure(to)
    BY DEF Unsure
  <2>2. \A m : LastSays(q, t, m) => LastSays(to, t, m)
    BY <1>1 DEF LastSays
  <2> QED
    BY <2>1, <2>2 DEF RowsSaved
<1>3. StmtFits(to)
  BY DEF StmtFits
<1>4. Fit(to, t)
  BY <1>1, <1>2, <1>3 DEF Fit
<1>5. Quiet(to, t)
  BY <1>1 DEF Quiet
<1> QED
  BY <1>4, <1>5

LEMMA SelectParentHolds ==
    ASSUME ImportInv, NEW r \in Admins, NEW k \in LocationKeys, NEW changed \in BOOLEAN,
           Locations!SelectParent(r, k, changed)
    PROVE  ImportInv'
<1>1. k \in Locations!NextParents(r) /\ UNCHANGED table
  BY DEF Locations!SelectParent
<1>2. import[r].at \in {"parents", "rows"}
  BY <1>1 DEF Locations!NextParents, Locations!At
<1>3. PICK q \in Running : q = import[r] /\ Fit(q, table) /\ Quiet(q, table) /\ q.stmt = {}
  BY <1>2, Kinds DEF ImportInv, Busyness, Locations!SelectParent
<1>4. /\ q.at \in {"parents", "rows"} /\ ~q.aborted
      /\ k \in Locations!Parents(q.file) \ Locations!Codes(q.file)
  BY <1>1, <1>3, NextParentFacts
<1>5. PICK was : was = IF q.at = "parents" THEN Locations!Absent ELSE Seen(q, table, k)
  OBVIOUS
<1>6. was \in Values
  BY <1>3, <1>5, PartialFacts DEF ImportInv, Running, Seen, Values
<1>7. PICK cached : cached = [q EXCEPT !.cache = @ \cup {k}]
  OBVIOUS
<1>8. PICK s : s = [key |-> k, was |-> was]
  OBVIOUS
<1>9. PICK to : to = [q EXCEPT !.stmt = {s}]
  OBVIOUS
<1>10. Locations!Goes(r, IF was # Locations!Absent /\ ~changed THEN cached ELSE to)
  BY <1>3, <1>5, <1>7, <1>8, <1>9 DEF Locations!SelectParent, Locations!View, Seen, Locations!At
<1>11. CASE was # Locations!Absent /\ Locations!Goes(r, cached)
  <2>1. cached \in Running /\ Cached(cached, q, k)
    BY <1>3, <1>7 DEF Running, Cached
  <2>2. Seen(cached, table, k) # Locations!Absent
    BY <1>5, <1>7, <1>11 DEF Seen, Running
  <2>3. Fit(cached, table) /\ Quiet(cached, table)
    BY <1>3, <1>4, <2>1, <2>2, ParentFits
  <2> QED
    BY <1>1, <1>3, <1>4, <1>11, <2>1, <2>3, Onward DEF Busyness, Cached
<1>12. CASE Locations!Goes(r, to)
  <2>1. s \in [key : LocationKeys, was : Values] /\ s.key = k /\ s.was = was
    BY <1>6, <1>8
  <2>2. to \in Running /\ Chosen(to, q, s)
    BY <1>9, <2>1 DEF Running, Chosen
  <2>3. q.at = "rows" => q.n <= Len(q.file.rows)
    BY <1>1, <1>3 DEF Locations!NextParents, Locations!At
  <2>4. q.at = "parents" => k \in Locations!Parents(q.file) \ q.cache
    BY <1>1, <1>3 DEF Locations!NextParents, Locations!At
  <2>5. (q.alone /\ was = Locations!Absent) => Seen(q, table, k) = Locations!Absent
    BY <1>3, <1>4, <1>5, <2>4 DEF Quiet
  <2>6. Fit(to, table) /\ Quiet(to, table)
    BY <1>3, <1>4, <2>1, <2>2, <2>3, <2>4, <2>5, ChosenFits
  <2> QED
    BY <1>1, <1>3, <1>4, <1>12, <2>2, <2>6, Onward DEF Busyness, Chosen
<1> QED
  BY <1>10, <1>11, <1>12

LEMMA WriteParentHolds ==
    ASSUME ImportInv, NEW r \in Admins, Locations!WriteParent(r)
    PROVE  ImportInv'
<1>1. import[r].at \in Busyness /\ UNCHANGED table
  BY Kinds DEF Locations!WriteParent
<1>2. PICK q \in Running : q = import[r] /\ Fit(q, table) /\ Quiet(q, table)
  BY <1>1, Kinds DEF ImportInv
<1>3. PICK s \in q.stmt :
        /\ s.key \in Locations!NextParents(r)
        /\ IF s.was = Locations!Absent /\ Locations!View(r, s.key) # Locations!Absent
           THEN Locations!Fails(r)
           ELSE Locations!Goes(r, Locations!Writes([q EXCEPT !.cache = @ \cup {s.key}],
                                                   s.key, Locations!Other))
  BY <1>2 DEF Locations!WriteParent
<1>4. PICK k \in LocationKeys : k = s.key
  BY <1>3 DEF Running
<1>5. /\ q.at \in {"parents", "rows"} /\ ~q.aborted
      /\ k \in Locations!Parents(q.file) \ Locations!Codes(q.file)
  BY <1>2, <1>3, <1>4, NextParentFacts
<1>6. \A z \in q.stmt : z.key = k
  BY <1>2, <1>3, <1>4 DEF Fit, StmtFits
<1>7. PICK cached : cached = [q EXCEPT !.cache = @ \cup {k}]
  OBVIOUS
<1>8. PICK w : w = Locations!Writes(cached, k, Locations!Other)
  OBVIOUS
<1>9. CASE Locations!Goes(r, w)
  <2>1. cached \in Running
    BY <1>7 DEF Running
  <2>2. Locations!Other \in Values /\ Locations!Other # Locations!Absent
    BY DEF Values, Locations!Other, Locations!Absent
  <2>3. w \in Running /\ Written(w, cached, k, Locations!Other)
    BY <1>8, <2>1, <2>2, WritesFacts, Zenon
  <2>4. Cached(w, q, k)
    BY <1>7, <2>3 DEF Written, Cached, Running
  <2>5. Seen(w, table, k) # Locations!Absent
    BY <2>2, <2>3 DEF Written, Seen
  <2>6. Fit(w, table) /\ Quiet(w, table)
    BY <1>2, <1>5, <1>6, <2>4, <2>5, ParentFits, Zenon
  <2>7. w.alone = import[r].alone
    BY <1>2, <2>4 DEF Cached
  <2> QED
    BY <1>1, <1>9, <2>3, <2>6, <2>7, Onward, Zenon
<1>10. CASE /\ s.was = Locations!Absent /\ Locations!View(r, k) # Locations!Absent
            /\ Locations!Fails(r)
  <2>1. Locations!View(r, k) = Seen(q, table, k)
    BY <1>2 DEF Locations!View, Seen
  <2>2. ~q.alone
    BY <1>2, <1>3, <1>4, <1>10, <2>1 DEF Quiet
  <2> QED
    BY <1>1, <1>2, <1>10, <2>2, FailsHolds
<1> QED
  BY <1>3, <1>4, <1>7, <1>8, <1>9, <1>10

\* The n-th row of the file, which is about to be saved.
LEMMA RowFacts ==
    ASSUME NEW q \in Running, q.n <= Len(q.file.rows)
    PROVE  /\ q.n \in DOMAIN q.file.rows /\ q.n \in 1..Len(q.file.rows)
           /\ q.file.rows[q.n].code \in LocationKeys \cap Locations!Codes(q.file)
           /\ q.file.rows[q.n].says \in Nat
           /\ NoBad(q.file) => ~q.file.rows[q.n].bad
<1>1. q.file \in ImportFiles /\ q.n \in Nat \ {0}
  BY DEF Running
<1>2. q.n \in 1..Len(q.file.rows) /\ DOMAIN q.file.rows = 1..Len(q.file.rows)
  BY <1>1, FileFacts
<1> QED
  BY <1>1, <1>2, FileFacts DEF NoBad

\* to is q once its n-th row is saved, for code k.
Saved(to, q, k) ==
    /\ to.at = q.at /\ to.file = q.file /\ to.n = q.n + 1 /\ to.known \in {q.known, q.known \cup {k}}
    /\ to.cache = q.cache /\ to.stmt = {} /\ to.aborted = q.aborted
    /\ to.skipped = q.skipped /\ to.gone = q.gone /\ to.alone = q.alone /\ to.late = q.late
    /\ to.overtaken \in {q.overtaken, q.overtaken \ {k}}
    /\ DOMAIN to.mine \in {DOMAIN q.mine, DOMAIN q.mine \cup {k}}
    /\ \A x \in DOMAIN q.mine \ {k} : to.mine[x] = q.mine[x]
    /\ k \in DOMAIN to.mine => to.mine[k] # Locations!Absent

\* A transaction that has saved a row: what it sees of the code is what the
\* row says, or the row has been overtaken.
LEMMA SavedFits ==
    ASSUME NEW q \in Running, NEW t, Fit(q, t), Quiet(q, t), q.at = "rows", ~q.aborted,
           q.n <= Len(q.file.rows), q.file.rows[q.n].parent \in q.cache,
           NEW k, k = q.file.rows[q.n].code, \A s \in q.stmt : s.key = k,
           NEW to, Saved(to, q, k),
           k \in to.overtaken \/ Seen(to, t, k) = q.file.rows[q.n].says,
           k \in to.known \/ Seen(to, t, k) = Seen(q, t, k)
    PROVE  Fit(to, t) /\ Quiet(to, t)
<1>1. q.file \in ImportFiles /\ q.n \in Nat \ {0} /\ Len(q.file.rows) \in Nat
  BY FileFacts DEF Running
<1>2. k \in LocationKeys \cap Locations!Codes(q.file) /\ k \notin Locations!Parents(q.file)
  <2>1. k \in LocationKeys \cap Locations!Codes(q.file)
    BY RowFacts
  <2>2. Locations!Codes(q.file) \cap Locations!Parents(q.file) = {}
    BY <1>1, FileFacts
  <2> QED
    BY <2>1, <2>2
<1>3. \A x : x # k => Seen(to, t, x) = Seen(q, t, x)
  <2>1. ASSUME NEW x, x # k PROVE Seen(to, t, x) = Seen(q, t, x)
    <3>1. x \in DOMAIN to.mine <=> x \in DOMAIN q.mine
      BY <2>1 DEF Saved
    <3>2. x \in DOMAIN q.mine => to.mine[x] = q.mine[x]
      BY <2>1 DEF Saved
    <3> QED
      BY <3>1, <3>2 DEF Seen
  <2> QED
    BY <2>1
<1> USE DEF Saved
<1>4. \A x \in DOMAIN to.mine : to.mine[x] = Locations!Absent => x \in to.gone
  BY DEF Fit
<1>5. RowsSaved(to, t)
  <2> DEFINE rows == q.file.rows
  <2>1. PICK last \in Nat : last = q.n /\ to.n - 1 = last
    BY <1>1
  <2>2. ASSUME NEW m \in 1..last
        PROVE  rows[m].code \in Unsure(to) \/ LastSays(to, t, m)
    <3>1. CASE rows[m].code = k
      <4>1. last \in m..last /\ \A i \in 1..last : i <= last
        BY <2>1, <2>2
      <4>2. Seen(to, t, k) = rows[last].says => LastSays(to, t, m)
        BY <2>1, <3>1, <4>1 DEF LastSays
      <4> QED
        BY <2>1, <3>1, <4>2 DEF Unsure
    <3>2. CASE rows[m].code # k
      <4>1. m \in 1..(last - 1)
        <5>1. m # last
          BY <2>1, <3>2
        <5> QED
          BY <2>1, <2>2, <5>1
      <4>2. rows[m].code \in q.overtaken \/ LastSays(q, t, m)
        <5>1. rows[m].code \in Unsure(q) \/ LastSays(q, t, m)
          BY <2>1, <4>1 DEF Fit, RowsSaved
        <5>2. rows[m].code \in Unsure(q) => rows[m].code \in q.overtaken
          BY <3>2 DEF Unsure
        <5> QED
          BY <5>1, <5>2
      <4>3. rows[m].code \in q.overtaken => rows[m].code \in Unsure(to)
        BY <3>2 DEF Unsure
      <4>4. ASSUME LastSays(q, t, m) PROVE LastSays(to, t, m)
        <5>1. PICK j \in m..(last - 1) :
                 /\ rows[j].code = rows[m].code
                 /\ \A i \in 1..(last - 1) : rows[i].code = rows[m].code => i <= j
                 /\ Seen(q, t, rows[m].code) = rows[j].says
          BY <2>1, <4>4 DEF LastSays
        <5>2. j \in m..last
          BY <2>1, <5>1
        <5>3. ASSUME NEW i \in 1..last, rows[i].code = rows[m].code PROVE i <= j
          <6>1. i # last
            BY <2>1, <3>2, <5>3
          <6>2. i \in 1..(last - 1)
            BY <2>1, <6>1
          <6> QED
            BY <5>1, <5>3, <6>2
        <5>4. Seen(to, t, rows[m].code) = rows[j].says
          BY <1>3, <3>2, <5>1
        <5> QED
          BY <2>1, <5>1, <5>2, <5>3, <5>4 DEF LastSays
      <4> QED
        BY <4>2, <4>3, <4>4
    <3> QED
      BY <3>1, <3>2
  <2> QED
    BY <2>1, <2>2 DEF RowsSaved
<1>6. \A m \in 1..q.n : q.file.rows[m].parent \in q.cache
  <2>1. ASSUME NEW m \in 1..q.n PROVE m = q.n \/ m \in 1..(q.n - 1)
    BY <1>1
  <2> QED
    BY <2>1 DEF Fit
<1>7. \A x \in to.cache \ {"none"} : Seen(to, t, x) # Locations!Absent
  BY <1>2, <1>3 DEF Fit
<1>8. /\ to.n <= Len(to.file.rows) + 1 /\ to.n - 1 = q.n
      /\ DOMAIN to.mine \subseteq Locations!Codes(to.file) \cup Locations!Parents(to.file) \cup to.gone
  BY <1>1, <1>2 DEF Fit
<1>9. Fit(to, t)
  BY <1>4, <1>5, <1>6, <1>7, <1>8 DEF Fit, StmtFits
<1>10. Quiet(to, t)
  BY <1>3 DEF Quiet
<1> QED
  BY <1>9, <1>10

\* An import at a row of its file.
LEMMA AtRowFacts ==
    ASSUME ImportInv, NEW r \in Admins, Locations!AtRow(r)
    PROVE  \E q \in Running :
              /\ q = import[r] /\ Fit(q, table) /\ Quiet(q, table) /\ q.at = "rows" /\ ~q.aborted
              /\ q.n <= Len(q.file.rows) /\ q.file.rows[q.n].parent \in q.cache
<1>1. import[r].at = "rows"
  BY DEF Locations!AtRow, Locations!At
<1> QED
  BY <1>1, Kinds DEF ImportInv, Locations!AtRow, Busyness

\* A row that is saved takes its import to the next.
LEMMA SavingHolds ==
    ASSUME ImportInv, NEW r \in Admins, NEW q \in Running, q = import[r], Fit(q, table),
           Quiet(q, table), q.at = "rows", ~q.aborted,
           q.n <= Len(q.file.rows), q.file.rows[q.n].parent \in q.cache,
           NEW k, k = q.file.rows[q.n].code, \A s \in q.stmt : s.key = k,
           NEW to \in Running, Saved(to, q, k), Locations!Goes(r, to), UNCHANGED table,
           k \in to.overtaken \/ Seen(to, table, k) = q.file.rows[q.n].says,
           k \in to.known \/ Seen(to, table, k) = Seen(q, table, k)
    PROVE  ImportInv'
<1>1. Fit(to, table) /\ Quiet(to, table)
  BY SavedFits, Zenon
<1>2. import[r].at \in Busyness
  BY DEF Busyness
<1>3. to.alone = import[r].alone
  BY Zenon DEF Saved
<1> QED
  BY <1>1, <1>2, <1>3, Onward, Zenon

LEMMA SelectRowHolds ==
    ASSUME ImportInv, NEW r \in Admins, Locations!SelectRow(r)
    PROVE  ImportInv'
<1>1. PICK q \in Running :
              /\ q = import[r] /\ Fit(q, table) /\ Quiet(q, table) /\ q.at = "rows" /\ ~q.aborted
              /\ q.n <= Len(q.file.rows) /\ q.file.rows[q.n].parent \in q.cache
  <2>1. Locations!AtRow(r)
    BY Zenon DEF Locations!SelectRow
  <2> QED
    BY <2>1, AtRowFacts
<1>2. PICK k : k = q.file.rows[q.n].code
  OBVIOUS
<1>3. PICK was : was = IF k \in q.known THEN Seen(q, table, k) ELSE Locations!Absent
  OBVIOUS
<1>4. /\ k \in LocationKeys \cap Locations!Codes(q.file)
      /\ q.file.rows[q.n].says \in Nat
  BY <1>1, <1>2, RowFacts
<1>5. was \in Values
  BY <1>1, <1>3, <1>4, PartialFacts DEF ImportInv, Running, Seen, Values
<1>6. PICK selected : selected = [q EXCEPT !.overtaken = @ \ {k}]
  OBVIOUS
<1>7. PICK kept : kept = [selected EXCEPT !.n = @ + 1]
  OBVIOUS
<1>8. PICK s : s = [key |-> k, was |-> was]
  OBVIOUS
<1>9. PICK to : to = [selected EXCEPT !.stmt = {s}]
  BY Zenon
<1>10. /\ q.stmt = {} /\ UNCHANGED table
       /\ Locations!Goes(r, IF was = q.file.rows[q.n].says /\ ~q.file.rows[q.n].bad
                            THEN kept ELSE to)
  <2>1. was = IF k \in q.known THEN Locations!View(r, k) ELSE Locations!Absent
    BY <1>1, <1>3 DEF Locations!View, Seen
  <2> QED
    BY <1>1, <1>2, <1>6, <1>7, <1>8, <1>9, <2>1, Zenon DEF Locations!SelectRow
<1>11. selected \in Running /\ selected.n = q.n /\ selected.overtaken = q.overtaken \ {k}
       /\ selected.at = q.at /\ selected.file = q.file /\ selected.known = q.known
       /\ selected.cache = q.cache /\ selected.stmt = q.stmt /\ selected.aborted = q.aborted
       /\ selected.skipped = q.skipped /\ selected.gone = q.gone /\ selected.alone = q.alone
       /\ selected.late = q.late /\ selected.mine = q.mine
  BY <1>6 DEF Running
<1>12. CASE was = q.file.rows[q.n].says /\ Locations!Goes(r, kept)
  <2>1. kept \in Running /\ Saved(kept, q, k)
    <3>1. selected.n + 1 \in Nat \ {0}
      BY <1>11 DEF Running
    <3>2. kept \in Running /\ kept.mine = q.mine
      BY <1>7, <1>11, <3>1 DEF Running
    <3>3. k \in DOMAIN q.mine => q.mine[k] # Locations!Absent
      BY <1>1, <1>4 DEF Fit
    <3> QED
      BY <1>7, <1>10, <1>11, <3>2, <3>3 DEF Running, Saved
  <2>2. kept.mine = q.mine
    BY <1>7, <1>11 DEF Running
  <2>3. k \in q.known
    BY <1>3, <1>4, <1>12 DEF Locations!Absent
  <2>4. Seen(kept, table, k) = q.file.rows[q.n].says /\ Seen(kept, table, k) = Seen(q, table, k)
    BY <1>3, <1>12, <2>2, <2>3 DEF Seen
  <2>5. \A z \in q.stmt : z.key = k
    BY <1>10
  <2> QED
    BY <1>1, <1>2, <1>10, <1>12, <2>1, <2>4, <2>5, SavingHolds, Zenon
<1>13. CASE Locations!Goes(r, to)
  <2>1. s \in [key : LocationKeys, was : Values] /\ s.key = k /\ s.was = was
    BY <1>4, <1>5, <1>8
  <2>2. to \in Running /\ Chosen(to, q, s)
    BY <1>9, <1>11, <2>1 DEF Running, Chosen
  <2>3. was # Locations!Absent => k \in q.known
    BY <1>3
  <2>4. (q.alone /\ was = Locations!Absent) => Seen(q, table, k) = Locations!Absent
    BY <1>1, <1>3, <1>4 DEF Quiet
  <2>5. Fit(to, table) /\ Quiet(to, table)
    BY <1>1, <1>10, <2>1, <2>2, <2>3, <2>4, ChosenFits
  <2> QED
    BY <1>1, <1>10, <1>13, <2>2, <2>5, Onward DEF Busyness, Chosen
<1> QED
  BY <1>10, <1>12, <1>13

LEMMA InsertRowHolds ==
    ASSUME ImportInv, NEW r \in Admins, Locations!InsertRow(r)
    PROVE  ImportInv'
<1>1. PICK q \in Running :
              /\ q = import[r] /\ Fit(q, table) /\ Quiet(q, table) /\ q.at = "rows" /\ ~q.aborted
              /\ q.n <= Len(q.file.rows) /\ q.file.rows[q.n].parent \in q.cache
  <2>1. Locations!AtRow(r)
    BY Zenon DEF Locations!InsertRow
  <2> QED
    BY <2>1, AtRowFacts
<1>2. PICK k, says : k = q.file.rows[q.n].code /\ says = q.file.rows[q.n].says
  OBVIOUS
<1>3. /\ k \in LocationKeys \cap Locations!Codes(q.file) /\ says \in Nat
      /\ NoBad(q.file) => ~q.file.rows[q.n].bad
  BY <1>1, <1>2, RowFacts
<1>4. PICK w : w = Locations!Writes(q, k, says)
  OBVIOUS
<1>5. PICK to : to = [w EXCEPT !.n = @ + 1, !.known = @ \cup {k}, !.overtaken = @ \ {k}]
  OBVIOUS
<1>6. PICK s \in q.stmt : s.key = k /\ s.was = Locations!Absent
  <2>1. [key |-> k, was |-> Locations!Absent] \in q.stmt
    BY <1>1, <1>2, Zenon DEF Locations!InsertRow
  <2> QED
    BY <2>1
<1>7. /\ UNCHANGED table
      /\ IF q.file.rows[q.n].bad \/ Locations!View(r, k) # Locations!Absent
         THEN Locations!Fails(r) ELSE Locations!Goes(r, to)
  BY <1>1, <1>2, <1>4, <1>5, Zenon DEF Locations!InsertRow
<1>8. \A z \in q.stmt : z.key = k
  BY <1>1, <1>6 DEF Fit, StmtFits
<1>9. CASE Locations!Goes(r, to)
  <2>1. w \in Running /\ Written(w, q, k, says) /\ says # Locations!Absent
    BY <1>3, <1>4, WritesFacts DEF Values, Locations!Absent
  <2>2. to \in Running /\ Saved(to, q, k) /\ to.mine = w.mine /\ to.known = q.known \cup {k}
    <3> DEFINE next == w.n + 1
               known == w.known \cup {k}
               over == w.overtaken \ {k}
    <3>1. next \in Nat \ {0} /\ known \in SUBSET LocationKeys /\ over \in SUBSET LocationKeys
      BY <1>3, <2>1 DEF Running
    <3>2. to = [w EXCEPT !.n = next, !.known = known, !.overtaken = over]
      BY <1>5, <2>1 DEF Running
    <3>3. next = q.n + 1 /\ known = q.known \cup {k} /\ over = q.overtaken \ {k}
      BY <2>1 DEF Written
    <3> HIDE DEF next, known, over
    <3>4. /\ to \in Running /\ to.n = next /\ to.known = known /\ to.overtaken = over
          /\ to.at = w.at /\ to.file = w.file /\ to.cache = w.cache /\ to.stmt = w.stmt
          /\ to.aborted = w.aborted /\ to.skipped = w.skipped /\ to.gone = w.gone
          /\ to.alone = w.alone /\ to.late = w.late /\ to.mine = w.mine
      BY <2>1, <3>1, <3>2 DEF Running
    <3> QED
      BY <2>1, <3>3, <3>4 DEF Saved, Written
  <2>3. Seen(to, table, k) = says /\ k \in to.known
    BY <2>1, <2>2 DEF Seen, Written
  <2> QED
    BY <1>1, <1>2, <1>7, <1>8, <1>9, <2>2, <2>3, SavingHolds, Zenon
<1>10. CASE /\ q.file.rows[q.n].bad \/ Locations!View(r, k) # Locations!Absent
            /\ Locations!Fails(r)
  <2>1. Locations!View(r, k) = Seen(q, table, k)
    BY <1>1 DEF Locations!View, Seen
  <2>2. q.alone => ~NoBad(q.file)
    BY <1>1, <1>3, <1>6, <1>10, <2>1 DEF Quiet
  <2> QED
    BY <1>1, <1>7, <1>10, <2>2, FailsHolds DEF Busyness
<1> QED
  BY <1>7, <1>9, <1>10

LEMMA UpdateRowHolds ==
    ASSUME ImportInv, NEW r \in Admins, Locations!UpdateRow(r)
    PROVE  ImportInv'
<1>1. PICK q \in Running :
              /\ q = import[r] /\ Fit(q, table) /\ Quiet(q, table) /\ q.at = "rows" /\ ~q.aborted
              /\ q.n <= Len(q.file.rows) /\ q.file.rows[q.n].parent \in q.cache
  <2>1. Locations!AtRow(r)
    BY Zenon DEF Locations!UpdateRow
  <2> QED
    BY <2>1, AtRowFacts
<1>2. PICK k, says : k = q.file.rows[q.n].code /\ says = q.file.rows[q.n].says
  OBVIOUS
<1>3. /\ k \in LocationKeys \cap Locations!Codes(q.file) /\ says \in Nat
      /\ NoBad(q.file) => ~q.file.rows[q.n].bad
  BY <1>1, <1>2, RowFacts
<1>4. PICK s \in q.stmt : s.key = k /\ s.was # Locations!Absent
  BY <1>1, <1>2, Zenon DEF Locations!UpdateRow
<1>5. /\ \A z \in q.stmt : z.key = k
      /\ k \in q.known \cup q.overtaken
  BY <1>1, <1>3, <1>4 DEF Fit, StmtFits
<1>6. UNCHANGED table
  BY Zenon DEF Locations!UpdateRow
<1>7. CASE q.file.rows[q.n].bad /\ Locations!Fails(r)
  BY <1>1, <1>3, <1>6, <1>7, FailsHolds DEF Busyness
<1>8. CASE k \notin q.known /\ Locations!Goes(r, [q EXCEPT !.stmt = {}, !.n = @ + 1])
  <2>1. PICK to : to = [q EXCEPT !.stmt = {}, !.n = @ + 1]
    OBVIOUS
  <2>2. q.n + 1 \in Nat \ {0}
    BY DEF Running
  <2>3. to \in Running /\ to.mine = q.mine /\ to.overtaken = q.overtaken
    BY <2>1, <2>2 DEF Running
  <2>4. k \in DOMAIN q.mine => q.mine[k] # Locations!Absent
    BY <1>1, <1>3 DEF Fit
  <2>5. Saved(to, q, k)
    BY <2>1, <2>3, <2>4 DEF Saved, Running
  <2>6. Seen(to, table, k) = Seen(q, table, k)
    BY <2>3 DEF Seen
  <2> QED
    <3>1. k \in to.overtaken
      BY <1>5, <1>8, <2>3
    <3> QED
      BY <1>1, <1>2, <1>5, <1>6, <1>8, <2>1, <2>3, <2>5, <2>6, <3>1, SavingHolds, Zenon
<1>9. ASSUME k \in q.known,
             NEW v \in {says} \cup {o \in {Locations!Other} : k \in q.overtaken},
             Locations!Goes(r, [Locations!Writes(q, k, v) EXCEPT !.n = @ + 1])
      PROVE  ImportInv'
  <2>1. PICK w : w = Locations!Writes(q, k, v)
    OBVIOUS
  <2>2. v \in Values /\ v # Locations!Absent
    BY <1>3, <1>9 DEF Values, Locations!Other, Locations!Absent
  <2>3. w \in Running /\ Written(w, q, k, v)
    BY <1>3, <2>1, <2>2, WritesFacts, Zenon
  <2>4. PICK to : to = [w EXCEPT !.n = @ + 1]
    OBVIOUS
  <2>5. to \in Running /\ Saved(to, q, k) /\ to.mine = w.mine /\ to.known = q.known
        /\ to.overtaken = q.overtaken
    <3> DEFINE next == w.n + 1
    <3>1. next \in Nat \ {0} /\ next = q.n + 1
      BY <2>3 DEF Running, Written
    <3>2. to = [w EXCEPT !.n = next]
      BY <2>3, <2>4 DEF Running
    <3> HIDE DEF next
    <3>3. /\ to \in Running /\ to.n = next /\ to.known = w.known /\ to.overtaken = w.overtaken
          /\ to.at = w.at /\ to.file = w.file /\ to.cache = w.cache /\ to.stmt = w.stmt
          /\ to.aborted = w.aborted /\ to.skipped = w.skipped /\ to.gone = w.gone
          /\ to.alone = w.alone /\ to.late = w.late /\ to.mine = w.mine
      BY <2>3, <3>1, <3>2 DEF Running
    <3> QED
      BY <2>2, <2>3, <3>1, <3>3 DEF Saved, Written
  <2>6. Seen(to, table, k) = v
    BY <2>3, <2>5 DEF Seen, Written
  <2>7. k \in to.overtaken \/ Seen(to, table, k) = says
    BY <2>5, <2>6
  <2>8. Locations!Goes(r, to)
    BY <1>9, <2>1, <2>4
  <2> QED
    <3>1. k \in to.known
      BY <1>9, <2>5
    <3> QED
      BY <1>1, <1>2, <1>5, <1>6, <2>5, <2>7, <2>8, <3>1, SavingHolds, Zenon
<1> QED
  BY <1>1, <1>2, <1>7, <1>8, <1>9, Zenon DEF Locations!UpdateRow

LEMMA SkipRowHolds ==
    ASSUME ImportInv, NEW r \in Admins, Locations!SkipRow(r)
    PROVE  ImportInv'
<1>1. PICK q \in Running : q = import[r] /\ Fit(q, table) /\ Quiet(q, table)
                              /\ q.at = "rows" /\ q.aborted
  BY Kinds DEF ImportInv, Locations!SkipRow, Locations!At, Busyness
<1>2. PICK s : s = Locations!Skipped(q)
  OBVIOUS
<1>3. Locations!Goes(r, s) /\ table' = table
  BY <1>1, <1>2 DEF Locations!SkipRow
<1>4. q.alone => ~NoBad(q.file)
  BY <1>1 DEF Quiet
<1>5. s \in Running /\ Fit(s, table) /\ Quiet(s, table) /\ s.at = "rows" /\ s.alone = q.alone
  BY <1>1, <1>2, <1>4, SkippedFits
<1> QED
  BY <1>1, <1>3, <1>5, Onward DEF Busyness

\* Of two transactions that wait for each other neither is alone.
LEMMA DeadlockHolds ==
    ASSUME ImportInv, NEW r \in Admins, Locations!Deadlock(r)
    PROVE  ImportInv'
<1>1. PICK q \in Running : q = import[r] /\ q.at \in Busyness
  BY Kinds DEF ImportInv, Locations!Deadlock
<1>2. ~q.alone
  BY <1>1, LoneIsFree DEF Locations!Deadlock
<1> QED
  BY <1>1, <1>2, FailsHolds DEF Locations!Deadlock

LEMMA RowsDoneHolds ==
    ASSUME ImportInv, NEW r \in Admins, Locations!RowsDone(r)
    PROVE  ImportInv'
<1>1. PICK q \in Running : q = import[r] /\ Fit(q, table) /\ Quiet(q, table) /\ q.at = "rows"
                              /\ q.n > Len(q.file.rows)
  BY Kinds DEF ImportInv, Locations!RowsDone, Locations!At, Busyness
<1> DEFINE next == IF q.file.dataset = "airports" THEN "stale" ELSE "commit"
<1>2. next \in Busyness /\ next \in {"stale", "commit"} /\ (q.file.dataset = "airports" => next = "stale")
  BY DEF Busyness
<1>3. PICK to : to = [q EXCEPT !.at = next]
  OBVIOUS
<1>4. Locations!Goes(r, to) /\ table' = table
  BY <1>1, <1>3 DEF Locations!RowsDone
<1> HIDE DEF next
<1>5. to \in Running
  BY <1>2, <1>3 DEF Running
<1>6. /\ to.at = next /\ to.file = q.file /\ to.n = q.n /\ to.cache = q.cache
      /\ to.mine = q.mine /\ to.aborted = q.aborted /\ to.skipped = q.skipped
      /\ to.gone = q.gone /\ to.alone = q.alone /\ to.late = q.late /\ to.stmt = q.stmt
      /\ to.overtaken = q.overtaken /\ to.known = q.known /\ q.stmt = {}
  BY <1>1, <1>3 DEF Running, Fit, StmtFits
<1>7. Fit(to, table)
  <2>1. /\ \A t : RowsSaved(to, t) <=> RowsSaved(q, t)
        /\ \A t, k : Seen(to, t, k) = Seen(q, t, k)
    BY <1>6, AlikeFacts DEF Alike
  <2>2. StmtFits(to)
    BY <1>6 DEF StmtFits
  <2> QED
    BY <1>1, <1>2, <1>6, <2>1, <2>2 DEF Fit
<1>8. Quiet(to, table)
  BY <1>1, <1>2, <1>6 DEF Quiet
<1> QED
  BY <1>1, <1>4, <1>5, <1>6, <1>7, <1>8, Onward DEF Busyness

LEMMA FindStaleHolds ==
    ASSUME ImportInv, NEW r \in Admins, Locations!FindStale(r)
    PROVE  ImportInv'
<1>1. PICK q \in Running : q = import[r] /\ Fit(q, table) /\ Quiet(q, table) /\ q.at = "stale"
  BY Kinds DEF ImportInv, Locations!FindStale, Locations!At, Busyness
<1>2. CASE q.aborted
  <2>1. PICK to : to = Locations!Failed(q)
    OBVIOUS
  <2>2. Locations!Goes(r, to) /\ table' = table
    BY <1>1, <1>2, <2>1 DEF Locations!FindStale
  <2>3. to \in Ended /\ to.alone = q.alone /\ to.file = q.file /\ to.at = "failed"
    BY <2>1 DEF Locations!Failed, Locations!Ended, Ended, Running
  <2>4. Clean(to)
    BY <1>1, <1>2, <2>3 DEF Quiet, Clean
  <2> QED
    BY <2>2, <2>3, <2>4, Ending
<1>3. CASE ~q.aborted
  <2> DEFINE gone == {k \in AirportKeys \ Locations!Codes(q.file) :
                         Locations!View(r, k) # Locations!Absent}
  <2>1. PICK to : to = [q EXCEPT !.at = "delete", !.gone = gone]
    BY Zenon
  <2>2. Locations!Goes(r, to) /\ table' = table
    BY <1>1, <1>3, <2>1 DEF Locations!FindStale
  <2>3. gone = {k \in AirportKeys \ Locations!Codes(q.file) : Seen(q, table, k) # Locations!Absent}
    BY <1>1 DEF Locations!View, Seen
  <2> HIDE DEF gone
  <2>4. gone \in SUBSET AirportKeys
    BY <2>3
  <2>5. to \in Running
    BY <2>1, <2>4 DEF Running, Busyness
  <2>6. /\ to.at = "delete" /\ to.file = q.file /\ to.n = q.n /\ to.cache = q.cache
        /\ to.mine = q.mine /\ to.aborted = q.aborted /\ to.skipped = q.skipped
        /\ to.gone = gone /\ to.alone = q.alone /\ to.late = q.late /\ to.stmt = q.stmt
        /\ to.overtaken = q.overtaken /\ to.known = q.known /\ q.stmt = {}
    BY <1>1, <2>1 DEF Running, Fit, StmtFits
  <2>7. \A k \in AirportKeys \ (Locations!Codes(q.file) \cup q.late) :
           table[k] # Locations!Absent => k \in gone
    BY <1>1, <2>3 DEF Fit, Seen
  <2>8. Fit(to, table)
    <3>1. Alike(to, q)
      BY <2>6 DEF Alike
    <3>2. \A k \in DOMAIN q.mine : q.mine[k] # Locations!Absent
      BY <1>1 DEF Fit
    <3> QED
      BY <1>1, <1>3, <2>3, <2>6, <2>7, <3>1, <3>2, AlikeFacts DEF Fit, StmtFits
  <2>9. Quiet(to, table)
    BY <1>1, <2>6 DEF Quiet
  <2> QED
    BY <1>1, <2>2, <2>5, <2>6, <2>8, <2>9, Onward DEF Busyness
<1> QED
  BY <1>2, <1>3

\* The deletions leave the rows of the file and their parents.
LEMMA DeletedFits ==
    ASSUME NEW q \in Running, NEW t, Fit(q, t), q.at = "delete", NEW to,
           to.at = "commit", to.file = q.file, to.n = q.n, to.cache = q.cache,
           to.aborted = q.aborted, to.skipped = q.skipped, to.gone = q.gone, to.late = q.late,
           to.stmt = q.stmt, to.overtaken = q.overtaken, DOMAIN to.mine = q.gone \cup DOMAIN q.mine,
           \A k \in q.gone : to.mine[k] = Locations!Absent,
           \A k \in DOMAIN q.mine \ q.gone : to.mine[k] = q.mine[k]
    PROVE  Fit(to, t)
<1>1. ~q.aborted /\ q.n <= Len(q.file.rows) + 1 /\ q.n > Len(q.file.rows)
  BY DEF Fit
<1>2. q.gone \subseteq AirportKeys /\ q.file \in ImportFiles /\ q.n \in Nat \ {0}
  BY DEF Running
<1>3. q.gone \cap Locations!Parents(q.file) = {} /\ q.gone \cap Locations!Codes(q.file) = {}
  BY <1>2, FileFacts DEF Fit
<1>4. RowsSaved(to, t)
  <2>1. ASSUME NEW m \in 1..(q.n - 1)
        PROVE  q.file.rows[m].code \in Unsure(to) \/ LastSays(to, t, m)
    <3>1. q.file.rows[m].code \in Unsure(q) \/ LastSays(q, t, m)
      BY <1>1 DEF Fit, RowsSaved
    <3>2. m \in 1..Len(q.file.rows)
      BY <1>1, <1>2, FileFacts
    <3>3. q.file.rows[m].code \notin q.gone
      BY <1>2, <1>3, <3>2, FileFacts
    <3>4. Seen(to, t, q.file.rows[m].code) = Seen(q, t, q.file.rows[m].code)
      BY <3>3 DEF Seen
    <3> QED
      BY <3>1, <3>4 DEF Unsure, LastSays
  <2> QED
    BY <2>1 DEF RowsSaved
<1>5. \A k \in to.cache \ {"none"} : Seen(to, t, k) # Locations!Absent
  BY <1>1, <1>3 DEF Fit, Seen
<1>6. StmtFits(to)
  BY DEF Fit, StmtFits
<1> QED
  BY <1>1, <1>4, <1>5, <1>6 DEF Fit

LEMMA DeleteStaleHolds ==
    ASSUME ImportInv, NEW r \in Admins, Locations!DeleteStale(r)
    PROVE  ImportInv'
<1>1. PICK q \in Running : q = import[r] /\ Fit(q, table) /\ Quiet(q, table) /\ q.at = "delete"
  BY Kinds DEF ImportInv, Locations!DeleteStale, Locations!At, Busyness
<1>2. PICK dead : dead = [k \in q.gone |-> Locations!Absent]
  OBVIOUS
<1>3. PICK m : m = Locations!Over(dead, q.mine)
  OBVIOUS
<1>4. PICK to : to = [q EXCEPT !.at = "commit", !.mine = m]
  OBVIOUS
<1>5. Locations!Goes(r, to) /\ table' = table
  BY <1>1, <1>2, <1>3, <1>4 DEF Locations!DeleteStale
<1>6. dead \in Partial /\ DOMAIN dead = q.gone /\ \A k \in q.gone : dead[k] = Locations!Absent
  <2>1. q.gone \in SUBSET LocationKeys
    BY PartsAssumption DEF Running
  <2>2. dead \in [q.gone -> Values]
    BY <1>2 DEF Values
  <2> QED
    BY <1>2, <2>1, <2>2, PartialFacts
<1>7. q.mine \in Partial
  BY DEF Running
<1>8. /\ m \in Partial /\ DOMAIN m = q.gone \cup DOMAIN q.mine
      /\ \A k \in q.gone : m[k] = Locations!Absent
      /\ \A k \in DOMAIN q.mine \ q.gone : m[k] = q.mine[k]
  <2>1. DOMAIN q.mine \subseteq LocationKeys /\ \A k \in DOMAIN q.mine : q.mine[k] \in Values
    BY <1>7, PartialFacts
  <2>2. m \in Partial /\ IsOver(m, dead, q.mine)
    BY <1>3, <1>6, <2>1, OverFacts, Zenon
  <2> QED
    BY <1>6, <2>2 DEF IsOver
<1>9. to \in Running
  BY <1>4, <1>8 DEF Running, Busyness
<1>10. /\ to.at = "commit" /\ to.file = q.file /\ to.n = q.n /\ to.cache = q.cache
       /\ to.mine = m /\ to.aborted = q.aborted /\ to.skipped = q.skipped
       /\ to.gone = q.gone /\ to.alone = q.alone /\ to.late = q.late /\ to.stmt = q.stmt
       /\ to.overtaken = q.overtaken /\ q.stmt = {}
  BY <1>1, <1>4 DEF Running, Fit, StmtFits
<1>11. Fit(to, table)
  BY <1>1, <1>8, <1>10, DeletedFits
<1>12. Quiet(to, table)
  BY <1>1, <1>10 DEF Quiet
<1> QED
  BY <1>1, <1>5, <1>9, <1>10, <1>11, <1>12, Onward DEF Busyness

LEMMA LeavingHolds ==
    ASSUME ImportInv, NEW r \in Admins,
           (\E works \in BOOLEAN : Locations!Purge(r, works))
             \/ Locations!Leave(r) \/ Locations!Crash(r)
    PROVE  ImportInv'
<1>1. CASE Locations!Goes(r, Locations!Idle) /\ table' = table
  <2>1. Locations!Idle \notin Ended /\ Locations!Idle.at # "purge"
    BY DEF Locations!Idle, Ended
  <2> QED
    BY <1>1, <2>1, Ending
<1>2. CASE Locations!At(r, "purge") /\ table' = table
              /\ Locations!Goes(r, Locations!Ended(import[r], "answered"))
  <2>1. import[r] \in Ended /\ Clean(import[r])
    BY <1>2, Kinds DEF ImportInv, Locations!At
  <2>2. PICK to : to = Locations!Ended(import[r], "answered")
    OBVIOUS
  <2>3. to \in Ended /\ to.alone = import[r].alone /\ to.file = import[r].file
           /\ to.skipped = import[r].skipped /\ to.at = "answered"
    BY <2>1, <2>2 DEF Locations!Ended, Ended
  <2>4. Clean(to)
    BY <2>1, <2>3 DEF Clean
  <2> QED
    BY <1>2, <2>2, <2>3, <2>4, Ending
<1> QED
  BY <1>1, <1>2 DEF Locations!Purge, Locations!Leave, Locations!Crash

-----------------------------------------------------------------------------
(* Imports: the steps that change several requests                          *)

\* The invariant after a step, request by request.
LEMMA EachHolds ==
    ASSUME table' \in [LocationKeys -> Values], DOMAIN import' = Admins,
           import' = [p \in Admins |-> import'[p]],
           \A p \in Admins :
              \/ import'[p] \in Running /\ Fit(import'[p], table') /\ Quiet(import'[p], table')
              \/ import'[p] \in Ended /\ Clean(import'[p])
              \/ import'[p] = Locations!Idle,
           \A p, s \in Admins : p # s =>
              ~(/\ import'[p].at \in Busyness \cup {"purge"} /\ import'[p].alone
                /\ import'[s].at \in Busyness \cup {"purge"})
    PROVE  ImportInv'
<1>1. \A p \in Admins : import'[p] \in Running \cup Ended \cup {Locations!Idle}
  OBVIOUS
<1>2. import' \in [Admins -> Running \cup Ended \cup {Locations!Idle}]
  BY <1>1, Zenon
<1>3. \A q \in Running : q \notin Ended /\ q # Locations!Idle
  BY DEF Running, Ended, Busyness, Locations!Idle
<1>4. \A q \in Ended : q # Locations!Idle
  BY DEF Ended, Locations!Idle
<1>5. /\ \A p \in Admins : import'[p] \in Running =>
            Fit(import'[p], table') /\ Quiet(import'[p], table')
      /\ \A p \in Admins : import'[p] \in Ended => Clean(import'[p])
  BY <1>3, <1>4
<1>6. \A p \in Admins : (Locations!Busy(p))' <=> (import'[p].at \in Busyness \cup {"purge"})
  BY <1>1 DEF Locations!Busy, Locations!At, Running, Ended, Busyness, Locations!Idle
<1> QED
  BY <1>2, <1>5, <1>6 DEF ImportInv

\* to is q once another request has changed keys of written, made rows of new
\* and taken those of removed.
Crossed(to, q, new, removed, written) ==
    /\ to.at = q.at /\ to.file = q.file /\ to.n = q.n /\ to.cache = q.cache
    /\ to.mine = q.mine /\ to.stmt = q.stmt /\ to.aborted = q.aborted
    /\ to.skipped = q.skipped /\ to.gone = q.gone
    /\ to.late = q.late \cup (new \ Locations!Codes(q.file))
    /\ to.known = q.known \ removed
    /\ to.overtaken = q.overtaken \cup (written \cap Locations!Codes(q.file))

LEMMA MeanwhileFacts ==
    ASSUME NEW q \in Running, NEW new \in SUBSET LocationKeys,
           NEW removed \in SUBSET LocationKeys, NEW written \in SUBSET LocationKeys,
           NEW to, to = Locations!Meanwhile(q, new, removed, written)
    PROVE  to \in Running /\ to.alone = q.alone /\ Crossed(to, q, new, removed, written)
<1>1. PICK late, known, over :
         /\ late = q.late \cup (new \ Locations!Codes(q.file))
         /\ known = q.known \ removed
         /\ over = q.overtaken \cup (written \cap Locations!Codes(q.file))
  OBVIOUS
<1>2. to = [q EXCEPT !.late = late, !.known = known, !.overtaken = over]
  BY <1>1 DEF Locations!Meanwhile, Running
<1>3. /\ late \in SUBSET LocationKeys /\ known \in SUBSET LocationKeys
      /\ over \in SUBSET LocationKeys
  BY <1>1 DEF Running
<1>4. /\ to \in Running /\ to.alone = q.alone
      /\ to.at = q.at /\ to.file = q.file /\ to.n = q.n /\ to.cache = q.cache
      /\ to.mine = q.mine /\ to.stmt = q.stmt /\ to.aborted = q.aborted
      /\ to.skipped = q.skipped /\ to.gone = q.gone
      /\ to.late = late /\ to.known = known /\ to.overtaken = over
  BY <1>2, <1>3 DEF Running
<1> QED
  BY <1>1, <1>4 DEF Crossed

\* An import that is no longer alone.
LEMMA NotAloneFacts ==
    ASSUME NEW q \in Running, NEW to, to = [q EXCEPT !.alone = FALSE]
    PROVE  to \in Running /\ ~to.alone /\ Crossed(to, q, {}, {}, {})
<1>1. /\ to \in Running /\ to.alone = FALSE
      /\ to.at = q.at /\ to.file = q.file /\ to.n = q.n /\ to.cache = q.cache
      /\ to.mine = q.mine /\ to.stmt = q.stmt /\ to.aborted = q.aborted
      /\ to.skipped = q.skipped /\ to.gone = q.gone
      /\ to.late = q.late /\ to.known = q.known /\ to.overtaken = q.overtaken
  BY DEF Running
<1> QED
  BY <1>1 DEF Crossed

\* What an import holds while the table changes from t to u: the rows it has
\* saved are there, but those written meanwhile; and its parents stay.
LEMMA CrossedFits ==
    ASSUME NEW q \in Running, NEW t, NEW u, Fit(q, t),
           NEW new, NEW removed, NEW written, removed \subseteq written,
           \A k \in LocationKeys \ written : u[k] = t[k],
           \A k \in LocationKeys \ AirportKeys :
              t[k] # Locations!Absent => u[k] # Locations!Absent,
           \A k \in LocationKeys :
              (u[k] # Locations!Absent /\ t[k] = Locations!Absent) => k \in new,
           NEW to \in Running, ~to.alone, Crossed(to, q, new, removed, written)
    PROVE  Fit(to, u) /\ Quiet(to, u)
<1> USE DEF Crossed
<1>1. q.file \in ImportFiles /\ q.n \in Nat \ {0} /\ Len(q.file.rows) \in Nat
  BY FileFacts DEF Running
<1>2. ASSUME ~q.aborted PROVE RowsSaved(to, u)
  <2>1. ASSUME NEW m \in 1..(q.n - 1)
        PROVE  q.file.rows[m].code \in Unsure(to) \/ LastSays(to, u, m)
    <3>1. q.file.rows[m].code \in Unsure(q) \/ LastSays(q, t, m)
      BY <1>2 DEF Fit, RowsSaved
    <3>2. m \in 1..Len(q.file.rows)
      BY <1>1, <1>2 DEF Fit
    <3>3. q.file.rows[m].code \in LocationKeys \cap Locations!Codes(q.file)
      BY <1>1, <3>2, FileFacts
    <3>4. q.file.rows[m].code \in written => q.file.rows[m].code \in Unsure(to)
      BY <3>3 DEF Unsure
    <3>5. Unsure(q) \subseteq Unsure(to)
      BY DEF Unsure
    <3>6. q.file.rows[m].code \notin written
             => Seen(to, u, q.file.rows[m].code) = Seen(q, t, q.file.rows[m].code)
      BY <3>3 DEF Seen
    <3>7. (q.file.rows[m].code \notin written /\ LastSays(q, t, m)) => LastSays(to, u, m)
      BY <3>6 DEF LastSays
    <3> QED
      BY <3>1, <3>4, <3>5, <3>7
  <2> QED
    BY <2>1 DEF RowsSaved
<1>3. ASSUME NEW k \in q.cache \ {"none"}, Seen(q, t, k) # Locations!Absent
      PROVE  Seen(to, u, k) # Locations!Absent
  <2>1. k \in LocationKeys \ AirportKeys
    BY <1>1, FileFacts DEF Fit
  <2> QED
    BY <1>3, <2>1 DEF Seen
<1>4. ASSUME NEW k \in AirportKeys \ (Locations!Codes(q.file) \cup to.late),
             u[k] # Locations!Absent
      PROVE  k \notin q.late /\ t[k] # Locations!Absent
  BY <1>4, PartsAssumption
<1>5. (to.at \in {"delete", "commit"} /\ to.file.dataset = "airports") =>
         \A k \in AirportKeys \ (Locations!Codes(to.file) \cup to.late) :
            u[k] # Locations!Absent => k \in to.gone
  BY <1>4 DEF Fit
<1>6. StmtFits(to)
  BY DEF Fit, StmtFits
<1>7. Fit(to, u)
  BY <1>2, <1>3, <1>5, <1>6 DEF Fit
<1>8. Quiet(to, u)
  BY DEF Quiet
<1> QED
  BY <1>7, <1>8

\* A request whose import another step disturbs.
LEMMA Disturbed ==
    ASSUME ImportInv, NEW p \in Admins, NEW u, NEW to,
           import[p] \in Running =>
              /\ to \in Running /\ to.at = import[p].at /\ ~to.alone
              /\ Fit(to, u) /\ Quiet(to, u),
           import[p] \notin Running =>
              to = IF Locations!Busy(p) THEN [import[p] EXCEPT !.alone = FALSE] ELSE import[p]
    PROVE  /\ \/ to \in Running /\ Fit(to, u) /\ Quiet(to, u)
              \/ to \in Ended /\ Clean(to)
              \/ to = Locations!Idle
           /\ to.at = import[p].at
           /\ to.at \in Busyness \cup {"purge"} => ~to.alone
<1>1. CASE import[p] \in Running
  BY <1>1
<1>2. CASE import[p] \in Ended
  <2>1. Clean(import[p]) /\ import[p].at \notin Busyness /\ import[p] \notin Running
    BY <1>2 DEF ImportInv, Ended, Running, Busyness
  <2>2. CASE import[p].at = "purge"
    <3>1. to = [import[p] EXCEPT !.alone = FALSE]
      BY <2>1, <2>2, Kinds
    <3>2. to \in Ended /\ to.at = import[p].at /\ to.alone = FALSE
      BY <1>2, <3>1 DEF Ended
    <3> QED
      BY <3>2 DEF Clean
  <2>3. CASE import[p].at # "purge"
    <3>1. to = import[p]
      BY <2>1, <2>3, Kinds
    <3> QED
      BY <1>2, <2>1, <2>3, <3>1
  <2> QED
    BY <2>2, <2>3
<1>3. CASE import[p] = Locations!Idle
  <2>1. import[p].at = "idle" /\ import[p] \notin Running
    BY <1>3 DEF Locations!Idle, Running, Busyness
  <2>2. to = import[p]
    BY <2>1 DEF Locations!Busy, Locations!At
  <2> QED
    BY <1>3, <2>1, <2>2 DEF Busyness
<1> QED
  BY <1>1, <1>2, <1>3 DEF ImportInv

LEMMA DeleteAirportHolds ==
    ASSUME ImportInv, NEW k \in AirportKeys, Locations!DeleteAirport(k)
    PROVE  ImportInv'
<1>1. k \in LocationKeys /\ table \in [LocationKeys -> Values]
  BY PartsAssumption DEF ImportInv
<1>2. table' = [table EXCEPT ![k] = Locations!Absent]
  BY DEF Locations!DeleteAirport
<1>3. table' \in [LocationKeys -> Values]
  BY <1>1, <1>2 DEF Values
<1>4. PICK gone : gone = {k}
  OBVIOUS
<1>5. /\ \A x \in LocationKeys \ gone : table'[x] = table[x]
      /\ \A x \in LocationKeys \ AirportKeys :
            table[x] # Locations!Absent => table'[x] # Locations!Absent
      /\ \A x \in LocationKeys :
            (table'[x] # Locations!Absent /\ table[x] = Locations!Absent) => x \in {}
      /\ gone \in SUBSET LocationKeys
  BY <1>1, <1>2, <1>4
<1>6. DOMAIN import' = Admins /\ import' = [p \in Admins |-> import'[p]]
  BY DEF Locations!DeleteAirport
<1>7. ASSUME NEW p \in Admins
      PROVE  /\ \/ import'[p] \in Running /\ Fit(import'[p], table') /\ Quiet(import'[p], table')
                \/ import'[p] \in Ended /\ Clean(import'[p])
                \/ import'[p] = Locations!Idle
             /\ import'[p].at \in Busyness \cup {"purge"} => ~import'[p].alone
  <2>1. PICK to, u : to = import'[p] /\ u = table'
    OBVIOUS
  <2>2. ASSUME import[p] \in Running
        PROVE  /\ to \in Running /\ to.at = import[p].at /\ ~to.alone
               /\ Fit(to, u) /\ Quiet(to, u)
    <3>1. PICK q \in Running : q = import[p] /\ Fit(q, table) /\ q.at \in Busyness
      BY <2>2 DEF ImportInv, Running
    <3>2. PICK met : met = Locations!Meanwhile(q, {}, gone, gone)
      OBVIOUS
    <3>3. to = [met EXCEPT !.alone = FALSE]
      BY <1>4, <2>1, <3>1, <3>2, Kinds DEF Locations!DeleteAirport
    <3>4. met \in Running /\ Crossed(met, q, {}, gone, gone)
      BY <1>5, <3>2, MeanwhileFacts
    <3>5. to \in Running /\ ~to.alone /\ Crossed(to, met, {}, {}, {})
      BY <3>3, <3>4, NotAloneFacts
    <3>6. Crossed(to, q, {}, gone, gone) /\ to.at = import[p].at
      BY <3>1, <3>4, <3>5 DEF Crossed
    <3>7. Fit(to, u) /\ Quiet(to, u)
      BY <1>5, <2>1, <3>1, <3>5, <3>6, CrossedFits
    <3> QED
      BY <3>5, <3>6, <3>7
  <2>3. ASSUME import[p] \notin Running
        PROVE  to = IF Locations!Busy(p) THEN [import[p] EXCEPT !.alone = FALSE] ELSE import[p]
    <3>1. ~Locations!InTransaction(p)
      BY <2>3, Kinds
    <3> QED
      BY <2>1, <3>1 DEF Locations!DeleteAirport
  <2>4. /\ \/ to \in Running /\ Fit(to, u) /\ Quiet(to, u)
           \/ to \in Ended /\ Clean(to)
           \/ to = Locations!Idle
        /\ to.at \in Busyness \cup {"purge"} => ~to.alone
    BY <2>2, <2>3, Disturbed, Zenon
  <2> QED
    BY <2>1, <2>4
<1> QED
  BY <1>3, <1>6, <1>7, EachHolds, Zenon

\* A new import has read the parents there are.
LEMMA StartFits ==
    ASSUME ImportInv, NEW file \in ImportFiles, NEW at \in {"parents", "read"},
           NEW cache, NEW alone \in BOOLEAN,
           cache \subseteq {"none"} \cup {k \in Locations!Parents(file) \cap LocationKeys :
                                             table[k] # Locations!Absent},
           at = "parents" => \A k \in Locations!Parents(file) \ cache :
                                table[k] = Locations!Absent,
           NEW to, to = [at |-> at, file |-> file, n |-> 1, known |-> {}, cache |-> cache,
                         mine |-> Locations!Nothing, stmt |-> {}, aborted |-> FALSE,
                         skipped |-> FALSE, gone |-> {}, overtaken |-> {},
                         alone |-> alone, late |-> {}]
    PROVE  to \in Running /\ to.alone = alone /\ Fit(to, table) /\ Quiet(to, table)
<1>1. to \in Running
  <2>1. Locations!Nothing \in Partial
    BY PartialFacts
  <2>2. cache \in SUBSET (LocationKeys \cup {"none"})
    OBVIOUS
  <2> QED
    BY <2>1, <2>2 DEF Running, Busyness
<1>2. /\ to.at = at /\ to.file = file /\ to.n = 1 /\ to.cache = cache
      /\ to.mine = Locations!Nothing /\ to.stmt = {} /\ to.aborted = FALSE
      /\ to.skipped = FALSE /\ to.gone = {} /\ to.alone = alone
  OBVIOUS
<1>3. DOMAIN to.mine = {}
  BY <1>2, PartialFacts
<1>4. RowsSaved(to, table) /\ StmtFits(to)
  BY <1>2 DEF RowsSaved, StmtFits
<1>5. \A k \in to.cache \ {"none"} : Seen(to, table, k) # Locations!Absent
  BY <1>2, <1>3 DEF Seen
<1>6. to.n <= Len(to.file.rows) + 1 /\ \A m \in 1..(to.n - 1) : to.file.rows[m].parent \in to.cache
  BY <1>2, FileFacts
<1>7. Fit(to, table)
  BY <1>2, <1>3, <1>4, <1>5, <1>6 DEF Fit
<1>8. Quiet(to, table)
  BY <1>2, <1>3 DEF Quiet, Seen
<1> QED
  BY <1>1, <1>2, <1>7, <1>8

LEMMA StartHolds ==
    ASSUME ImportInv, NEW r \in Admins, NEW file \in ImportFiles, Locations!Start(r, file)
    PROVE  ImportInv'
<1>1. PICK at \in {"parents", "read"} :
         at = IF file.dataset = "regions" THEN "parents" ELSE "read"
  OBVIOUS
<1>2. PICK cache : cache = {"none"} \cup
         (IF file.dataset = "regions"
          THEN {k \in Locations!Parents(file) \cap LocationKeys : table[k] # Locations!Absent}
          ELSE {})
  OBVIOUS
<1>3. PICK alone \in BOOLEAN : alone = (\A p \in Admins : ~Locations!Busy(p))
  OBVIOUS
<1>4. PICK to : to = [at |-> at, file |-> file, n |-> 1, known |-> {}, cache |-> cache,
                      mine |-> Locations!Nothing, stmt |-> {}, aborted |-> FALSE,
                      skipped |-> FALSE, gone |-> {}, overtaken |-> {},
                      alone |-> alone, late |-> {}]
  OBVIOUS
<1>5. /\ table' = table /\ DOMAIN import' = Admins /\ import' = [p \in Admins |-> import'[p]]
      /\ import'[r] = to
      /\ \A p \in Admins \ {r} : import'[p] =
            IF Locations!Busy(p) THEN [import[p] EXCEPT !.alone = FALSE] ELSE import[p]
  BY <1>1, <1>2, <1>3, <1>4 DEF Locations!Start, Locations!NoParent
<1>6. to \in Running /\ to.alone = alone /\ Fit(to, table) /\ Quiet(to, table)
  <2>1. cache \subseteq {"none"} \cup {k \in Locations!Parents(file) \cap LocationKeys :
                                          table[k] # Locations!Absent}
    BY <1>2
  <2>2. at = "parents" => \A k \in Locations!Parents(file) \ cache :
                             table[k] = Locations!Absent
    BY <1>1, <1>2, FileFacts
  <2> QED
    BY <1>4, <2>1, <2>2, StartFits, Zenon
<1>7. ASSUME NEW p \in Admins \ {r}
      PROVE  /\ \/ import'[p] \in Running /\ Fit(import'[p], table) /\ Quiet(import'[p], table)
                \/ import'[p] \in Ended /\ Clean(import'[p])
                \/ import'[p] = Locations!Idle
             /\ import'[p].at = import[p].at
             /\ import'[p].at \in Busyness \cup {"purge"} => ~import'[p].alone
  <2>1. PICK new : new = import'[p]
    OBVIOUS
  <2>2. new = IF Locations!Busy(p) THEN [import[p] EXCEPT !.alone = FALSE] ELSE import[p]
    BY <1>5, <2>1
  <2>3. p \in Admins
    OBVIOUS
  <2>4. ASSUME import[p] \in Running
        PROVE  /\ new \in Running /\ new.at = import[p].at /\ ~new.alone
               /\ Fit(new, table) /\ Quiet(new, table)
    <3>1. PICK q \in Running : q = import[p] /\ Fit(q, table) /\ q.at \in Busyness
      BY <2>4 DEF ImportInv, Running
    <3>2. new = [q EXCEPT !.alone = FALSE]
      BY <2>2, <2>3, <3>1, Kinds
    <3>3. new \in Running /\ ~new.alone /\ Crossed(new, q, {}, {}, {})
      BY <3>2, NotAloneFacts
    <3>4. Fit(new, table) /\ Quiet(new, table)
      BY <3>1, <3>3, CrossedFits
    <3> QED
      BY <3>1, <3>3, <3>4 DEF Crossed
  <2>5. /\ \/ new \in Running /\ Fit(new, table) /\ Quiet(new, table)
           \/ new \in Ended /\ Clean(new)
           \/ new = Locations!Idle
        /\ new.at = import[p].at
        /\ new.at \in Busyness \cup {"purge"} => ~new.alone
    BY <2>2, <2>3, <2>4, Disturbed, Zenon
  <2> QED
    BY <2>1, <2>5
<1>8. ASSUME NEW p \in Admins, NEW s \in Admins, p # s
      PROVE  ~(/\ import'[p].at \in Busyness \cup {"purge"} /\ import'[p].alone
               /\ import'[s].at \in Busyness \cup {"purge"})
  <2>1. CASE p = r
    <3>1. import'[s].at = import[s].at
      BY <1>7, <1>8, <2>1
    <3>2. alone => import[s].at \notin Busyness \cup {"purge"}
      BY <1>3, Kinds
    <3>3. import'[p].alone = alone
      BY <1>5, <1>6, <2>1
    <3> QED
      BY <3>1, <3>2, <3>3
  <2>2. CASE p # r
    BY <1>7, <2>2
  <2> QED
    BY <2>1, <2>2
<1>9. table' \in [LocationKeys -> Values]
  BY <1>5 DEF ImportInv
<1>10. ASSUME NEW p \in Admins
       PROVE \/ import'[p] \in Running /\ Fit(import'[p], table') /\ Quiet(import'[p], table')
             \/ import'[p] \in Ended /\ Clean(import'[p])
             \/ import'[p] = Locations!Idle
  BY <1>5, <1>6, <1>7
<1> QED
  BY <1>5, <1>8, <1>9, <1>10, EachHolds, Zenon

\* The table a commit leaves.
LEMMA Committed ==
    ASSUME ImportInv, NEW q \in Running, NEW u, u = Locations!Over(q.mine, table)
    PROVE  u \in [LocationKeys -> Values] /\ IsOver(u, q.mine, table)
<1>1. /\ DOMAIN table = LocationKeys /\ \A k \in DOMAIN table : table[k] \in Values
      /\ q.mine \in Partial
  BY DEF ImportInv, Running
<1>2. u \in Partial /\ u \in [DOMAIN u -> Values] /\ IsOver(u, q.mine, table)
  BY <1>1, OverFacts, Zenon
<1>3. DOMAIN u = LocationKeys
  BY <1>1, <1>2, PartialFacts DEF IsOver
<1> QED
  BY <1>2, <1>3

\* What a commit changes.
LEMMA CommitChanges ==
    ASSUME ImportInv, NEW q \in Running, Fit(q, table), q.at = "commit",
           NEW u, u \in [LocationKeys -> Values], IsOver(u, q.mine, table)
    PROVE  /\ DOMAIN q.mine \in SUBSET LocationKeys
           /\ \A k \in LocationKeys \ DOMAIN q.mine : u[k] = table[k]
           /\ \A k \in LocationKeys \ AirportKeys :
                 table[k] # Locations!Absent => u[k] # Locations!Absent
<1>1. /\ DOMAIN q.mine \in SUBSET LocationKeys /\ q.gone \subseteq AirportKeys
      /\ DOMAIN table = LocationKeys
  BY PartialFacts DEF Running, ImportInv
<1>2. \A k \in LocationKeys \ DOMAIN q.mine : u[k] = table[k]
  BY <1>1 DEF IsOver
<1>3. \A k \in DOMAIN q.mine \ AirportKeys : u[k] # Locations!Absent
  BY <1>1 DEF Fit, IsOver
<1> QED
  BY <1>1, <1>2, <1>3

LEMMA CommitHolds ==
    ASSUME ImportInv, NEW r \in Admins, Locations!Commit(r)
    PROVE  ImportInv'
<1>1. PICK q \in Running : q = import[r] /\ Fit(q, table) /\ Quiet(q, table) /\ q.at = "commit"
  BY Kinds DEF ImportInv, Locations!Commit, Locations!At, Busyness
<1>2. PICK u : u = Locations!Over(q.mine, table)
  OBVIOUS
<1>3. u \in [LocationKeys -> Values] /\ IsOver(u, q.mine, table)
  BY <1>2, Committed, Zenon
<1>4. PICK new : new = {k \in LocationKeys : u[k] # Locations!Absent
                                                /\ table[k] = Locations!Absent}
  OBVIOUS
<1>14. PICK removed : removed = {k \in LocationKeys : u[k] = Locations!Absent
                                                     /\ table[k] # Locations!Absent}
  OBVIOUS
<1>15. PICK written : written = DOMAIN q.mine
  OBVIOUS
<1>16. /\ new \in SUBSET LocationKeys /\ removed \in SUBSET LocationKeys
       /\ written \in SUBSET LocationKeys /\ removed \subseteq written
       /\ \A k \in LocationKeys \ written : u[k] = table[k]
       /\ \A k \in LocationKeys \ AirportKeys :
             table[k] # Locations!Absent => u[k] # Locations!Absent
       /\ \A k \in LocationKeys :
             (u[k] # Locations!Absent /\ table[k] = Locations!Absent) => k \in new
  BY <1>1, <1>3, <1>4, <1>14, <1>15, CommitChanges
<1>5. PICK end : end = Locations!Ended(q, IF q.gone = {} THEN "answered" ELSE "purge")
  OBVIOUS
<1>6. /\ table' = u /\ DOMAIN import' = Admins /\ import' = [p \in Admins |-> import'[p]]
      /\ import'[r] = end
      /\ \A p \in Admins \ {r} : import'[p] =
            IF Locations!InTransaction(p)
            THEN Locations!Meanwhile(import[p], new, removed, written)
            ELSE import[p]
  BY <1>1, <1>2, <1>4, <1>5, <1>14, <1>15 DEF Locations!Commit
<1>7. end \in Ended /\ end.at \in {"answered", "purge"} /\ end.alone = q.alone
         /\ end.file = q.file /\ end.skipped = q.skipped
  BY <1>5 DEF Locations!Ended, Ended, Running
<1>8. Clean(end)
  BY <1>1, <1>7 DEF Clean, Quiet, Fit
<1>9. Locations!Busy(r)
  BY <1>1 DEF Locations!Busy, Locations!At
<1>10. ASSUME NEW p \in Admins \ {r}
       PROVE  /\ \/ import'[p] \in Running /\ Fit(import'[p], u) /\ Quiet(import'[p], u)
                 \/ import'[p] \in Ended /\ Clean(import'[p])
                 \/ import'[p] = Locations!Idle
              /\ import'[p].at = import[p].at
              /\ import'[p].at \in Busyness \cup {"purge"} => ~import'[p].alone
  <2>1. import[p].at \in Busyness \cup {"purge"} => ~import[p].alone
    BY <1>9, Kinds DEF ImportInv
  <2>2. CASE import[p].at \in Busyness
    <3>1. PICK o \in Running : o = import[p] /\ Fit(o, table) /\ ~o.alone
      BY <2>1, <2>2, Kinds DEF ImportInv
    <3>2. PICK to : to = Locations!Meanwhile(o, new, removed, written)
      OBVIOUS
    <3>3. to = import'[p]
      BY <1>6, <2>2, <3>1, <3>2, Kinds
    <3>4. to \in Running /\ to.alone = o.alone /\ Crossed(to, o, new, removed, written)
      BY <1>16, <3>2, MeanwhileFacts
    <3>5. Fit(to, u) /\ Quiet(to, u)
      BY <1>16, <3>1, <3>4, CrossedFits
    <3> QED
      BY <3>1, <3>3, <3>4, <3>5 DEF Crossed
  <2>3. CASE import[p].at \notin Busyness
    <3>1. import'[p] = import[p]
      BY <1>6, <2>3, Kinds
    <3>2. import[p] \notin Running
      BY <2>3 DEF Running
    <3>3. (import[p] \in Ended /\ Clean(import[p])) \/ import[p] = Locations!Idle
      BY <3>2 DEF ImportInv
    <3> QED
      BY <2>1, <3>1, <3>3
  <2> QED
    BY <2>2, <2>3
<1>11. ASSUME NEW p \in Admins
       PROVE \/ import'[p] \in Running /\ Fit(import'[p], table') /\ Quiet(import'[p], table')
             \/ import'[p] \in Ended /\ Clean(import'[p])
             \/ import'[p] = Locations!Idle
  BY <1>6, <1>7, <1>8, <1>10
<1>12. ASSUME NEW p \in Admins, NEW s \in Admins, p # s
       PROVE  ~(/\ import'[p].at \in Busyness \cup {"purge"} /\ import'[p].alone
                /\ import'[s].at \in Busyness \cup {"purge"})
  <2>1. CASE p = r
    <3>1. import'[s].at = import[s].at
      BY <1>10, <1>12, <2>1
    <3>2. q.alone => import[s].at \notin Busyness \cup {"purge"}
      BY <1>1, <1>9, <2>1, <1>12, Kinds DEF ImportInv
    <3>3. import'[p].alone = q.alone
      BY <1>6, <1>7, <2>1
    <3> QED
      BY <3>1, <3>2, <3>3
  <2>2. CASE p # r
    BY <1>10, <2>2
  <2> QED
    BY <2>1, <2>2
<1>13. table' \in [LocationKeys -> Values]
  BY <1>3, <1>6
<1> QED
  BY <1>6, <1>11, <1>12, <1>13, EachHolds, Zenon

\* Every step of an import, or of the deletion of an airport.
LEMMA ImportHolds ==
    ASSUME ImportInv, Locations!Next
    PROVE  ImportInv'
<1>1. ASSUME NEW k \in AirportKeys, Locations!DeleteAirport(k) PROVE ImportInv'
  BY <1>1, DeleteAirportHolds
<1>2. ASSUME NEW r \in Admins, NEW file \in ImportFiles, Locations!Start(r, file)
      PROVE  ImportInv'
  BY <1>2, StartHolds
<1>3. ASSUME NEW r \in Admins, NEW k \in LocationKeys, NEW changed \in BOOLEAN,
             Locations!SelectParent(r, k, changed)
      PROVE  ImportInv'
  BY <1>3, SelectParentHolds
<1>4. ASSUME NEW r \in Admins,
             \/ Locations!ReadExisting(r) \/ Locations!WriteParent(r) \/ Locations!SelectRow(r)
             \/ Locations!InsertRow(r) \/ Locations!UpdateRow(r) \/ Locations!SkipRow(r)
             \/ Locations!Deadlock(r) \/ Locations!RowsDone(r)
             \/ Locations!FindStale(r) \/ Locations!DeleteStale(r) \/ Locations!Commit(r)
      PROVE  ImportInv'
  BY <1>4, ReadExistingHolds, WriteParentHolds, SelectRowHolds, InsertRowHolds, UpdateRowHolds,
     SkipRowHolds, DeadlockHolds, RowsDoneHolds, FindStaleHolds, DeleteStaleHolds, CommitHolds,
     Zenon
<1>5. ASSUME NEW r \in Admins,
             \/ \E works \in BOOLEAN : Locations!Purge(r, works)
             \/ Locations!Leave(r) \/ Locations!Crash(r)
      PROVE  ImportInv'
  BY <1>5, LeavingHolds
<1> QED
  BY <1>1, <1>2, <1>3, <1>4, <1>5, Zenon DEF Locations!Next

-----------------------------------------------------------------------------
(* Imports: what a commit leaves                                            *)

\* Only its commit ends a request that is about to commit.
LEMMA CommitOnly ==
    ASSUME ImportInv, Locations!Next, NEW r \in Admins, import[r].at = "commit",
           import'[r].at \in {"purge", "answered"}
    PROVE  Locations!Commit(r)
<1> DEFINE Stays == import'[r].at \notin {"purge", "answered"}
<1>0. DOMAIN import = Admins
  BY DEF ImportInv
<1>1. ASSUME NEW s \in Admins, s # r, NEW to, Locations!Goes(s, to) PROVE Stays
  BY <1>0, <1>1 DEF Locations!Goes
<1>2. ASSUME NEW to, Locations!Goes(r, to), to.at \notin {"purge", "answered"} PROVE Stays
  BY <1>0, <1>2 DEF Locations!Goes
<1>3. ASSUME NEW k \in AirportKeys, Locations!DeleteAirport(k) PROVE Stays
  <2>1. import[r] \in Running
    BY Kinds DEF Busyness
  <2>2. PICK new, removed, written :
           import'[r] = [Locations!Meanwhile(import[r], new, removed, written)
                           EXCEPT !.alone = FALSE]
    BY <1>3, Kinds DEF Locations!DeleteAirport, Busyness
  <2>3. import'[r].at = import[r].at
    BY <2>1, <2>2 DEF Running, Locations!Meanwhile
  <2> QED
    BY <2>3
<1>4. ASSUME NEW s \in Admins, NEW file \in ImportFiles, Locations!Start(s, file) PROVE Stays
  <2>1. s # r
    BY <1>4 DEF Locations!Start, Locations!At
  <2>2. import[r] \in Running
    BY Kinds DEF Busyness
  <2>3. import'[r] \in {import[r], [import[r] EXCEPT !.alone = FALSE]}
    BY <1>4, <2>1 DEF Locations!Start
  <2>4. import'[r].at = import[r].at
    BY <2>2, <2>3 DEF Running
  <2> QED
    BY <2>4
<1>5. ASSUME NEW s \in Admins, s # r, Locations!Commit(s) PROVE Stays
  <2>1. import[r] \in Running
    BY Kinds DEF Busyness
  <2>2. PICK new, removed, written :
           import'[r] = Locations!Meanwhile(import[r], new, removed, written)
    BY <1>5, Kinds DEF Locations!Commit, Busyness
  <2>3. import'[r].at = import[r].at
    BY <2>1, <2>2 DEF Running, Locations!Meanwhile
  <2> QED
    BY <2>3
<1>6. ASSUME NEW s \in Admins, s # r, Locations!Fails(s) PROVE Stays
  BY <1>1, <1>6 DEF Locations!Fails
<1>7. ASSUME NEW s \in Admins, NEW k \in LocationKeys, NEW changed \in BOOLEAN,
             Locations!SelectParent(s, k, changed)
      PROVE  Stays
  <2>1. s # r
    BY <1>7 DEF Locations!SelectParent, Locations!NextParents, Locations!At
  <2>2. Locations!Fails(s) \/ \E to : Locations!Goes(s, to)
    BY <1>7 DEF Locations!SelectParent
  <2> QED
    BY <1>1, <1>6, <2>1, <2>2
<1>8. ASSUME NEW s \in Admins, s # r,
             \/ Locations!ReadExisting(s) \/ Locations!WriteParent(s) \/ Locations!SelectRow(s)
             \/ Locations!InsertRow(s) \/ Locations!UpdateRow(s) \/ Locations!SkipRow(s)
             \/ Locations!Deadlock(s) \/ Locations!RowsDone(s)
             \/ Locations!FindStale(s) \/ Locations!DeleteStale(s)
             \/ (\E works \in BOOLEAN : Locations!Purge(s, works))
             \/ Locations!Leave(s) \/ Locations!Crash(s)
      PROVE  Stays
  <2> DEFINE Goes == Locations!Fails(s) \/ \E to : Locations!Goes(s, to)
  <2>1. (Locations!ReadExisting(s) \/ Locations!SelectRow(s) \/ Locations!SkipRow(s)) => Goes
    BY Zenon DEF Locations!ReadExisting, Locations!SelectRow, Locations!SkipRow
  <2>2. (Locations!WriteParent(s) \/ Locations!InsertRow(s)) => Goes
    BY Zenon DEF Locations!WriteParent, Locations!InsertRow
  <2>3. (Locations!UpdateRow(s) \/ Locations!Deadlock(s)) => Goes
    BY Zenon DEF Locations!UpdateRow, Locations!Deadlock
  <2>4. (Locations!RowsDone(s) \/ Locations!FindStale(s) \/ Locations!DeleteStale(s)) => Goes
    BY Zenon DEF Locations!RowsDone, Locations!FindStale, Locations!DeleteStale
  <2>5. (\/ (\E works \in BOOLEAN : Locations!Purge(s, works))
         \/ Locations!Leave(s) \/ Locations!Crash(s)) => Goes
    BY Zenon DEF Locations!Purge, Locations!Leave, Locations!Crash
  <2>6. Goes
    BY <1>8, <2>1, <2>2, <2>3, <2>4, <2>5, Zenon
  <2> QED
    BY <1>1, <1>6, <1>8, <2>6
<1>9. ASSUME \/ Locations!ReadExisting(r) \/ Locations!WriteParent(r) \/ Locations!SelectRow(r)
             \/ Locations!InsertRow(r) \/ Locations!UpdateRow(r) \/ Locations!SkipRow(r)
             \/ Locations!RowsDone(r)
             \/ Locations!FindStale(r) \/ Locations!DeleteStale(r)
             \/ (\E works \in BOOLEAN : Locations!Purge(r, works))
             \/ Locations!Leave(r)
      PROVE  FALSE
  BY <1>9 DEF Locations!ReadExisting, Locations!WriteParent, Locations!SelectRow,
     Locations!InsertRow, Locations!UpdateRow, Locations!AtRow, Locations!SkipRow,
     Locations!NextParents, Locations!RowsDone, Locations!FindStale, Locations!DeleteStale,
     Locations!Purge, Locations!Leave, Locations!At
<1>10. ASSUME Locations!Crash(r) PROVE Stays
  <2>1. Locations!Idle.at \notin {"purge", "answered"}
    BY DEF Locations!Idle
  <2> QED
    BY <1>2, <1>10, <2>1 DEF Locations!Crash
<1>11. ASSUME Locations!Deadlock(r) PROVE Stays
  <2>1. Locations!Goes(r, Locations!Failed(import[r]))
    BY <1>11 DEF Locations!Deadlock, Locations!Fails, Locations!At
  <2>2. Locations!Failed(import[r]).at = "failed"
    BY DEF Locations!Failed, Locations!Ended
  <2> QED
    BY <1>2, <2>1, <2>2
<1>12. ASSUME NEW s \in Admins,
              \/ Locations!ReadExisting(s) \/ Locations!WriteParent(s) \/ Locations!SelectRow(s)
              \/ Locations!InsertRow(s) \/ Locations!UpdateRow(s) \/ Locations!SkipRow(s)
              \/ Locations!Deadlock(s) \/ Locations!RowsDone(s)
              \/ Locations!FindStale(s) \/ Locations!DeleteStale(s) \/ Locations!Commit(s)
              \/ (\E works \in BOOLEAN : Locations!Purge(s, works))
              \/ Locations!Leave(s) \/ Locations!Crash(s)
       PROVE  Stays \/ Locations!Commit(r)
  <2>1. CASE s # r
    BY <1>5, <1>8, <1>12, <2>1, Zenon
  <2>2. CASE s = r
    BY <1>9, <1>10, <1>11, <1>12, <2>2, Zenon
  <2> QED
    BY <2>1, <2>2
<1>13. Stays \/ Locations!Commit(r)
  BY <1>3, <1>4, <1>7, <1>12, Zenon DEF Locations!Next
<1> QED
  BY <1>13

\* What a commit leaves in the table.
LEMMA CommitIsWhole ==
    ASSUME ImportInv, NEW r \in Admins, Locations!Commit(r), NEW q, q = import[r]
    PROVE  IF q.skipped THEN table' = table
           ELSE /\ \A k \in Locations!Codes(q.file) \ q.overtaken :
                      table'[k] = Locations!LastOf(q.file, k).says
                /\ \A k \in Locations!Parents(q.file) \cap LocationKeys :
                      table'[k] # Locations!Absent
                /\ q.file.dataset = "airports" =>
                     {k \in AirportKeys : table'[k] # Locations!Absent}
                       \subseteq Locations!Codes(q.file) \cup q.late
<1>1. q \in Running /\ Fit(q, table) /\ q.at = "commit"
  BY Kinds DEF ImportInv, Locations!Commit, Locations!At, Busyness
<1>2. table' = Locations!Over(q.mine, table)
  BY DEF Locations!Commit
<1>3. table' \in [LocationKeys -> Values] /\ IsOver(table', q.mine, table)
  BY <1>1, <1>2, Committed
<1>4. table \in [LocationKeys -> Values]
  BY DEF ImportInv
<1>5. CASE q.skipped
  <2>1. DOMAIN q.mine = {}
    BY <1>1, <1>5, PartialFacts DEF Fit
  <2>2. \A k \in LocationKeys : table'[k] = table[k]
    BY <1>3, <1>4, <2>1 DEF IsOver
  <2> QED
    BY <1>3, <1>4, <1>5, <2>2
<1>6. CASE ~q.skipped
  <2>1. ~q.aborted /\ q.file \in ImportFiles /\ q.n \in Nat \ {0}
    BY <1>1, <1>6 DEF Fit, Running
  <2>2. q.n - 1 = Len(q.file.rows) /\ DOMAIN q.file.rows = 1..Len(q.file.rows)
    <3>1. Len(q.file.rows) \in Nat /\ DOMAIN q.file.rows = 1..Len(q.file.rows)
      BY <2>1, FileFacts
    <3>2. q.n > Len(q.file.rows) /\ q.n <= Len(q.file.rows) + 1
      BY <1>1, <2>1 DEF Fit
    <3>3. PICK n \in Nat, len \in Nat : n = q.n /\ len = Len(q.file.rows)
      BY <2>1, <3>1
    <3>4. n - 1 = len
      BY <3>2, <3>3
    <3> QED
      BY <3>1, <3>3, <3>4
  <2>3. PICK rows : rows = q.file.rows
    OBVIOUS
  <2>4. PICK len \in Nat : len = Len(q.file.rows)
    BY <2>1, FileFacts
  <2>5. ASSUME NEW k \in Locations!Codes(q.file) \ q.overtaken
        PROVE  table'[k] = Locations!LastOf(q.file, k).says
    <3>1. PICK m \in 1..len : rows[m].code = k
      BY <2>2, <2>3, <2>4 DEF Locations!Codes
    <3>2. LastSays(q, table, m) /\ q.n - 1 = len
      <4>1. RowsSaved(q, table) /\ q.stmt = {} /\ q.n - 1 = len
        BY <1>1, <2>1, <2>2, <2>4 DEF Fit, StmtFits
      <4>2. m \in 1..(q.n - 1)
        BY <4>1
      <4> QED
        BY <2>3, <3>1, <4>1, <4>2 DEF RowsSaved, Unsure
    <3>3. PICK j \in m..len : /\ rows[j].code = k /\ Seen(q, table, k) = rows[j].says
                              /\ \A i \in 1..len : rows[i].code = k => i <= j
      BY <2>3, <3>1, <3>2 DEF LastSays
    <3>4. j \in 1..len
      BY <3>3
    <3>5. \A n \in 1..len :
             (rows[n].code = k /\ \A i \in 1..len : rows[i].code = k => i <= n) => n = j
      BY <3>3, <3>4
    <3>6. (CHOOSE n \in 1..len : rows[n].code = k /\ \A i \in 1..len : rows[i].code = k => i <= n) = j
      BY <3>3, <3>4, <3>5
    <3>7. Locations!LastOf(q.file, k) = rows[j]
      BY <2>2, <2>3, <2>4, <3>6 DEF Locations!LastOf
    <3>8. k \in LocationKeys
      BY <2>1, FileFacts
    <3>9. table'[k] = Seen(q, table, k)
      BY <1>3, <1>4, <3>8 DEF IsOver, Seen
    <3> QED
      BY <3>3, <3>7, <3>9
  <2>6. ASSUME NEW k \in Locations!Parents(q.file) \cap LocationKeys
        PROVE  table'[k] # Locations!Absent
    <3>1. k \in q.cache \ {"none"}
      <4>1. PICK m \in 1..len : rows[m].parent = k
        BY <2>2, <2>3, <2>4 DEF Locations!Parents
      <4>2. rows[m].parent \in q.cache
        BY <1>1, <2>1, <2>2, <2>3, <2>4 DEF Fit
      <4> QED
        BY <4>1, <4>2, PartsAssumption
    <3>2. Seen(q, table, k) # Locations!Absent
      BY <1>1, <2>1, <3>1 DEF Fit
    <3> QED
      BY <1>3, <1>4, <3>2 DEF Seen, IsOver
  <2>7. ASSUME q.file.dataset = "airports", NEW k \in AirportKeys,
               table'[k] # Locations!Absent, k \notin Locations!Codes(q.file) \cup q.late
        PROVE  FALSE
    <3>1. k \notin Locations!Parents(q.file)
      BY <2>1, FileFacts
    <3>2. k \in DOMAIN q.mine => k \in q.gone
      BY <1>1, <2>7, <3>1 DEF Fit
    <3>3. k \in q.gone => k \in DOMAIN q.mine /\ q.mine[k] = Locations!Absent
      BY <1>1 DEF Fit
    <3>4. table[k] # Locations!Absent => k \in q.gone
      BY <1>1, <2>7 DEF Fit
    <3>5. k \in LocationKeys
      BY PartsAssumption
    <3>6. k \in DOMAIN q.mine => table'[k] = q.mine[k]
      BY <1>3 DEF IsOver
    <3>7. k \notin DOMAIN q.mine => table'[k] = table[k]
      BY <1>3, <1>4, <3>5 DEF IsOver
    <3> QED
      BY <2>7, <3>2, <3>3, <3>4, <3>6, <3>7
  <2> QED
    BY <1>6, <2>5, <2>6, <2>7
<1> QED
  BY <1>5, <1>6

\* A commit stores nothing of its file, or what the last row of each code says
\* unless another transaction wrote or deleted that code since the row's SELECT,
\* with what the rows depend on and no airport it found stale; and an import
\* nobody disturbs, of a file whose rows the database takes, saves every row.
THEOREM ImportsStayWhole == PartsSpec => ImportIsWhole
<1>1. PartsInit => ImportInv
  <2> SUFFICES ASSUME PartsInit PROVE ImportInv
    OBVIOUS
  <2>1. import = [r \in Admins |-> Locations!Idle]
    BY DEF PartsInit, Locations!Init
  <2>2. table \in [LocationKeys -> Values]
    <3>1. PICK there \in KeysAtStart : table = [k \in LocationKeys |->
             IF k \in there THEN Locations!Other ELSE Locations!Absent]
      BY DEF PartsInit, Locations!Init
    <3>2. {Locations!Other, Locations!Absent} \subseteq Values
      BY DEF Values, Locations!Other, Locations!Absent
    <3> QED
      BY <3>1, <3>2
  <2>3. Locations!Idle \notin Running \cup Ended /\ Locations!Idle.at = "idle"
    BY DEF Locations!Idle, Running, Ended, Busyness
  <2> QED
    BY <2>1, <2>2, <2>3 DEF ImportInv, Locations!Busy, Locations!At
<1>2. ImportInv /\ [PartsNext]_allVars => ImportInv'
  <2>1. ASSUME ImportInv, UNCHANGED importVars PROVE ImportInv'
    BY <2>1 DEF ImportInv, importVars, Locations!Busy, Locations!At
  <2>2. ASSUME ImportInv, PartsNext PROVE ImportInv'
    BY <2>1, <2>2, ImportHolds DEF PartsNext
  <2> QED
    BY <2>1, <2>2 DEF allVars
<1>3. ImportInv =>
        (part = "locations" => Locations!TypeOK /\ Locations!SavesEveryRow)
  <2> SUFFICES ASSUME ImportInv PROVE Locations!TypeOK /\ Locations!SavesEveryRow
    OBVIOUS
  <2>1. Locations!TypeOK
    BY Kinds DEF ImportInv, Locations!TypeOK, Values, Busyness
  <2>2. ASSUME NEW r \in Admins, import[r].at \in {"answered", "failed"}, import[r].alone,
               \A n \in DOMAIN import[r].file.rows : ~import[r].file.rows[n].bad
        PROVE  import[r].at = "answered" /\ ~import[r].skipped
    BY <2>2, Kinds DEF ImportInv, Clean, NoBad
  <2> QED
    BY <2>1, <2>2 DEF Locations!SavesEveryRow
<1>4. ImportInv /\ [PartsNext]_allVars =>
        [\A r \in Admins :
           LET q == import[r] IN
           (Locations!At(r, "commit") /\ import'[r].at \in {"purge", "answered"}) =>
              IF q.skipped THEN table' = table
              ELSE /\ \A k \in Locations!Codes(q.file) \ q.overtaken :
                         table'[k] = Locations!LastOf(q.file, k).says
                   /\ \A k \in Locations!Parents(q.file) \cap LocationKeys :
                         table'[k] # Locations!Absent
                   /\ q.file.dataset = "airports" =>
                        {k \in AirportKeys : table'[k] # Locations!Absent}
                          \subseteq Locations!Codes(q.file) \cup q.late]_Locations!vars
  <2> SUFFICES ASSUME ImportInv, [PartsNext]_allVars, ~UNCHANGED Locations!vars,
                      NEW r \in Admins, import[r].at = "commit",
                      import'[r].at \in {"purge", "answered"}, NEW q, q = import[r]
               PROVE  IF q.skipped THEN table' = table
                      ELSE /\ \A k \in Locations!Codes(q.file) \ q.overtaken :
                                 table'[k] = Locations!LastOf(q.file, k).says
                           /\ \A k \in Locations!Parents(q.file) \cap LocationKeys :
                                 table'[k] # Locations!Absent
                           /\ q.file.dataset = "airports" =>
                                {k \in AirportKeys : table'[k] # Locations!Absent}
                                  \subseteq Locations!Codes(q.file) \cup q.late
    BY DEF Locations!At
  <2>1. ~UNCHANGED importVars
    BY DEF importVars, Locations!vars
  <2>2. Locations!Next
    BY <2>1 DEF PartsNext, allVars
  <2>3. Locations!Commit(r)
    BY <2>2, CommitOnly
  <2> QED
    BY <2>3, CommitIsWhole
<1> QED
  BY <1>1, <1>2, <1>3, <1>4, PTL DEF PartsSpec, ImportIsWhole, Locations!ImportIsWhole

===============================================================================
