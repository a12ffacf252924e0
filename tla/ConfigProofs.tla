------------------------------ MODULE ConfigProofs ------------------------------
(***************************************************************************)
(* Proofs about Config, for any number of consoles, providers, routes, key *)
(* profiles, renewals, faults and restarts: first the row of the key in    *)
(* the database, then the tables of providers and routes.                  *)
(***************************************************************************)
EXTENDS Config, ListFacts, FiniteSetTheorems, TLAPS

\* What tells a key from no key.
Fields == {"route", "backups", "active", "profiles", "current"}
Shaped(k) == k = NoKey \/ DOMAIN k = Fields

\* The keys in memory, on disk and on their way there are keys.
Shapes ==
    /\ Shaped(key)
    /\ "key" \in DOMAIN disk /\ Shaped(disk.key)
    /\ DOMAIN job = Writer
    /\ \A w \in Writer : "at" \in DOMAIN job[w]
                         /\ (job[w].at = "row" => Shaped(job[w].row))

\* A row on its way is the key, but for what DeleteProvider has cleaned since, and it
\* finds the row it updates unless an earlier write of the key was refused.
RowCarriesKey ==
    \A w \in Writer : job[w].at = "row" =>
        /\ (job[w].row = NoKey) = (key = NoKey)
        /\ "cleaned" \notin unwritten => job[w].row = key
        /\ ~job[w].create /\ key # NoKey /\ "key" \notin unwritten => disk.key # NoKey

\* Only one is on its way.
OneRow == \A v, w \in Writer : job[v].at = "row" /\ job[w].at = "row" => v = w

\* With none on its way, the database holds the key, but for what was cleaned.
RowHeld ==
    ~RowPending /\ "key" \notin unwritten =>
        /\ (disk.key = NoKey) = (key = NoKey)
        /\ "cleaned" \notin unwritten => disk.key = key

\* The invariant: while no two changes of the key have overlapped.
Rows == Shapes /\ ("key" \notin overlap => OneRow /\ RowCarriesKey /\ RowHeld)

-----------------------------------------------------------------------------
\* A key is not the lack of one.
LEMMA KeyIsNotNone == ASSUME NEW k, DOMAIN k = Fields PROVE k # NoKey
<1>1. DOMAIN NoKey = {"gone"}  BY DEF NoKey
<1>2. DOMAIN k # {"gone"}  BY DEF Fields
<1> QED  BY <1>1, <1>2

\* A database with no job on its way satisfies the invariant at first.
LEMMA RowsInit == Init => Rows
<1> SUFFICES ASSUME Init PROVE Rows
  OBVIOUS
<1>1. Shaped(key)
  BY DEF Init, Shaped, Created, Fields
<1>2. disk.key = key /\ "key" \in DOMAIN disk
  BY DEF Init
<1>3. DOMAIN job = Writer /\ \A w \in Writer : job[w] = Idle
  BY DEF Init
<1>4. \A w \in Writer : job[w].at = "idle" /\ "at" \in DOMAIN job[w]
  BY <1>3 DEF Idle
<1> QED  BY <1>1, <1>2, <1>3, <1>4
         DEF Rows, Shapes, OneRow, RowCarriesKey, RowHeld, RowPending

\* A snapshot that shows what was overwritten is still the snapshot of its writer.
LEMMA SeenKeepsPlace ==
    ASSUME NEW j, "at" \in DOMAIN j, NEW ps, NEW rs, NEW moved
    PROVE  /\ "at" \in DOMAIN Seen(j, ps, rs, moved)
           /\ Seen(j, ps, rs, moved).at = j.at
           /\ j.at = "row" => Seen(j, ps, rs, moved) = j
<1>1. CASE j.at # "write"  BY <1>1 DEF Seen
<1>2. CASE j.at = "write"
  <2>1. DOMAIN Seen(j, ps, rs, moved) = DOMAIN j
    BY <1>2 DEF Seen
  <2>2. Seen(j, ps, rs, moved).at = j.at
    BY <1>2 DEF Seen
  <2> QED  BY <1>2, <2>1, <2>2
<1> QED  BY <1>1, <1>2

\* The jobs of a step that starts or ends none of the key's rows.
RowsAlone ==
    /\ DOMAIN job' = Writer
    /\ \A w \in Writer : /\ "at" \in DOMAIN job'[w]
                         /\ (job'[w].at = "row") = (job[w].at = "row")
                         /\ job[w].at = "row" => job'[w] = job[w]
    /\ "key" \in overlap' <=> "key" \in overlap

\* A step that leaves rows, key and database's key alone, and never forgets a refusal.
LEMMA AloneStep ==
    ASSUME Rows, RowsAlone, "key" \in DOMAIN disk', disk'.key = disk.key, key' = key,
           "key" \in unwritten => "key" \in unwritten',
           "cleaned" \in unwritten => "cleaned" \in unwritten'
    PROVE  Rows'
<1>1. Shapes'  BY DEF Rows, Shapes, RowsAlone
<1>2. RowPending' = RowPending  BY DEF RowPending, RowsAlone
<1>3. ASSUME "key" \notin overlap' PROVE (OneRow /\ RowCarriesKey /\ RowHeld)'
  <2>1. OneRow /\ RowCarriesKey /\ RowHeld  BY <1>3 DEF Rows, RowsAlone
  <2>2. OneRow'  BY <2>1 DEF OneRow, RowsAlone
  <2>3. RowCarriesKey'  BY <2>1 DEF RowCarriesKey, RowsAlone
  <2>4. RowHeld'  BY <1>2, <2>1 DEF RowHeld
  <2> QED  BY <2>2, <2>3, <2>4
<1> QED  BY <1>1, <1>3 DEF Rows

\* A writer with no row moves on to something that is no row.
LEMMA OtherJob ==
    ASSUME Rows, NEW w \in Writer, job[w].at # "row",
           NEW next, "at" \in DOMAIN next, next.at # "row",
           \/ job' = [job EXCEPT ![w] = next] /\ UNCHANGED overlap
           \/ \E ps, rs, moved : Rewrite(w, next, ps, rs, moved)
    PROVE  RowsAlone
<1>1. DOMAIN job = Writer /\ \A x \in Writer : "at" \in DOMAIN job[x]
  BY DEF Rows, Shapes
<1>2. CASE job' = [job EXCEPT ![w] = next] /\ UNCHANGED overlap
  BY <1>1, <1>2 DEF RowsAlone
<1>3. ASSUME NEW ps, NEW rs, NEW moved, Rewrite(w, next, ps, rs, moved)
      PROVE  RowsAlone
  <2>1. job' = [x \in Writer |-> IF x = w THEN next ELSE Seen(job[x], ps, rs, moved)]
    BY <1>3 DEF Rewrite
  <2>2. \A x \in Writer : /\ "at" \in DOMAIN Seen(job[x], ps, rs, moved)
                          /\ Seen(job[x], ps, rs, moved).at = job[x].at
                          /\ job[x].at = "row" => Seen(job[x], ps, rs, moved) = job[x]
    BY <1>1, SeenKeepsPlace
  <2>3. DOMAIN job' = Writer  BY <2>1
  <2>4. ASSUME NEW x \in Writer
        PROVE  /\ "at" \in DOMAIN job'[x]
               /\ (job'[x].at = "row") = (job[x].at = "row")
               /\ job[x].at = "row" => job'[x] = job[x]
    <3>1. CASE x = w  BY <2>1, <3>1
    <3>2. CASE x # w
      <4>1. job'[x] = Seen(job[x], ps, rs, moved)  BY <2>1, <3>2
      <4> QED  BY <2>2, <4>1
    <3> QED  BY <3>1, <3>2
  <2>5. "key" \in overlap' <=> "key" \in overlap  BY <1>3 DEF Rewrite
  <2> QED  BY <2>3, <2>4, <2>5 DEF RowsAlone
<1> QED  BY <1>2, <1>3

\* DeleteProvider cleans the key in memory and owes nobody its row.
LEMMA CleanStep ==
    ASSUME Rows, RowsAlone, NEW p, NEW removed, key # NoKey,
           key' = Forgotten(key, p, removed), "cleaned" \in unwritten',
           "key" \in unwritten => "key" \in unwritten',
           UNCHANGED disk
    PROVE  Rows'
<1>1. DOMAIN key = Fields  BY DEF Rows, Shapes, Shaped
<1>2. DOMAIN key' = Fields  BY <1>1 DEF Forgotten
<1>3. key' # NoKey  BY <1>2, KeyIsNotNone
<1>4. Shapes'  BY <1>2 DEF Rows, Shapes, Shaped, RowsAlone
<1>5. RowPending' = RowPending  BY DEF RowPending, RowsAlone
<1>6. ASSUME "key" \notin overlap' PROVE (OneRow /\ RowCarriesKey /\ RowHeld)'
  <2>1. OneRow /\ RowCarriesKey /\ RowHeld  BY <1>6 DEF Rows, RowsAlone
  <2>2. OneRow'  BY <2>1 DEF OneRow, RowsAlone
  <2>3. RowCarriesKey'  BY <1>3, <2>1 DEF RowCarriesKey, RowsAlone
  <2>4. RowHeld'  BY <1>3, <1>5, <2>1 DEF RowHeld
  <2> QED  BY <2>2, <2>3, <2>4
<1> QED  BY <1>4, <1>6 DEF Rows

\* A change of the key: a row is on its way, the only one unless two changes overlap.
LEMMA SetStep ==
    ASSUME Rows, NEW w \in Writer, NEW k, Shaped(k), NEW new \in BOOLEAN,
           new => key = NoKey, ~new => key # NoKey, SetKey(w, k, new)
    PROVE  Rows'
<1>1. DOMAIN job = Writer /\ \A x \in Writer : "at" \in DOMAIN job[x]
  BY DEF Rows, Shapes
<1>2. job'[w] = [at |-> "row", row |-> k, create |-> new] /\ DOMAIN job' = Writer
      /\ \A x \in Writer : x # w => job'[x] = job[x]
  BY <1>1 DEF SetKey, ToRow
<1>3. job'[w].at = "row" /\ job'[w].row = k /\ job'[w].create = new
      /\ "at" \in DOMAIN job'[w]
  BY <1>2
<1>4. Shapes'
  BY <1>1, <1>2, <1>3 DEF Rows, Shapes, SetKey
<1>5. ASSUME "key" \notin overlap' PROVE (OneRow /\ RowCarriesKey /\ RowHeld)'
  <2>1. OneRow /\ RowCarriesKey /\ RowHeld /\ ~RowPending
    BY <1>5 DEF Rows, SetKey
  <2>2. \A x \in Writer : job'[x].at = "row" => x = w
    BY <1>2, <2>1 DEF RowPending
  <2>3. OneRow'  BY <2>2 DEF OneRow
  <2>4. RowCarriesKey'
    <3>1. key' = k /\ disk' = disk /\ ("key" \in unwritten' <=> "key" \in unwritten)
      BY DEF SetKey
    <3>2. ~new /\ "key" \notin unwritten => disk.key # NoKey
      BY <2>1 DEF RowHeld
    <3> QED  BY <1>3, <2>2, <3>1, <3>2 DEF RowCarriesKey
  <2>5. RowHeld'  BY <1>3 DEF RowHeld, RowPending
  <2> QED  BY <2>3, <2>4, <2>5
<1> QED  BY <1>4, <1>5 DEF Rows

\* The row reaches its table.
LEMMA WriteRowStep ==
    ASSUME Rows, NEW w \in Writer, WriteRow(w)
    PROVE  Rows'
<1>1. DOMAIN job = Writer /\ \A x \in Writer : "at" \in DOMAIN job[x]
  BY DEF Rows, Shapes
<1>2. job[w].at = "row" /\ job'[w] = Idle /\ DOMAIN job' = Writer
      /\ \A x \in Writer : x # w => job'[x] = job[x]
  BY <1>1 DEF WriteRow
<1>3. job'[w].at = "idle" /\ "at" \in DOMAIN job'[w]  BY <1>2 DEF Idle
<1> DEFINE stored == job[w].create \/ job[w].row = NoKey \/ disk.key # NoKey
<1>4. /\ stored => disk'.key = job[w].row /\ "key" \notin unwritten'
      /\ ~stored => disk' = disk /\ unwritten' = unwritten
      /\ "key" \in DOMAIN disk'
      /\ ("cleaned" \in unwritten' <=> "cleaned" \in unwritten)
      /\ key' = key /\ overlap' = overlap
  BY DEF WriteRow, Rows, Shapes
<1>5. Shapes'
  BY <1>1, <1>2, <1>3, <1>4 DEF Rows, Shapes
<1>6. ASSUME "key" \notin overlap' PROVE (OneRow /\ RowCarriesKey /\ RowHeld)'
  <2>1. OneRow /\ RowCarriesKey  BY <1>4, <1>6 DEF Rows
  <2>2. \A x \in Writer : job'[x].at # "row"
    BY <1>2, <1>3, <2>1 DEF OneRow
  <2>3. OneRow' /\ RowCarriesKey'  BY <2>2 DEF OneRow, RowCarriesKey
  <2>4. (job[w].row = NoKey) = (key = NoKey)
        /\ ("cleaned" \notin unwritten => job[w].row = key)
    BY <1>2, <2>1 DEF RowCarriesKey
  <2>5. ~stored => "key" \in unwritten
    BY <1>2, <2>1 DEF RowCarriesKey
  <2>6. RowHeld'  BY <1>4, <2>4, <2>5 DEF RowHeld
  <2> QED  BY <2>3, <2>6
<1> QED  BY <1>5, <1>6 DEF Rows

\* The database refuses the row.
LEMMA WriteRowFailsStep ==
    ASSUME Rows, NEW w \in Writer, WriteRowFails(w)
    PROVE  Rows'
<1>1. DOMAIN job = Writer /\ \A x \in Writer : "at" \in DOMAIN job[x]
  BY DEF Rows, Shapes
<1>2. job[w].at = "row" /\ job'[w] = Idle /\ DOMAIN job' = Writer
      /\ \A x \in Writer : x # w => job'[x] = job[x]
  BY <1>1 DEF WriteRowFails
<1>3. job'[w].at = "idle" /\ "at" \in DOMAIN job'[w]  BY <1>2 DEF Idle
<1>4. "key" \in unwritten' /\ UNCHANGED <<key, disk, overlap>>
  BY DEF WriteRowFails
<1>5. Shapes'  BY <1>1, <1>2, <1>3, <1>4 DEF Rows, Shapes
<1>6. ASSUME "key" \notin overlap' PROVE (OneRow /\ RowCarriesKey /\ RowHeld)'
  <2>1. OneRow  BY <1>4, <1>6 DEF Rows
  <2>2. \A x \in Writer : job'[x].at # "row"
    BY <1>2, <1>3, <2>1 DEF OneRow
  <2> QED  BY <1>4, <2>2 DEF OneRow, RowCarriesKey, RowHeld
<1> QED  BY <1>5, <1>6 DEF Rows

\* Load takes the row for the key.
LEMMA RestartStep == ASSUME Rows, Restart PROVE Rows'
<1>1. DOMAIN job' = Writer /\ \A w \in Writer : job'[w] = Idle  BY DEF Restart
<1>2. \A w \in Writer : job'[w].at = "idle" /\ "at" \in DOMAIN job'[w]
  BY <1>1 DEF Idle
<1>3. disk' = disk /\ key' = disk.key  BY DEF Restart
<1>4. Shapes'  BY <1>1, <1>2, <1>3 DEF Rows, Shapes
<1>5. (OneRow /\ RowCarriesKey /\ RowHeld)'
  BY <1>2, <1>3 DEF OneRow, RowCarriesKey, RowHeld
<1> QED  BY <1>4, <1>5 DEF Rows

-----------------------------------------------------------------------------
\* The console's operations on providers and routes, and the saves, owe no row of the key.
LEMMA ConfigurationStep ==
    ASSUME Rows, NEW c \in Console,
           \/ AddProvider(c) \/ EditProvider(c) \/ RestoreProvider(c)
           \/ LookAtPurged(c) \/ PurgeProvider(c)
           \/ AddRoute(c) \/ UpdateRoute(c) \/ DeleteRoute(c)
           \/ Snapshot(c) \/ Save(c) \/ SaveFails(c) \/ PurgeFails(c)
    PROVE  Rows'
<1>0. c \in Writer  BY DEF Writer
<1>1. /\ "at" \in DOMAIN Idle /\ Idle.at = "idle"
      /\ "at" \in DOMAIN ToSave /\ ToSave.at = "save"
  BY DEF Idle, ToSave
<1>2. "key" \in DOMAIN disk  BY DEF Rows, Shapes
<1>a. ASSUME UNCHANGED <<key, disk>>, RowsAlone, unwritten \subseteq unwritten'
      PROVE  Rows'
  BY <1>2, <1>a, AloneStep
<1>3. CASE AddProvider(c)
  <2>1. job[c] = Idle  BY <1>3 DEF AddProvider, Ask
  <2>2. \E ps, rs, moved : Rewrite(c, ToSave, ps, rs, moved)  BY <1>3 DEF AddProvider
  <2>3. RowsAlone  BY <1>0, <1>1, <2>1, <2>2, OtherJob
  <2> QED  BY <1>3, <1>a, <2>3 DEF AddProvider
<1>4. CASE EditProvider(c)
  <2>1. job[c] = Idle  BY <1>4 DEF EditProvider, Ask
  <2>2. \E ps, rs, moved : Rewrite(c, ToSave, ps, rs, moved)  BY <1>4 DEF EditProvider
  <2>3. RowsAlone  BY <1>0, <1>1, <2>1, <2>2, OtherJob
  <2> QED  BY <1>4, <1>a, <2>3 DEF EditProvider
<1>5. CASE RestoreProvider(c)
  <2>1. job[c] = Idle  BY <1>5 DEF RestoreProvider, Ask
  <2>2. \E ps, rs, moved : Rewrite(c, ToSave, ps, rs, moved)  BY <1>5 DEF RestoreProvider
  <2>3. RowsAlone  BY <1>0, <1>1, <2>1, <2>2, OtherJob
  <2> QED  BY <1>5, <1>a, <2>3 DEF RestoreProvider
<1>b. ASSUME NEW next, "at" \in DOMAIN next, next.at # "row", job[c].at # "row",
             \/ job' = [job EXCEPT ![c] = next] /\ UNCHANGED overlap
             \/ \E ps, rs, moved : Rewrite(c, next, ps, rs, moved)
      PROVE  RowsAlone
  BY <1>0, <1>b, OtherJob
<1>6. CASE LookAtPurged(c)
  <2>1. job[c].at # "row"  BY <1>1, <1>6 DEF LookAtPurged, Ask
  <2>2. PICK copy : job' = [job EXCEPT ![c] = [at |-> "purge", copy |-> copy]]
    BY <1>6 DEF LookAtPurged
  <2> DEFINE next == [at |-> "purge", copy |-> copy]
  <2>3. "at" \in DOMAIN next /\ next.at = "purge"  OBVIOUS
  <2>4. job' = [job EXCEPT ![c] = next] /\ UNCHANGED overlap  BY <1>6, <2>2 DEF LookAtPurged
  <2> HIDE DEF next
  <2>5. RowsAlone  BY <1>b, <2>1, <2>3, <2>4
  <2> QED  BY <1>6, <1>a, <2>5 DEF LookAtPurged
<1>14. CASE PurgeProvider(c)
  <2>1. job[c].at = "purge"  BY <1>14 DEF PurgeProvider
  <2>2. CASE job' = [job EXCEPT ![c] = Idle] /\ UNCHANGED overlap
    <3>1. RowsAlone  BY <1>1, <1>b, <2>1, <2>2
    <3> QED  BY <1>14, <1>a, <3>1 DEF PurgeProvider
  <2>3. ASSUME NEW row, NEW ps,
               Rewrite(c, [ToSave EXCEPT !.taken = <<row>>, !.back = <<job[c].copy>>],
                       ps, routes, {})
        PROVE  Rows'
    <3> DEFINE next == [ToSave EXCEPT !.taken = <<row>>, !.back = <<job[c].copy>>]
    <3>1. "at" \in DOMAIN next /\ next.at = "save"  BY DEF ToSave
    <3>2. Rewrite(c, next, ps, routes, {})  BY <2>3
    <3> HIDE DEF next
    <3>3. RowsAlone  BY <1>b, <2>1, <3>1, <3>2
    <3> QED  BY <1>14, <1>a, <3>3 DEF PurgeProvider
  <2> QED  BY <1>14, <2>2, <2>3 DEF PurgeProvider
<1>7. CASE AddRoute(c)
  <2>1. job[c] = Idle  BY <1>7 DEF AddRoute, Ask
  <2>2. \E ps, rs, moved : Rewrite(c, ToSave, ps, rs, moved)  BY <1>7 DEF AddRoute
  <2>3. RowsAlone  BY <1>0, <1>1, <2>1, <2>2, OtherJob
  <2> QED  BY <1>7, <1>a, <2>3 DEF AddRoute
<1>8. CASE UpdateRoute(c)
  <2>1. job[c] = Idle  BY <1>8 DEF UpdateRoute, Ask
  <2>2. \E ps, rs, moved : Rewrite(c, ToSave, ps, rs, moved)  BY <1>8 DEF UpdateRoute
  <2>3. RowsAlone  BY <1>0, <1>1, <2>1, <2>2, OtherJob
  <2> QED  BY <1>8, <1>a, <2>3 DEF UpdateRoute
<1>9. CASE DeleteRoute(c)
  <2>1. job[c] = Idle  BY <1>9 DEF DeleteRoute, Ask
  <2>2. \E ps, rs, moved : Rewrite(c, ToSave, ps, rs, moved)  BY <1>9 DEF DeleteRoute
  <2>3. RowsAlone  BY <1>0, <1>1, <2>1, <2>2, OtherJob
  <2> QED  BY <1>9, <1>a, <2>3 DEF DeleteRoute
<1>10. CASE Snapshot(c)
  <2> DEFINE next == [at |-> "write", taken |-> job[c].taken, back |-> job[c].back,
                      providers |-> providers, routes |-> routes,
                      shares |-> {"providers", "routes"}]
  <2>1. "at" \in DOMAIN next /\ next.at = "write"  OBVIOUS
  <2>2. job[c].at = "save" /\ job' = [job EXCEPT ![c] = next] /\ UNCHANGED overlap  BY <1>10 DEF Snapshot
  <2> HIDE DEF next
  <2>3. RowsAlone  BY <1>0, <2>1, <2>2, OtherJob
  <2> QED  BY <1>10, <1>a, <2>3 DEF Snapshot
<1>11. CASE Save(c)
  <2>1. job[c].at = "write" /\ job' = [job EXCEPT ![c] = Idle] /\ UNCHANGED overlap
    BY <1>11 DEF Save
  <2>2. RowsAlone  BY <1>0, <1>1, <2>1, OtherJob
  <2>3. /\ "key" \in DOMAIN disk' /\ disk'.key = disk.key
        /\ "key" \in unwritten => "key" \in unwritten'
        /\ "cleaned" \in unwritten => "cleaned" \in unwritten'
    BY <1>2, <1>11 DEF Save
  <2> QED  BY <1>11, <2>2, <2>3, AloneStep DEF Save
<1>12. CASE SaveFails(c)
  <2>1. job[c].at = "write" /\ job' = [job EXCEPT ![c] = Idle] /\ UNCHANGED overlap
    BY <1>12 DEF SaveFails
  <2>2. RowsAlone  BY <1>0, <1>1, <2>1, OtherJob
  <2> QED  BY <1>12, <1>a, <2>2 DEF SaveFails
<1>13. CASE PurgeFails(c)
  <2>1. job[c].at = "write"  BY <1>13 DEF PurgeFails
  <2>2. \/ job' = [job EXCEPT ![c] = Idle] /\ UNCHANGED overlap
        \/ \E ps, rs, moved : Rewrite(c, Idle, ps, rs, moved)
    BY <1>13 DEF PurgeFails
  <2>3. RowsAlone  BY <1>0, <1>1, <2>1, <2>2, OtherJob
  <2> QED  BY <1>13, <1>a, <2>3 DEF PurgeFails
<1> QED  BY <1>3, <1>4, <1>5, <1>6, <1>7, <1>8, <1>9, <1>10, <1>11, <1>12, <1>13, <1>14

\* A provider's delete may clean the key on its way.
LEMMA DeleteProviderStep ==
    ASSUME Rows, NEW c \in Console, DeleteProvider(c) PROVE Rows'
<1>0. c \in Writer  BY DEF Writer
<1>1. /\ "at" \in DOMAIN Idle /\ Idle.at = "idle"
      /\ "at" \in DOMAIN ToSave /\ ToSave.at = "save"
  BY DEF Idle, ToSave
<1>2. PICK p \in Provider :
        LET removed == {r \in Ids(routes) : ProviderOf(routes, r) = p}
            kept == Kept(routes, {row \in ToSet(routes) : row.provider # p})
            cleaned == IF key = NoKey THEN key ELSE Forgotten(key, p, removed)
            marked == [i \in DOMAIN providers |->
                         IF providers[i].id = p
                           THEN [providers[i] EXCEPT !.deleted = TRUE]
                           ELSE providers[i]]
        IN  /\ key' = cleaned
            /\ Rewrite(c, IF Live(p) THEN ToSave ELSE Idle, marked, kept, {})
            /\ unwritten' = IF cleaned = key THEN unwritten ELSE unwritten \cup {"cleaned"}
  BY DEF DeleteProvider
<1>3. job[c] = Idle /\ UNCHANGED disk  BY DEF DeleteProvider, Ask
<1> DEFINE next == IF Live(p) THEN ToSave ELSE Idle
<1>4. "at" \in DOMAIN next /\ next.at # "row"  BY <1>1
<1>5. \E ps, rs, moved : Rewrite(c, next, ps, rs, moved)  BY <1>2
<1> HIDE DEF next
<1>6. RowsAlone  BY <1>0, <1>1, <1>3, <1>4, <1>5, OtherJob
<1>7. CASE key' = key
  <2>1. unwritten \subseteq unwritten'  BY <1>2
  <2>2. "key" \in DOMAIN disk'  BY <1>3 DEF Rows, Shapes
  <2> QED  BY <1>3, <1>6, <1>7, <2>1, <2>2, AloneStep
<1>8. CASE key' # key
  <2>1. key # NoKey /\ unwritten' = unwritten \cup {"cleaned"}  BY <1>2, <1>8
  <2>2. key' = Forgotten(key, p, {r \in Ids(routes) : ProviderOf(routes, r) = p})
    BY <1>2, <2>1
  <2> QED  BY <1>3, <1>6, <2>1, <2>2, CleanStep
<1> QED  BY <1>7, <1>8

\* Every operation makes a key of a key.
LEMMA OperationsShape ==
    ASSUME NEW k, DOMAIN k = Fields
    PROVE  /\ \A routing : DOMAIN Created(routing) = Fields
           /\ \A rs, routing : DOMAIN Patched(rs, k, routing) = Fields
           /\ \A rs, i : DOMAIN Activated(rs, k, i) = Fields
           /\ \A active : DOMAIN [k EXCEPT !.active = active] = Fields
           /\ \A list : DOMAIN [k EXCEPT !.profiles = list] = Fields
           /\ \A list, id : DOMAIN [k EXCEPT !.profiles = list, !.current = id] = Fields
           /\ DOMAIN [k EXCEPT !.current = None] = Fields
<1>1. \A routing : DOMAIN Created(routing) = Fields  BY DEF Created, Fields
<1>2. \A rs, routing : DOMAIN Patched(rs, k, routing) = Fields  BY DEF Patched
<1>3. \A rs, i : DOMAIN Activated(rs, k, i) = Fields  BY DEF Activated
<1> QED  BY <1>1, <1>2, <1>3

\* The console's and the traffic's changes of the key owe the row they changed.
LEMMA KeyStep ==
    ASSUME Rows,
           \/ SetActiveProvider
           \/ \E c \in Console :
                 \/ CreateAPIKey(c) \/ UpdateAPIKey(c) \/ DeleteAPIKey(c)
                 \/ AddKeyProfile(c) \/ UpdateKeyProfile(c) \/ DeleteKeyProfile(c)
                 \/ SwitchKeyProfile(c)
    PROVE  Rows'
<1>0. Shaped(key)  BY DEF Rows, Shapes
<1>a. ASSUME NEW w \in Writer, NEW k, key # NoKey, k = NoKey \/ DOMAIN k = Fields,
             SetKey(w, k, FALSE)
      PROVE  Rows'
  BY <1>a, SetStep DEF Shaped
<1>1. CASE SetActiveProvider
  <2>1. "traffic" \in Writer /\ key # NoKey  BY <1>1 DEF Writer, SetActiveProvider
  <2>2. DOMAIN key = Fields  BY <1>0, <2>1 DEF Shaped
  <2>3. \E active : SetKey("traffic", [key EXCEPT !.active = active], FALSE)
    BY <1>1 DEF SetActiveProvider
  <2> QED  BY <1>a, <2>1, <2>2, <2>3, OperationsShape
<1>2. ASSUME NEW c \in Console, CreateAPIKey(c) PROVE Rows'
  <2>1. c \in Writer /\ key = NoKey  BY <1>2 DEF Writer, CreateAPIKey
  <2>2. PICK routing : SetKey(c, Created(routing), TRUE)  BY <1>2 DEF CreateAPIKey
  <2>3. Shaped(Created(routing))  BY DEF Created, Fields, Shaped
  <2> QED  BY <2>1, <2>2, <2>3, SetStep
<1>3. ASSUME NEW c \in Console, key # NoKey,
             \/ UpdateAPIKey(c) \/ DeleteAPIKey(c) \/ AddKeyProfile(c)
             \/ UpdateKeyProfile(c) \/ DeleteKeyProfile(c) \/ SwitchKeyProfile(c)
      PROVE  Rows'
  <2>0. c \in Writer /\ DOMAIN key = Fields  BY <1>0, <1>3 DEF Writer, Shaped
  <2>1. CASE UpdateAPIKey(c)
    <3>1. \E routing : SetKey(c, Patched(routes, key, routing), FALSE)
      BY <2>1 DEF UpdateAPIKey
    <3> QED  BY <1>3, <1>a, <2>0, <3>1, OperationsShape
  <2>2. CASE DeleteAPIKey(c)
    BY <1>3, <1>a, <2>0, <2>2 DEF DeleteAPIKey
  <2>3. CASE AddKeyProfile(c)
    <3>1. PICK id, routing, activate, default :
            LET seeded == IF key.profiles = <<>>
                            THEN [key EXCEPT !.profiles = <<Scheme(key, default)>>,
                                             !.current = default]
                            ELSE key
                added == [seeded EXCEPT !.profiles =
                            Append(@, NormalProfile(routes, id, routing))]
            IN  SetKey(c, IF activate THEN Activated(routes, added, Len(added.profiles))
                                      ELSE added, FALSE)
      BY <2>3 DEF AddKeyProfile
    <3> DEFINE seeded == IF key.profiles = <<>>
                           THEN [key EXCEPT !.profiles = <<Scheme(key, default)>>,
                                            !.current = default]
                           ELSE key
               added == [seeded EXCEPT !.profiles =
                           Append(@, NormalProfile(routes, id, routing))]
               k == IF activate THEN Activated(routes, added, Len(added.profiles)) ELSE added
    <3>2. DOMAIN seeded = Fields  BY <2>0, OperationsShape
    <3>3. DOMAIN added = Fields
      <4> HIDE DEF seeded
      <4> QED  BY <3>2, OperationsShape
    <3>4. DOMAIN k = Fields
      <4> HIDE DEF added
      <4> QED  BY <3>3, OperationsShape
    <3>5. SetKey(c, k, FALSE)  BY <3>1
    <3> HIDE DEF k
    <3> QED  BY <1>3, <1>a, <2>0, <3>4, <3>5
  <2>4. CASE UpdateKeyProfile(c)
    <3>1. PICK i, routing :
            LET id == key.profiles[i].id
                merged == [key EXCEPT !.profiles[i] = NormalProfile(routes, id, routing)]
            IN  SetKey(c, IF key.current = id THEN Activated(routes, merged, i)
                                              ELSE merged, FALSE)
      BY <2>4 DEF UpdateKeyProfile
    <3> DEFINE id == key.profiles[i].id
               merged == [key EXCEPT !.profiles[i] = NormalProfile(routes, id, routing)]
               k == IF key.current = id THEN Activated(routes, merged, i) ELSE merged
    <3>2. DOMAIN merged = Fields  BY <2>0
    <3>3. DOMAIN k = Fields
      <4> HIDE DEF merged
      <4> QED  BY <3>2, OperationsShape
    <3>4. SetKey(c, k, FALSE)  BY <3>1
    <3> HIDE DEF k
    <3> QED  BY <1>3, <1>a, <2>0, <3>3, <3>4
  <2>5. CASE DeleteKeyProfile(c)
    <3>1. PICK i :
            LET left == [key EXCEPT !.profiles = RemoveAt(@, i)]
            IN  SetKey(c, IF key.current # key.profiles[i].id THEN left
                          ELSE IF left.profiles = <<>> THEN [left EXCEPT !.current = None]
                          ELSE Activated(routes, left, 1), FALSE)
      BY <2>5 DEF DeleteKeyProfile
    <3> DEFINE left == [key EXCEPT !.profiles = RemoveAt(@, i)]
               k == IF key.current # key.profiles[i].id THEN left
                    ELSE IF left.profiles = <<>> THEN [left EXCEPT !.current = None]
                    ELSE Activated(routes, left, 1)
    <3>2. DOMAIN left = Fields  BY <2>0
    <3>3. DOMAIN k = Fields
      <4> HIDE DEF left
      <4> QED  BY <3>2, OperationsShape
    <3>4. SetKey(c, k, FALSE)  BY <3>1
    <3> HIDE DEF k
    <3> QED  BY <1>3, <1>a, <2>0, <3>3, <3>4
  <2>6. CASE SwitchKeyProfile(c)
    <3>1. \E i : SetKey(c, Activated(routes, key, i), FALSE)
      BY <2>6 DEF SwitchKeyProfile
    <3> QED  BY <1>3, <1>a, <2>0, <3>1, OperationsShape
  <2> QED  BY <1>3, <2>1, <2>2, <2>3, <2>4, <2>5, <2>6
<1>4. ASSUME NEW c \in Console,
             \/ UpdateAPIKey(c) \/ DeleteAPIKey(c) \/ AddKeyProfile(c)
             \/ UpdateKeyProfile(c) \/ DeleteKeyProfile(c) \/ SwitchKeyProfile(c)
      PROVE  key # NoKey
  BY <1>4 DEF UpdateAPIKey, DeleteAPIKey, AddKeyProfile, UpdateKeyProfile,
              DeleteKeyProfile, SwitchKeyProfile
<1> QED  BY <1>1, <1>2, <1>3, <1>4

\* A renewal owes the row of a provider, never the key's.
LEMMA TokenStep ==
    ASSUME Rows, Renew \/ WriteToken \/ WriteTokenFails PROVE Rows'
<1>0. "renewal" \in Writer /\ "at" \in DOMAIN Idle /\ Idle.at = "idle"
  BY DEF Writer, Idle
<1>1. "key" \in DOMAIN disk  BY DEF Rows, Shapes
<1>2. CASE Renew
  <2>1. PICK i \in DOMAIN providers :
          LET now == [providers EXCEPT ![i].token = Newest + 1]
          IN  Rewrite("renewal", [at |-> "token", row |-> now[i]], now, routes, {})
    BY <1>2 DEF Renew
  <2> DEFINE now == [providers EXCEPT ![i].token = Newest + 1]
             next == [at |-> "token", row |-> now[i]]
  <2>2. "at" \in DOMAIN next /\ next.at = "token"  OBVIOUS
  <2>3. Rewrite("renewal", next, now, routes, {})  BY <2>1
  <2> HIDE DEF next
  <2>4. job["renewal"] = Idle  BY <1>2 DEF Renew
  <2>5. RowsAlone  BY <1>0, <2>2, <2>3, <2>4, OtherJob
  <2> QED  BY <1>1, <1>2, <2>5, AloneStep DEF Renew
<1>3. CASE WriteToken
  <2>1. job["renewal"].at = "token" /\ job' = [job EXCEPT !["renewal"] = Idle] /\ UNCHANGED overlap
    BY <1>3 DEF WriteToken
  <2>2. RowsAlone  BY <1>0, <2>1, OtherJob
  <2>3. "key" \in DOMAIN disk' /\ disk'.key = disk.key  BY <1>1, <1>3 DEF WriteToken
  <2> QED  BY <1>3, <2>2, <2>3, AloneStep DEF WriteToken
<1>4. CASE WriteTokenFails
  <2>1. job["renewal"].at = "token" /\ job' = [job EXCEPT !["renewal"] = Idle] /\ UNCHANGED overlap
    BY <1>4 DEF WriteTokenFails
  <2>2. RowsAlone  BY <1>0, <2>1, OtherJob
  <2> QED  BY <1>1, <1>4, <2>2, AloneStep DEF WriteTokenFails
<1> QED  BY <1>2, <1>3, <1>4

\* Every step keeps the invariant.
LEMMA RowsStep == Rows /\ [Next]_vars => Rows'
<1> SUFFICES ASSUME Rows, [Next]_vars PROVE Rows'
  OBVIOUS
<1>1. ASSUME NEW c \in Console, ConsoleStep(c) PROVE Rows'
  BY <1>1, ConfigurationStep, DeleteProviderStep, KeyStep DEF ConsoleStep
<1>2. CASE UNCHANGED vars
  BY <1>2 DEF vars, Rows, Shapes, OneRow, RowCarriesKey, RowHeld, RowPending
<1> QED  BY <1>1, <1>2, KeyStep, WriteRowStep, WriteRowFailsStep, TokenStep, RestartStep
         DEF Next

\* While no two changes of the key overlap and none is refused or followed by a delete of
\* a provider, the database holds the key, its profiles and its failover position.
THEOREM KeyDurableCorrect == Spec => []KeyDurable
<1>1. Rows => KeyDurable  BY DEF Rows, RowHeld, KeyDurable
<1> QED  BY <1>1, RowsInit, RowsStep, PTL DEF Spec

-----------------------------------------------------------------------------
(***************************************************************************)
(* The tables of providers and routes.                                     *)
(***************************************************************************)
Distinct(list) == \A i, j \in DOMAIN list : list[i].id = list[j].id => i = j

\* Providers and routes as the router and the tables hold them: every id once, and every
\* route leading to a provider that is there and not in the trash.
Leads(ps, rs) == \A route \in ToSet(rs) : \E row \in ToSet(ps) :
                    row.id = route.provider /\ ~row.deleted

WellMade(ps, rs) ==
    /\ ps \in Seq(Row) /\ Distinct(ps)
    /\ rs \in Seq(RouteRow) /\ Distinct(rs)
    /\ Leads(ps, rs)

\* The providers a purge has taken from the router and would put back.
Saving(j, c) == j[c].at \in {"save", "write"}
Taken(j) == {j[c].taken[1] : c \in {d \in Console : Saving(j, d) /\ j[d].taken # <<>>}}
Held == ToSet(providers) \cup Taken(job)

\* What a save takes back is the provider it took, as it was copied before; a provider
\* in the trash, then.
SaveShape(j) ==
    \/ j.taken = <<>> /\ j.back = <<>>
    \/ \E u, v \in Row : u.deleted /\ v.id = u.id /\ j.taken = <<u>> /\ j.back = <<v>>

\* A purge has looked at a provider.
Looks == \A c \in Console : job[c].at = "purge" => job[c].copy \in Row

\* A snapshot that shares the lists ps and rs.
Copied(j, ps, rs) ==
    [at |-> "write", taken |-> j.taken, back |-> j.back,
     providers |-> ps, routes |-> rs, shares |-> {"providers", "routes"}]

\* One save at a time is under way, and what it has read is what the router holds.
Saves ==
    /\ \A c, d \in Console : Saving(job, c) /\ Saving(job, d) => c = d
    /\ \A w \in Writer : job[w].at = "write" => w \in Console
    /\ \A c \in Console :
          /\ Saving(job, c) => SaveShape(job[c])
          /\ job[c].at = "write" =>
               job[c] = Copied(job[c], providers, routes)
    /\ \A u \in Taken(job) : u.id \notin Ids(providers)

MarksOf(rows) == {[id |-> row.id, deleted |-> row.deleted] : row \in rows}

\* No save under way would bring anything but what it may take back.
Purging == \A c \in Console : Saving(job, c) => job[c].taken # <<>>

Stored ==
    /\ \A stored \in ToSet(disk.providers) : \E row \in Held : row.id = stored.id
    /\ Purging /\ "config" \notin unwritten =>
         /\ MarksOf(ToSet(disk.providers)) = MarksOf(Held)
         /\ ToSet(disk.routes) = ToSet(routes)

\* The token in the table is the one in memory, or that one is on its way.
Renewing(p) == job["renewal"].at = "token" /\ job["renewal"].row.id = p

Tokens ==
    /\ job["renewal"].at \in {"idle", "token"}
    /\ job["renewal"].at = "token" => job["renewal"].row \in Row
    /\ unwritten \cap {"token", "astray"} = {} =>
         \A row \in Held, stored \in ToSet(disk.providers) :
            row.id = stored.id => row.token = stored.token \/ Renewing(row.id)
    /\ "astray" \notin unwritten =>
         \A row \in Held : Renewing(row.id) => job["renewal"].row.token = row.token

Sound ==
    /\ {"providers", "routes", "key"} \subseteq DOMAIN disk
    /\ "save" \notin overlap =>
         /\ WellMade(providers, routes) /\ WellMade(disk.providers, disk.routes)
         /\ Saves /\ Stored /\ Tokens

-----------------------------------------------------------------------------
\* A list is the set of its rows, in some order.
LEMMA ListSet ==
    ASSUME NEW A, NEW list \in Seq(A)
    PROVE  /\ ToSet(list) \subseteq A
           /\ \A x \in ToSet(list) : \E i \in DOMAIN list : list[i] = x
           /\ \A i \in DOMAIN list : list[i] \in ToSet(list)
BY DEF ToSet

LEMMA AppendSet ==
    ASSUME NEW A, NEW list \in Seq(A), NEW x \in A
    PROVE  /\ Append(list, x) \in Seq(A) /\ ToSet(Append(list, x)) = ToSet(list) \cup {x}
           /\ list \o <<x>> = Append(list, x)
           /\ Distinct(list) /\ x.id \notin Ids(list) => Distinct(Append(list, x))
<1> DEFINE n == Append(list, x)
<1>1. /\ n \in Seq(A) /\ DOMAIN n = 1 .. Len(list) + 1 /\ DOMAIN list = 1 .. Len(list)
      /\ Len(list) \in Nat /\ n[Len(list) + 1] = x
      /\ \A i \in 1 .. Len(list) : n[i] = list[i]
  OBVIOUS
<1>2. list \o <<x>> = n  OBVIOUS
<1> HIDE DEF n
<1>3. \A i \in DOMAIN n : i \in DOMAIN list \/ i = Len(list) + 1  BY <1>1
<1>4. DOMAIN list \subseteq DOMAIN n /\ Len(list) + 1 \in DOMAIN n  BY <1>1
<1>5. ToSet(n) = ToSet(list) \cup {x}
  <2>1. ASSUME NEW y \in ToSet(n) PROVE y \in ToSet(list) \cup {x}
    <3>1. PICK i \in DOMAIN n : n[i] = y  BY <2>1 DEF ToSet
    <3> QED  BY <1>1, <1>3, <3>1 DEF ToSet
  <2>2. ASSUME NEW y \in ToSet(list) PROVE y \in ToSet(n)
    <3>1. PICK i \in DOMAIN list : list[i] = y  BY <2>2 DEF ToSet
    <3> QED  BY <1>1, <1>4, <3>1 DEF ToSet
  <2>3. x \in ToSet(n)  BY <1>1, <1>4 DEF ToSet
  <2> QED  BY <2>1, <2>2, <2>3
<1>6. ASSUME Distinct(list), x.id \notin Ids(list) PROVE Distinct(n)
  <2> SUFFICES ASSUME NEW i \in DOMAIN n, NEW j \in DOMAIN n, n[i].id = n[j].id PROVE i = j
    BY DEF Distinct
  <2>1. \A k \in DOMAIN list : n[k] = list[k] /\ list[k].id # x.id  BY <1>1, <1>6 DEF Ids
  <2> QED  BY <1>1, <1>3, <1>6, <2>1 DEF Distinct
<1> QED  BY <1>1, <1>2, <1>5, <1>6 DEF n

LEMMA KeptSet ==
    ASSUME NEW A, NEW list \in Seq(A), NEW wanted
    PROVE  /\ Kept(list, wanted) \in Seq(A) /\ ToSet(Kept(list, wanted)) = ToSet(list) \cap wanted
           /\ Distinct(list) => Distinct(Kept(list, wanted))
<1> DEFINE n == Kept(list, wanted)
<1>1. /\ n \in Seq(A)
      /\ \A k \in DOMAIN n : n[k] \in wanted /\ \E i \in DOMAIN list : list[i] = n[k]
      /\ \A i \in DOMAIN list : list[i] \in wanted => \E k \in DOMAIN n : n[k] = list[i]
      /\ \A k, l \in DOMAIN n : k < l =>
            \E i, j \in DOMAIN list : i < j /\ list[i] = n[k] /\ list[j] = n[l]
  BY KeptFacts
<1> HIDE DEF n
<1>2. ToSet(n) = ToSet(list) \cap wanted  BY <1>1 DEF ToSet
<1>3. ASSUME Distinct(list) PROVE Distinct(n)
  <2>1. DOMAIN n = 1 .. Len(n) /\ DOMAIN list = 1 .. Len(list) /\ Len(n) \in Nat /\ Len(list) \in Nat
    BY <1>1
  <2>2. \A k, l \in DOMAIN n : k < l => n[k].id # n[l].id
    <3> SUFFICES ASSUME NEW k \in DOMAIN n, NEW l \in DOMAIN n, k < l, n[k].id = n[l].id PROVE FALSE
      OBVIOUS
    <3>1. PICK i \in DOMAIN list, j \in DOMAIN list : i < j /\ list[i] = n[k] /\ list[j] = n[l]
      BY <1>1
    <3>2. i = j  BY <1>3, <3>1 DEF Distinct
    <3> QED  BY <2>1, <3>1, <3>2
  <2> SUFFICES ASSUME NEW k \in DOMAIN n, NEW l \in DOMAIN n, n[k].id = n[l].id, k # l PROVE FALSE
    BY DEF Distinct
  <2>3. k < l \/ l < k  BY <2>1
  <2> QED  BY <2>2, <2>3
<1> QED  BY <1>1, <1>2, <1>3 DEF n

\* Changing one row in place.
LEMMA ExceptSet ==
    ASSUME NEW A, NEW list \in Seq(A), NEW i \in DOMAIN list, NEW x \in A
    PROVE  /\ [list EXCEPT ![i] = x] \in Seq(A)
           /\ x \in ToSet([list EXCEPT ![i] = x])
           /\ \A y \in ToSet([list EXCEPT ![i] = x]) : y = x \/ (y \in ToSet(list))
           /\ \A y \in ToSet(list) : y = list[i] \/ y \in ToSet([list EXCEPT ![i] = x])
           /\ Distinct(list) /\ x.id = list[i].id =>
                 /\ Distinct([list EXCEPT ![i] = x])
                 /\ \A y \in ToSet([list EXCEPT ![i] = x]) : y.id = x.id => y = x
<1> DEFINE n == [list EXCEPT ![i] = x]
<1>1. /\ n \in Seq(A) /\ DOMAIN n = DOMAIN list /\ n[i] = x
      /\ \A k \in DOMAIN list : k # i => n[k] = list[k]
  OBVIOUS
<1> HIDE DEF n
<1>2. x \in ToSet(n)  BY <1>1 DEF ToSet
<1>3. \A y \in ToSet(n) : y = x \/ y \in ToSet(list)  BY <1>1 DEF ToSet
<1>4. \A y \in ToSet(list) : y = list[i] \/ y \in ToSet(n)  BY <1>1 DEF ToSet
<1>5. ASSUME Distinct(list), x.id = list[i].id PROVE Distinct(n)
  BY <1>1, <1>5 DEF Distinct
<1>6. ASSUME Distinct(list), x.id = list[i].id, NEW y \in ToSet(n), y.id = x.id PROVE y = x
  <2>1. PICK k \in DOMAIN n : n[k] = y  BY DEF ToSet
  <2> QED  BY <1>1, <1>5, <1>6, <2>1 DEF Distinct
<1> QED  BY <1>1, <1>2, <1>3, <1>4, <1>5, <1>6 DEF n

\* The router's look-up of a provider that is not in the trash.
LEMMA LiveRow ==
    ASSUME NEW p, providers \in Seq(Row), Distinct(providers)
    PROVE  Live(p) <=> \E row \in ToSet(providers) : row.id = p /\ ~row.deleted
<1>1. ASSUME p \in Ids(providers)
      PROVE  Find(providers, p) \in DOMAIN providers /\ providers[Find(providers, p)].id = p
  BY <1>1 DEF Ids, Find
<1>2. ASSUME Live(p) PROVE \E row \in ToSet(providers) : row.id = p /\ ~row.deleted
  BY <1>1, <1>2 DEF Live, ToSet
<1>3. ASSUME NEW row \in ToSet(providers), row.id = p, ~row.deleted PROVE Live(p)
  <2>1. PICK i \in DOMAIN providers : providers[i] = row  BY DEF ToSet
  <2>2. p \in Ids(providers)  BY <1>3, <2>1 DEF Ids
  <2>3. Find(providers, p) = i  BY <1>1, <1>3, <2>1, <2>2 DEF Distinct
  <2> QED  BY <1>3, <2>1, <2>2, <2>3 DEF Live
<1> QED  BY <1>2, <1>3

LEMMA IdsSet == ASSUME NEW list PROVE Ids(list) = {row.id : row \in ToSet(list)}
BY DEF Ids, ToSet

LEMMA SameRow ==
    ASSUME NEW list, Distinct(list), NEW x \in ToSet(list), NEW y \in ToSet(list), x.id = y.id
    PROVE  x = y
BY DEF Distinct, ToSet

LEMMA TakenNone ==
    ASSUME NEW j, \A c \in Console : Saving(j, c) => j[c].taken = <<>>
    PROVE  Taken(j) = {}
BY DEF Taken

LEMMA TakenOne ==
    ASSUME NEW j, NEW c \in Console, Saving(j, c), NEW u, j[c].taken = <<u>>,
           \A d \in Console \ {c} : ~Saving(j, d)
    PROVE  Taken(j) = {u}
<1>1. <<u>> # <<>> /\ <<u>>[1] = u  OBVIOUS
<1> QED  BY <1>1 DEF Taken

LEMMA TakenSame ==
    ASSUME NEW j, NEW k,
           \A c \in Console : /\ Saving(k, c) <=> Saving(j, c)
                              /\ Saving(j, c) => k[c].taken = j[c].taken
    PROVE  Taken(k) = Taken(j)
BY DEF Taken

-----------------------------------------------------------------------------
\* A database with no job on its way is sound.
LEMMA SoundInit == Init => Sound
<1> SUFFICES ASSUME Init PROVE Sound  OBVIOUS
<1>0. /\ disk = [providers |-> providers, routes |-> routes, key |-> key]
      /\ job = [w \in Writer |-> Idle] /\ unwritten = {}
  BY DEF Init
<1>1. Idle.at = "idle"  BY DEF Idle
<1>2. \A w \in Writer : job[w].at = "idle"  BY <1>0, <1>1
<1>3. Console \subseteq Writer /\ "renewal" \in Writer  BY DEF Writer
<1>4. \A c \in Console : ~Saving(job, c)  BY <1>2, <1>3 DEF Saving
<1>5. Taken(job) = {}  BY <1>4, TakenNone
<1>6. /\ providers \in Seq(Row) /\ Distinct(providers)
      /\ \A i \in DOMAIN providers : ~providers[i].deleted
  <2>1. PICK n \in 0 .. Cardinality(Provider) : \E order \in [1 .. n -> Provider] :
           /\ IsInjective(order)
           /\ providers = [i \in DOMAIN order |-> [id |-> order[i], deleted |-> FALSE, token |-> 0]]
    BY DEF Init
  <2>2. PICK order \in [1 .. n -> Provider] :
           /\ IsInjective(order)
           /\ providers = [i \in DOMAIN order |-> [id |-> order[i], deleted |-> FALSE, token |-> 0]]
    BY <2>1
  <2>3. /\ DOMAIN providers = 1 .. n
        /\ \A i \in 1 .. n : providers[i] = [id |-> order[i], deleted |-> FALSE, token |-> 0]
    BY <2>2
  <2>4. \A i \in 1 .. n : [id |-> order[i], deleted |-> FALSE, token |-> 0] \in Row
    <3>1. 0 \in 0 .. MaxToken /\ FALSE \in BOOLEAN  BY ConfigAssumption
    <3> QED  BY <3>1 DEF Row
  <2>5. providers \in [1 .. n -> Row]  BY <2>2, <2>3, <2>4
  <2>6. n \in Nat
    <3>1. Cardinality(Provider) \in Nat  BY ConfigAssumption, FS_CardinalityType
    <3> QED  BY <3>1
  <2>7. providers \in Seq(Row)  BY <2>5, <2>6
  <2>8. Distinct(providers)  BY <2>2, <2>3 DEF Distinct, IsInjective
  <2> QED  BY <2>3, <2>7, <2>8
<1>7. routes \in Seq(RouteRow) /\ Distinct(routes)
  <2>1. routes = <<>> \/ \E row \in RouteRow : routes = <<row>>  BY DEF Init
  <2>2. CASE routes = <<>>  BY <2>2 DEF Distinct
  <2>3. ASSUME NEW row \in RouteRow, routes = <<row>> PROVE routes \in Seq(RouteRow) /\ Distinct(routes)
    <3>1. DOMAIN routes = {1}  BY <2>3
    <3> QED  BY <2>3, <3>1 DEF Distinct
  <2> QED  BY <2>1, <2>2, <2>3
<1>8. Leads(providers, routes)
  <2>1. routes = <<>> \/ \E row \in RouteRow : Live(row.provider) /\ routes = <<row>>  BY DEF Init
  <2>2. ASSUME NEW route \in ToSet(routes) PROVE Live(route.provider)
    <3>1. PICK i \in DOMAIN routes : route = routes[i]  BY DEF ToSet
    <3> QED  BY <2>1, <3>1
  <2>3. ASSUME NEW p, Live(p) PROVE \E row \in ToSet(providers) : row.id = p /\ ~row.deleted
    <3>1. PICK i \in DOMAIN providers : providers[i].id = p  BY <2>3 DEF Live, Ids
    <3> QED  BY <1>6, <3>1 DEF ToSet
  <2> QED  BY <2>2, <2>3 DEF Leads
<1>9. WellMade(providers, routes)  BY <1>6, <1>7, <1>8 DEF WellMade
<1>10. Saves  BY <1>2, <1>3, <1>4, <1>5 DEF Saves
<1>11. Held = ToSet(providers)  BY <1>5 DEF Held
<1>12. Stored /\ Tokens
  <2>1. disk.providers = providers /\ disk.routes = routes  BY <1>0
  <2>2. job["renewal"].at = "idle"  BY <1>2, <1>3
  <2>3. \A x, y \in ToSet(providers) : x.id = y.id => x = y  BY <1>6, SameRow
  <2> QED  BY <1>11, <2>1, <2>2, <2>3 DEF Stored, Tokens, Renewing
<1> QED  BY <1>0, <1>9, <1>10, <1>12 DEF Sound

\* A step that changes no token, and brings or takes away no provider for good.
LEMMA SoundKeeps ==
    ASSUME Sound, "save" \notin overlap, DOMAIN disk' = DOMAIN disk,
           disk'.providers = disk.providers, disk'.routes = disk.routes,
           WellMade(providers', routes'), Saves', job'["renewal"] = job["renewal"],
           \A x \in {"config", "token", "astray"} : x \in unwritten => x \in unwritten',
           \A row \in Held : \E new \in Held' : new.id = row.id,
           \A new \in Held' : \E row \in Held : row.id = new.id /\ row.token = new.token,
           Purging' /\ "config" \notin unwritten' =>
              /\ Purging /\ MarksOf(Held') = MarksOf(Held)
              /\ ToSet(routes') = ToSet(routes)
    PROVE  Sound'
<1>0. /\ WellMade(disk.providers, disk.routes) /\ Stored /\ Tokens
      /\ {"providers", "routes", "key"} \subseteq DOMAIN disk
  BY DEF Sound
<1>1. Stored'
  <2>1. \A stored \in ToSet(disk'.providers) : \E new \in Held' : new.id = stored.id
    <3> SUFFICES ASSUME NEW stored \in ToSet(disk.providers) PROVE \E new \in Held' : new.id = stored.id
      OBVIOUS
    <3>1. PICK row \in Held : row.id = stored.id  BY <1>0 DEF Stored
    <3> QED  BY <3>1
  <2>2. ASSUME Purging', "config" \notin unwritten'
        PROVE  /\ MarksOf(ToSet(disk'.providers)) = MarksOf(Held')
               /\ ToSet(disk'.routes) = ToSet(routes')
    <3>1. "config" \notin unwritten  BY <2>2
    <3> QED  BY <1>0, <2>2, <3>1 DEF Stored
  <2> QED  BY <2>1, <2>2 DEF Stored
<1>2. Tokens'
  <2>1. job'["renewal"].at \in {"idle", "token"}  BY <1>0 DEF Tokens
  <2>2. \A p : Renewing(p)' <=> Renewing(p)  BY DEF Renewing
  <2>3. ASSUME unwritten' \cap {"token", "astray"} = {},
               NEW new \in Held', NEW stored \in ToSet(disk.providers), new.id = stored.id
        PROVE  new.token = stored.token \/ Renewing(new.id)'
    <3>1. PICK row \in Held : row.id = new.id /\ row.token = new.token  OBVIOUS
    <3>2. unwritten \cap {"token", "astray"} = {}  BY <2>3
    <3> QED  BY <1>0, <2>2, <2>3, <3>1, <3>2 DEF Tokens
  <2>4. ASSUME "astray" \notin unwritten', NEW new \in Held', Renewing(new.id)'
        PROVE  job'["renewal"].row.token = new.token
    <3>1. PICK row \in Held : row.id = new.id /\ row.token = new.token  OBVIOUS
    <3> QED  BY <1>0, <2>2, <2>4, <3>1 DEF Tokens
  <2>5. job'["renewal"].at = "token" => job'["renewal"].row \in Row  BY <1>0 DEF Tokens
  <2> QED  BY <2>1, <2>3, <2>4, <2>5 DEF Tokens
<1> QED  BY <1>0, <1>1, <1>2 DEF Sound

\* What a change of a console that owes a save finds and leaves, if no other save is under
\* way.
LEMMA ChangeStep ==
    ASSUME Rows, Sound, "save" \notin overlap', NEW c \in Console, ~Saving(job, c),
           job[c].at # "write",
           NEW next, next.at = "save",
           SaveShape(next),
           NEW ps, NEW rs, NEW moved, Rewrite(c, next, ps, rs, moved),
           next.taken # <<>> => next.taken[1].id \notin Ids(ps)
    PROVE  /\ "save" \notin overlap
           /\ WellMade(providers, routes) /\ WellMade(disk.providers, disk.routes)
           /\ Stored /\ Tokens
           /\ Purging /\ Held = ToSet(providers)
           /\ providers' = ps /\ routes' = rs
           /\ Saves' /\ job'["renewal"] = job["renewal"]
           /\ next.taken = <<>> => ~Purging' /\ Held' = ToSet(ps)
           /\ \A u : next.taken = <<u>> => Held' = ToSet(ps) \cup {u}
<1>1. /\ "save" \notin overlap /\ \A d \in Console \ {c} : Settled(d)
      /\ providers' = ps /\ routes' = rs
      /\ job' = [x \in Writer |-> IF x = c THEN next ELSE Seen(job[x], ps, rs, moved)]
  BY DEF Rewrite
<1>2. WellMade(providers, routes) /\ WellMade(disk.providers, disk.routes) /\ Saves /\ Stored /\ Tokens
  BY <1>1 DEF Sound
<1>4. \A d \in Console : ~Saving(job, d)  BY <1>1 DEF Settled, Saving
<1>5. Purging /\ Held = ToSet(providers)  BY <1>4, TakenNone DEF Purging, Held
<1>6. c \in Writer /\ "renewal" \in Writer /\ Console \subseteq Writer /\ "renewal" # c
  BY ConfigAssumption DEF Writer
<1>7. \A x \in Writer : job[x].at # "write"  BY <1>2, <1>4 DEF Saves, Saving
<1>8. \A x \in Writer \ {c} : job'[x] = job[x]  BY <1>1, <1>7 DEF Seen
<1>9. job'[c] = next  BY <1>1, <1>6
<1>10. Saving(job', c) /\ \A d \in Console \ {c} : ~Saving(job', d)
  BY <1>4, <1>6, <1>8, <1>9 DEF Saving
<1>11. /\ next.taken = <<>> => Taken(job') = {}
       /\ \A u : next.taken = <<u>> => Taken(job') = {u}
  BY <1>9, <1>10, TakenNone, TakenOne
<1>12. Saves'
  <2>1. \A d, e \in Console : Saving(job', d) /\ Saving(job', e) => d = e  BY <1>10
  <2>2. \A w \in Writer : job'[w].at # "write"  BY <1>7, <1>8, <1>9
  <2>3. \A d \in Console : Saving(job', d) => SaveShape(job'[d])
    BY <1>9, <1>10
  <2>4. \A u \in Taken(job') : u.id \notin Ids(providers')
    <3>1. CASE next.taken = <<>>  BY <1>11, <3>1
    <3>2. ASSUME NEW u, next.taken = <<u>> PROVE \A v \in Taken(job') : v.id \notin Ids(providers')
      <4>1. <<u>> # <<>> /\ <<u>>[1] = u  OBVIOUS
      <4> QED  BY <1>1, <1>11, <3>2, <4>1
    <3> QED  BY <3>1, <3>2 DEF SaveShape
  <2> QED  BY <1>6, <2>1, <2>2, <2>3, <2>4 DEF Saves
<1>13. next.taken = <<>> => ~Purging'  BY <1>9, <1>10 DEF Purging
<1> QED  BY <1>1, <1>2, <1>5, <1>6, <1>8, <1>11, <1>12, <1>13 DEF Held

\* A change that leaves every provider its id and its token, and owes a save.
LEMMA EditStep ==
    ASSUME Rows, Sound, "save" \notin overlap', NEW c \in Console, job[c] = Idle,
           NEW ps, NEW rs, NEW moved, Rewrite(c, ToSave, ps, rs, moved),
           disk' = disk, unwritten \subseteq unwritten', WellMade(ps, rs),
           \A row \in ToSet(providers) : \E new \in ToSet(ps) : new.id = row.id,
           \A new \in ToSet(ps) : \E row \in ToSet(providers) : row.id = new.id /\ row.token = new.token
    PROVE  Sound'
<1>1. /\ ToSave.at = "save" /\ ToSave.taken = <<>> /\ SaveShape(ToSave)
      /\ ~Saving(job, c) /\ job[c].at # "write"
  BY DEF ToSave, SaveShape, Saving, Idle
<1>2. /\ "save" \notin overlap /\ Held = ToSet(providers)
      /\ providers' = ps /\ routes' = rs /\ Saves' /\ job'["renewal"] = job["renewal"]
      /\ ~Purging' /\ Held' = ToSet(ps)
  <2> HIDE DEF ToSave
  <2> QED  BY <1>1, ChangeStep
<1> QED  BY <1>2, SoundKeeps

LEMMA EditProviderSound ==
    ASSUME Rows, Sound, "save" \notin overlap', NEW c \in Console, EditProvider(c) PROVE Sound'
<1>1. job[c] = Idle /\ Rewrite(c, ToSave, providers, routes, {}) /\ disk' = disk /\ unwritten' = unwritten
  BY DEF EditProvider, Ask
<1>2. "save" \notin overlap  BY <1>1 DEF Rewrite
<1>3. WellMade(providers, routes)  BY <1>2 DEF Sound
<1> QED  BY <1>1, <1>3, EditStep

LEMMA RoutesSound ==
    ASSUME Rows, Sound, "save" \notin overlap', NEW c \in Console,
           AddRoute(c) \/ UpdateRoute(c) \/ DeleteRoute(c)
    PROVE  Sound'
<1>1. /\ job[c] = Idle /\ disk' = disk /\ unwritten' = unwritten
      /\ \E rs, moved : Rewrite(c, ToSave, providers, rs, moved)
  BY DEF AddRoute, UpdateRoute, DeleteRoute, Ask
<1>2. "save" \notin overlap  BY <1>1 DEF Rewrite
<1>3. /\ WellMade(providers, routes) /\ providers \in Seq(Row) /\ Distinct(providers)
      /\ routes \in Seq(RouteRow) /\ Distinct(routes) /\ Leads(providers, routes)
  BY <1>2 DEF Sound, WellMade
<1>4. ASSUME NEW rs, NEW moved, Rewrite(c, ToSave, providers, rs, moved),
             rs \in Seq(RouteRow), Distinct(rs),
             \A new \in ToSet(rs) : new \in ToSet(routes) \/ Live(new.provider)
      PROVE  Sound'
  <2>1. Leads(providers, rs)  BY <1>3, <1>4, LiveRow DEF Leads
  <2>2. WellMade(providers, rs)  BY <1>3, <1>4, <2>1 DEF WellMade
  <2> QED  BY <1>1, <1>4, <2>2, EditStep
<1>5. CASE AddRoute(c)
  <2>1. PICK r \in Route \ Ids(routes), p \in Provider, moved \in Reallocated("routes") :
           /\ Live(p)
           /\ Rewrite(c, ToSave, providers, Append(routes, [id |-> r, provider |-> p]), moved)
    BY <1>5 DEF AddRoute
  <2> DEFINE new == [id |-> r, provider |-> p]
  <2>2. new \in RouteRow /\ new.id = r /\ new.provider = p  BY DEF RouteRow
  <2>3. Rewrite(c, ToSave, providers, Append(routes, new), moved)  BY <2>1
  <2> HIDE DEF new
  <2>4. /\ Append(routes, new) \in Seq(RouteRow) /\ Distinct(Append(routes, new))
        /\ ToSet(Append(routes, new)) = ToSet(routes) \cup {new}
    BY <1>3, <2>2, AppendSet
  <2> QED  BY <1>4, <2>1, <2>2, <2>3, <2>4
<1>6. CASE UpdateRoute(c)
  <2>1. PICK i \in DOMAIN routes, p \in Provider :
           Live(p) /\ Rewrite(c, ToSave, providers, [routes EXCEPT ![i].provider = p], {})
    BY <1>6 DEF UpdateRoute
  <2> DEFINE new == [routes[i] EXCEPT !.provider = p]
  <2>2. routes[i] \in RouteRow  BY <1>3
  <2>3. new \in RouteRow /\ new.id = routes[i].id /\ new.provider = p  BY <2>2 DEF RouteRow
  <2>4. Rewrite(c, ToSave, providers, [routes EXCEPT ![i] = new], {})  BY <2>1
  <2> HIDE DEF new
  <2>5. /\ [routes EXCEPT ![i] = new] \in Seq(RouteRow) /\ Distinct([routes EXCEPT ![i] = new])
        /\ \A y \in ToSet([routes EXCEPT ![i] = new]) : y = new \/ y \in ToSet(routes)
    BY <1>3, <2>3, ExceptSet
  <2> QED  BY <1>4, <2>1, <2>3, <2>4, <2>5
<1>7. CASE DeleteRoute(c)
  <2>1. PICK r : Rewrite(c, ToSave, providers, Without(routes, r), {})  BY <1>7 DEF DeleteRoute
  <2>2. /\ Without(routes, r) \in Seq(RouteRow) /\ Distinct(Without(routes, r))
        /\ ToSet(Without(routes, r)) \subseteq ToSet(routes)
    BY <1>3, KeptSet DEF Without
  <2> QED  BY <1>4, <2>1, <2>2
<1> QED  BY <1>5, <1>6, <1>7

LEMMA AddProviderSound ==
    ASSUME Rows, Sound, "save" \notin overlap', NEW c \in Console, AddProvider(c) PROVE Sound'
<1>1. PICK p \in Provider \ Ids(providers), moved \in Reallocated("providers") :
         /\ Rewrite(c, ToSave, Append(providers, [id |-> p, deleted |-> FALSE, token |-> 0]), routes, moved)
         /\ unwritten' = IF job["renewal"].at = "token" /\ job["renewal"].row.id = p
                           THEN unwritten \cup {"astray"} ELSE unwritten
  BY DEF AddProvider
<1> DEFINE new == [id |-> p, deleted |-> FALSE, token |-> 0]
           ps == Append(providers, new)
<1>2. job[c] = Idle /\ disk' = disk  BY DEF AddProvider, Ask
<1>3. new \in Row /\ new.id = p /\ ~new.deleted
  <2>1. 0 \in 0 .. MaxToken  BY ConfigAssumption
  <2> QED  BY <2>1 DEF Row
<1>4. Rewrite(c, ToSave, ps, routes, moved)  BY <1>1
<1>5. /\ ToSave.at = "save" /\ ToSave.taken = <<>> /\ SaveShape(ToSave)
      /\ ~Saving(job, c) /\ job[c].at # "write"
  BY <1>2 DEF ToSave, SaveShape, Saving, Idle
<1> HIDE DEF new
<1>6. /\ "save" \notin overlap
      /\ WellMade(providers, routes) /\ WellMade(disk.providers, disk.routes)
      /\ Stored /\ Tokens /\ Purging /\ Held = ToSet(providers)
      /\ providers' = ps /\ routes' = routes
      /\ Saves' /\ job'["renewal"] = job["renewal"]
      /\ ~Purging' /\ Held' = ToSet(ps)
  <2> HIDE DEF ToSave, ps
  <2> QED  BY <1>2, <1>4, <1>5, ChangeStep
<1>7. /\ ps \in Seq(Row) /\ Distinct(ps) /\ ToSet(ps) = ToSet(providers) \cup {new}
  BY <1>1, <1>3, <1>6, AppendSet DEF WellMade
<1> HIDE DEF ps
<1>8. WellMade(ps, routes)  BY <1>6, <1>7 DEF WellMade, Leads
<1>9. \A stored \in ToSet(disk.providers) : stored.id # p
  BY <1>1, <1>6, IdsSet DEF Stored
<1>10. Stored'  BY <1>2, <1>6, <1>7 DEF Stored
<1>11. Tokens'
  <2>1. \A q : Renewing(q)' <=> Renewing(q)  BY <1>6 DEF Renewing
  <2>2. unwritten \subseteq unwritten' /\ (Renewing(p) => "astray" \in unwritten')
    BY <1>1 DEF Renewing
  <2>3. ASSUME unwritten' \cap {"token", "astray"} = {},
               NEW row \in Held', NEW stored \in ToSet(disk.providers), row.id = stored.id
        PROVE  row.token = stored.token \/ Renewing(row.id)'
    <3>1. row \in Held  BY <1>3, <1>6, <1>7, <1>9, <2>3
    <3>2. unwritten \cap {"token", "astray"} = {}  BY <2>2, <2>3
    <3> QED  BY <1>6, <2>1, <2>3, <3>1, <3>2 DEF Tokens
  <2>4. ASSUME "astray" \notin unwritten', NEW row \in Held', Renewing(row.id)'
        PROVE  job'["renewal"].row.token = row.token
    <3>1. row \in Held  BY <1>3, <1>6, <1>7, <2>1, <2>2, <2>4
    <3>2. "astray" \notin unwritten  BY <2>2, <2>4
    <3> QED  BY <1>6, <2>1, <2>4, <3>1, <3>2 DEF Tokens
  <2> QED  BY <1>2, <1>6, <2>3, <2>4 DEF Tokens
<1> QED  BY <1>2, <1>6, <1>8, <1>10, <1>11 DEF Sound

LEMMA RestoreProviderSound ==
    ASSUME Rows, Sound, "save" \notin overlap', NEW c \in Console, RestoreProvider(c) PROVE Sound'
<1>1. PICK i \in DOMAIN providers :
         providers[i].deleted /\ Rewrite(c, ToSave, [providers EXCEPT ![i].deleted = FALSE], routes, {})
  BY DEF RestoreProvider
<1>2. job[c] = Idle /\ disk' = disk /\ unwritten' = unwritten  BY DEF RestoreProvider, Ask
<1>3. "save" \notin overlap  BY <1>1 DEF Rewrite
<1>4. /\ providers \in Seq(Row) /\ Distinct(providers)
      /\ routes \in Seq(RouteRow) /\ Distinct(routes) /\ Leads(providers, routes)
  BY <1>3 DEF Sound, WellMade
<1> DEFINE new == [providers[i] EXCEPT !.deleted = FALSE]
           ps == [providers EXCEPT ![i] = new]
<1>5. providers[i] \in Row /\ providers[i] \in ToSet(providers)  BY <1>4, ListSet
<1>6. /\ new \in Row /\ new.id = providers[i].id /\ new.token = providers[i].token /\ ~new.deleted
  BY <1>5 DEF Row
<1>7. Rewrite(c, ToSave, ps, routes, {})  BY <1>1
<1> HIDE DEF new
<1>8. /\ ps \in Seq(Row) /\ Distinct(ps) /\ new \in ToSet(ps)
      /\ \A y \in ToSet(ps) : y = new \/ y \in ToSet(providers)
      /\ \A y \in ToSet(providers) : y = providers[i] \/ y \in ToSet(ps)
  BY <1>4, <1>6, ExceptSet
<1> HIDE DEF ps
<1>9. Leads(ps, routes)  BY <1>1, <1>4, <1>8 DEF Leads
<1>10. WellMade(ps, routes)  BY <1>4, <1>8, <1>9 DEF WellMade
<1>11. /\ \A row \in ToSet(providers) : \E y \in ToSet(ps) : y.id = row.id
       /\ \A y \in ToSet(ps) : \E row \in ToSet(providers) : row.id = y.id /\ row.token = y.token
  BY <1>5, <1>6, <1>8
<1> QED  BY <1>2, <1>7, <1>10, <1>11, EditStep

\* A purge takes the provider away until its save succeeds or fails, and keeps the copy.
LEMMA PurgeProviderSound ==
    ASSUME Rows, Sound, Looks, "save" \notin overlap', NEW c \in Console, PurgeProvider(c),
           job' # [job EXCEPT ![c] = Idle]
    PROVE  Sound'
<1> DEFINE copy == job[c].copy
<1>1. PICK u \in ToSet(providers) :
         /\ u.id = copy.id /\ u.deleted
         /\ Rewrite(c, [ToSave EXCEPT !.taken = <<u>>, !.back = <<copy>>],
                    Without(providers, copy.id), routes, {})
  BY DEF PurgeProvider
<1> DEFINE next == [ToSave EXCEPT !.taken = <<u>>, !.back = <<copy>>]
           ps == Without(providers, u.id)
<1>2. /\ job[c].at = "purge" /\ ~Saving(job, c) /\ copy \in Row
      /\ disk' = disk /\ unwritten' = unwritten
  BY DEF PurgeProvider, Looks, Saving
<1>3. "save" \notin overlap  BY <1>1 DEF Rewrite
<1>4. /\ providers \in Seq(Row) /\ Distinct(providers)
      /\ routes \in Seq(RouteRow) /\ Distinct(routes) /\ Leads(providers, routes)
  BY <1>3 DEF Sound, WellMade
<1>5. u \in Row  BY <1>4, ListSet
<1>6. next.at = "save" /\ next.taken = <<u>> /\ next.back = <<copy>>  BY DEF ToSave
<1>7. Rewrite(c, next, ps, routes, {})  BY <1>1
<1> HIDE DEF next
<1>15. SaveShape(next)  BY <1>1, <1>2, <1>5, <1>6 DEF SaveShape
<1>8. /\ ps \in Seq(Row) /\ Distinct(ps)
      /\ ToSet(ps) = {row \in ToSet(providers) : row.id # u.id}
  BY <1>4, KeptSet DEF Without
<1> HIDE DEF ps, copy
<1>9. u.id \notin Ids(ps)  BY <1>8, IdsSet
<1>10. \A row \in ToSet(providers) : row.id = u.id => row = u  BY <1>4, SameRow
<1>11. next.taken # <<>> /\ next.taken[1] = u  BY <1>6
<1>12. /\ Purging /\ Held = ToSet(providers)
       /\ providers' = ps /\ routes' = routes
       /\ Saves' /\ job'["renewal"] = job["renewal"] /\ Held' = ToSet(ps) \cup {u}
  BY <1>2, <1>6, <1>7, <1>9, <1>11, <1>15, ChangeStep
<1>13. Held' = Held  BY <1>8, <1>10, <1>12
<1>14. WellMade(ps, routes)
  <2>1. Leads(ps, routes)  BY <1>1, <1>4, <1>8, <1>10 DEF Leads
  <2> QED  BY <1>4, <1>8, <2>1 DEF WellMade
<1> QED  BY <1>2, <1>3, <1>12, <1>13, <1>14, SoundKeeps

\* The snapshot of a save.
LEMMA SnapshotSound ==
    ASSUME Rows, Sound, "save" \notin overlap', NEW c \in Console, Snapshot(c) PROVE Sound'
<1> DEFINE next == Copied(job[c], providers, routes)
<1>1. /\ job[c].at = "save" /\ job' = [job EXCEPT ![c] = next] /\ "save" \notin overlap
      /\ UNCHANGED <<providers, routes, disk, unwritten>>
  BY DEF Snapshot, Copied
<1>2. next.at = "write" /\ next.taken = job[c].taken /\ next.back = job[c].back  BY DEF Copied
<1>3. DOMAIN job = Writer /\ c \in Writer /\ "renewal" \in Writer /\ c # "renewal" /\ Console \subseteq Writer
  BY ConfigAssumption DEF Rows, Shapes, Writer
<1>4. WellMade(providers, routes) /\ Saves  BY <1>1 DEF Sound
<1>5. job'[c] = next /\ \A x \in Writer \ {c} : job'[x] = job[x]  BY <1>1, <1>3
<1>6. \A d \in Console : /\ Saving(job', d) <=> Saving(job, d)
                         /\ job'[d].taken = job[d].taken /\ job'[d].back = job[d].back
  BY <1>1, <1>2, <1>3, <1>5 DEF Saving
<1>7. Taken(job') = Taken(job)  BY <1>6, TakenSame
<1>8. Saves'
  <2>1. \A d, e \in Console : Saving(job', d) /\ Saving(job', e) => d = e  BY <1>4, <1>6 DEF Saves
  <2>2. \A x \in Writer : job'[x].at = "write" => x \in Console  BY <1>4, <1>5 DEF Saves
  <2>3. \A d \in Console : Saving(job', d) => SaveShape(job'[d])
    BY <1>4, <1>6 DEF Saves, SaveShape
  <2>4. \A d \in Console : job'[d].at = "write" =>
           job'[d] = Copied(job'[d], providers', routes')
    <3>1. job'[c] = Copied(job'[c], providers', routes')
      BY <1>1, <1>2, <1>5 DEF Copied
    <3>2. \A d \in Console \ {c} : job'[d] = job[d]  BY <1>3, <1>5
    <3> QED  BY <1>1, <1>4, <3>1, <3>2 DEF Saves
  <2>5. \A u \in Taken(job') : u.id \notin Ids(providers')  BY <1>1, <1>4, <1>7 DEF Saves
  <2> QED  BY <2>1, <2>2, <2>3, <2>4, <2>5 DEF Saves
<1>9. Held' = Held  BY <1>1, <1>7 DEF Held
<1>10. Purging' <=> Purging  BY <1>6 DEF Purging
<1>11. job'["renewal"] = job["renewal"]  BY <1>3, <1>5
<1> QED  BY <1>1, <1>4, <1>8, <1>9, <1>10, <1>11, SoundKeeps

\* A save writes what the router holds.
LEMMA SaveSound ==
    ASSUME Rows, Sound, "save" \notin overlap', NEW c \in Console, Save(c) PROVE Sound'
<1>1. /\ job[c].at = "write" /\ job' = [job EXCEPT ![c] = Idle] /\ "save" \notin overlap
      /\ disk' = [disk EXCEPT !.providers = job[c].providers, !.routes = job[c].routes]
      /\ unwritten' = unwritten \ {"config", "token"}
      /\ UNCHANGED <<providers, routes>>
  BY DEF Save
<1>2. Idle.at = "idle"  BY DEF Idle
<1>3. DOMAIN job = Writer /\ c \in Writer /\ "renewal" \in Writer /\ c # "renewal" /\ Console \subseteq Writer
  BY ConfigAssumption DEF Rows, Shapes, Writer
<1>4. /\ WellMade(providers, routes) /\ Saves /\ Tokens
      /\ {"providers", "routes", "key"} \subseteq DOMAIN disk
  BY <1>1 DEF Sound
<1>5. job[c].providers = providers /\ job[c].routes = routes
  <2> DEFINE j == job[c]
  <2>1. j = Copied(j, providers, routes)
    BY <1>1, <1>4 DEF Saves
  <2> HIDE DEF j
  <2>2. j.providers = providers /\ j.routes = routes  BY <2>1 DEF Copied
  <2> QED  BY <2>2 DEF j
<1>6. /\ disk'.providers = providers /\ disk'.routes = routes
      /\ {"providers", "routes", "key"} \subseteq DOMAIN disk'
  BY <1>1, <1>4, <1>5
<1>7. job'[c] = Idle /\ \A x \in Writer \ {c} : job'[x] = job[x]  BY <1>1, <1>3
<1>8. \A d \in Console : ~Saving(job', d)
  <2>1. ~Saving(job', c)  BY <1>2, <1>7 DEF Saving
  <2>2. ASSUME NEW d \in Console, d # c PROVE ~Saving(job', d)
    <3>1. Saving(job, c)  BY <1>1 DEF Saving
    <3>2. ~Saving(job, d)  BY <1>4, <2>2, <3>1 DEF Saves
    <3> QED  BY <1>3, <1>7, <2>2, <3>2 DEF Saving
  <2> QED  BY <2>1, <2>2
<1>9. Taken(job') = {} /\ Held' = ToSet(providers) /\ ToSet(providers) \subseteq Held
  BY <1>1, <1>8, TakenNone DEF Held
<1>10. Saves'
  <2>1. \A d \in Console : job'[d].at # "write"  BY <1>8 DEF Saving
  <2>2. \A x \in Writer : job'[x].at = "write" => x \in Console  BY <1>2, <1>4, <1>7 DEF Saves
  <2> QED  BY <1>8, <1>9, <2>1, <2>2 DEF Saves
<1>11. \A x, y \in ToSet(providers) : x.id = y.id => x = y
  BY <1>4, SameRow DEF WellMade
<1>12. Stored'  BY <1>1, <1>6, <1>9, <1>11 DEF Stored
<1>13. Tokens'
  <2>1. job'["renewal"] = job["renewal"]  BY <1>3, <1>7
  <2>2. \A p : Renewing(p)' <=> Renewing(p)  BY <2>1 DEF Renewing
  <2>3. "astray" \in unwritten' <=> "astray" \in unwritten  BY <1>1
  <2>4. "astray" \notin unwritten' =>
           \A row \in Held' : Renewing(row.id)' => job'["renewal"].row.token = row.token
    BY <1>4, <1>9, <2>1, <2>2, <2>3 DEF Tokens
  <2>5. \A row \in Held', stored \in ToSet(disk'.providers) :
           row.id = stored.id => row.token = stored.token
    BY <1>6, <1>9, <1>11
  <2> QED  BY <1>4, <2>1, <2>4, <2>5 DEF Tokens
<1>14. WellMade(providers', routes') /\ WellMade(disk'.providers, disk'.routes)  BY <1>1, <1>4, <1>6
<1> QED  BY <1>6, <1>10, <1>12, <1>13, <1>14 DEF Sound

\* A save that is refused: a purge is taken back, any other change stays ahead of the tables.
LEMMA RefusedSound ==
    ASSUME Rows, Sound, "save" \notin overlap', NEW c \in Console, SaveFails(c) \/ PurgeFails(c)
    PROVE  Sound'
<1>1. /\ job[c].at = "write" /\ "save" \notin overlap /\ disk' = disk
  BY DEF SaveFails, PurgeFails, Rewrite
<1>2. Idle.at = "idle"  BY DEF Idle
<1>3. DOMAIN job = Writer /\ c \in Writer /\ "renewal" \in Writer /\ c # "renewal" /\ Console \subseteq Writer
  BY ConfigAssumption DEF Rows, Shapes, Writer
<1>4. /\ WellMade(providers, routes) /\ Saves /\ Stored /\ Tokens
  BY <1>1 DEF Sound
<1>5. Saving(job, c) /\ \A d \in Console \ {c} : ~Saving(job, d)
  <2>1. Saving(job, c)  BY <1>1 DEF Saving
  <2> QED  BY <1>4, <2>1 DEF Saves
<1>6. job'[c] = Idle /\ \A x \in Writer \ {c} : job'[x] = job[x]
  <2>1. CASE job' = [job EXCEPT ![c] = Idle]  BY <1>3, <2>1
  <2>2. ASSUME NEW ps, NEW rs, NEW moved, Rewrite(c, Idle, ps, rs, moved)
        PROVE  job'[c] = Idle /\ \A x \in Writer \ {c} : job'[x] = job[x]
    <3>1. job' = [x \in Writer |-> IF x = c THEN Idle ELSE Seen(job[x], ps, rs, moved)]
      BY <2>2 DEF Rewrite
    <3>2. \A x \in Writer \ {c} : job[x].at # "write"
      BY <1>4, <1>5 DEF Saves, Saving
    <3> QED  BY <1>3, <3>1, <3>2 DEF Seen
  <2> QED  BY <2>1, <2>2 DEF SaveFails, PurgeFails
<1>7. \A d \in Console : ~Saving(job', d)
  BY <1>2, <1>3, <1>5, <1>6 DEF Saving
<1>8. Taken(job') = {} /\ Purging'  BY <1>7, TakenNone DEF Purging
<1>9. Saves'
  <2>1. \A d \in Console : job'[d].at # "write"  BY <1>7 DEF Saving
  <2>2. \A x \in Writer : job'[x].at = "write" => x \in Console  BY <1>2, <1>4, <1>6 DEF Saves
  <2> QED  BY <1>7, <1>8, <2>1, <2>2 DEF Saves
<1>10. job'["renewal"] = job["renewal"]  BY <1>3, <1>6
<1>11. CASE SaveFails(c)
  <2>1. /\ job[c].taken = <<>> /\ UNCHANGED <<providers, routes>>
        /\ unwritten' = unwritten \cup {"config"}
    BY <1>4, <1>5, <1>11 DEF SaveFails, Saves, SaveShape
  <2>2. Taken(job) = {}  BY <1>5, <2>1, TakenNone
  <2>3. Held' = Held  BY <1>8, <2>1, <2>2 DEF Held
  <2> QED  BY <1>1, <1>4, <1>9, <1>10, <2>1, <2>3, SoundKeeps
<1>12. CASE PurgeFails(c)
  <2>1. job[c].back # <<>>  BY <1>12 DEF PurgeFails
  <2>2. PICK u \in Row, v \in Row :
           u.deleted /\ v.id = u.id /\ job[c].taken = <<u>> /\ job[c].back = <<v>>
    BY <1>4, <1>5, <2>1 DEF Saves, SaveShape
  <2>3. Taken(job) = {u}  BY <1>5, <2>2, TakenOne
  <2>4. job[c].taken[1] = u /\ job[c].back[1] = v /\ job[c].taken # <<>>  BY <2>2
  <2>5. v.id \notin Ids(providers)  BY <1>4, <2>2, <2>3 DEF Saves
  <2>6. /\ \E moved : Rewrite(c, Idle, Append(providers, v), routes, moved)
        /\ unwritten' = unwritten \cup Lags(v, u)
    BY <1>12, <2>4, <2>5 DEF PurgeFails
  <2>7. providers' = Append(providers, v) /\ routes' = routes  BY <2>6 DEF Rewrite
  <2>8. /\ providers' \in Seq(Row) /\ Distinct(providers')
        /\ ToSet(providers') = ToSet(providers) \cup {v}
    BY <1>4, <2>5, <2>7, AppendSet DEF WellMade
  <2>9. Held = ToSet(providers) \cup {u} /\ Held' = ToSet(providers) \cup {v}
    BY <1>8, <2>3, <2>8 DEF Held
  <2>10. WellMade(providers', routes')  BY <1>4, <2>7, <2>8 DEF WellMade, Leads
  <2>11. Purging  BY <1>5, <2>4 DEF Purging
  <2>12. /\ "config" \notin unwritten' => "config" \notin unwritten /\ v.deleted = u.deleted
         /\ "astray" \notin unwritten' => "astray" \notin unwritten /\ v.token = u.token
         /\ "token" \in unwritten => "token" \in unwritten'
    BY <2>6 DEF Lags
  <2>13. Stored'
    <3>1. ASSUME NEW stored \in ToSet(disk.providers) PROVE \E new \in Held' : new.id = stored.id
      <4>1. PICK row \in Held : row.id = stored.id  BY <1>4, <3>1 DEF Stored
      <4> QED  BY <2>2, <2>9, <4>1
    <3>2. ASSUME v.deleted = u.deleted PROVE MarksOf(Held') = MarksOf(Held)
      <4>1. [id |-> v.id, deleted |-> v.deleted] = [id |-> u.id, deleted |-> u.deleted]
        BY <2>2, <3>2
      <4> QED  BY <2>9, <4>1 DEF MarksOf
    <3> QED  BY <1>1, <1>4, <2>7, <2>11, <2>12, <3>1, <3>2 DEF Stored
  <2>14. Tokens'
    <3>1. \A p : Renewing(p)' <=> Renewing(p)  BY <1>10 DEF Renewing
    <3>2. ASSUME "astray" \notin unwritten', NEW new \in Held'
          PROVE  \E row \in Held : row.id = new.id /\ row.token = new.token
      BY <2>2, <2>9, <2>12, <3>2
    <3>3. ASSUME unwritten' \cap {"token", "astray"} = {},
                 NEW new \in Held', NEW stored \in ToSet(disk.providers), new.id = stored.id
          PROVE  new.token = stored.token \/ Renewing(new.id)'
      <4>1. PICK row \in Held : row.id = new.id /\ row.token = new.token  BY <3>2, <3>3
      <4>2. unwritten \cap {"token", "astray"} = {}  BY <2>12, <3>3
      <4> QED  BY <1>4, <3>1, <3>3, <4>1, <4>2 DEF Tokens
    <3>4. ASSUME "astray" \notin unwritten', NEW new \in Held', Renewing(new.id)'
          PROVE  job'["renewal"].row.token = new.token
      <4>1. PICK row \in Held : row.id = new.id /\ row.token = new.token  BY <3>2, <3>4
      <4>2. "astray" \notin unwritten  BY <2>12, <3>4
      <4> QED  BY <1>4, <1>10, <3>1, <3>4, <4>1, <4>2 DEF Tokens
    <3> QED  BY <1>1, <1>4, <1>10, <3>3, <3>4 DEF Tokens
  <2> QED  BY <1>1, <1>4, <1>9, <2>10, <2>13, <2>14 DEF Sound
<1> QED  BY <1>11, <1>12

\* What a save under way sees of rows overwritten in place: what the router holds then.
LEMMA SeenInPlace ==
    ASSUME Saves, NEW x \in Writer, providers \in Seq(Row), routes \in Seq(RouteRow),
           NEW ps \in Seq(Row), DOMAIN ps = DOMAIN providers
    PROVE  /\ job[x].at # "write" => Seen(job[x], ps, routes, {}) = job[x]
           /\ job[x].at = "write" =>
                Seen(job[x], ps, routes, {}) = Copied(job[x], ps, routes)
<1>1. CASE job[x].at # "write"  BY <1>1 DEF Seen
<1>2. CASE job[x].at = "write"
  <2> DEFINE j == job[x]  tk == job[x].taken  bk == job[x].back
  <2>1. x \in Console  BY <1>2 DEF Saves
  <2>2. j = [at |-> "write", taken |-> tk, back |-> bk,
             providers |-> providers, routes |-> routes, shares |-> {"providers", "routes"}]
    BY <1>2, <2>1 DEF Saves, Copied
  <2>3. j.at = "write"  BY <1>2
  <2> HIDE DEF j, tk, bk
  <2>4. Overwritten(providers, ps) = ps  BY DEF Overwritten
  <2>5. Overwritten(routes, routes) = routes  BY DEF Overwritten
  <2>6. Seen(j, ps, routes, {}) =
           [j EXCEPT !.providers = Overwritten(@, ps), !.routes = Overwritten(@, routes), !.shares = @ \ {}]
    BY <2>2, <2>3 DEF Seen
  <2>7. Seen(j, ps, routes, {}) = [at |-> "write", taken |-> tk, back |-> bk, providers |-> ps,
                                   routes |-> routes, shares |-> {"providers", "routes"}]
    BY <2>2, <2>4, <2>5, <2>6
  <2> QED  BY <1>2, <2>7 DEF j, tk, bk, Copied
<1> QED  BY <1>1, <1>2

\* A step beside the saves and the renewal.
LEMMA AsideStep ==
    ASSUME Rows, Sound, "save" \notin overlap, UNCHANGED <<providers, routes>>,
           DOMAIN disk' = DOMAIN disk, disk'.providers = disk.providers, disk'.routes = disk.routes,
           \A x \in Writer : \/ job'[x] = job[x]
                             \/ /\ x # "renewal"
                                /\ job[x].at \notin {"save", "write"}
                                /\ job'[x].at \notin {"save", "write"},
           \A x \in {"config", "token", "astray"} : x \in unwritten => x \in unwritten'
    PROVE  Sound'
<1>1. WellMade(providers, routes) /\ Saves  BY DEF Sound
<1>2. Console \subseteq Writer /\ "renewal" \in Writer  BY DEF Writer
<1>3. \A c \in Console : /\ Saving(job', c) <=> Saving(job, c)
                         /\ Saving(job, c) => job'[c] = job[c]
  BY <1>2 DEF Saving
<1>4. Taken(job') = Taken(job)  BY <1>3, TakenSame
<1>5. Saves'
  <2>1. \A d, e \in Console : Saving(job', d) /\ Saving(job', e) => d = e  BY <1>1, <1>3 DEF Saves
  <2>2. \A x \in Writer : job'[x].at = "write" => x \in Console  BY <1>1 DEF Saves
  <2>3. \A d \in Console : Saving(job', d) => SaveShape(job'[d])
    BY <1>1, <1>3 DEF Saves
  <2>4. \A d \in Console : job'[d].at = "write" =>
           job'[d] = Copied(job'[d], providers', routes')
    <3> SUFFICES ASSUME NEW d \in Console, job'[d].at = "write"
                 PROVE  job'[d] = Copied(job'[d], providers', routes')
      OBVIOUS
    <3>1. Saving(job', d)  BY DEF Saving
    <3>2. job'[d] = job[d]  BY <1>3, <3>1
    <3>3. job[d] = Copied(job[d], providers, routes)
      BY <1>1, <3>2 DEF Saves
    <3> QED  BY <3>2, <3>3
  <2>5. \A u \in Taken(job') : u.id \notin Ids(providers')  BY <1>1, <1>4 DEF Saves
  <2> QED  BY <2>1, <2>2, <2>3, <2>4, <2>5 DEF Saves
<1>6. Held' = Held  BY <1>4 DEF Held
<1>7. Purging' <=> Purging  BY <1>3 DEF Purging
<1>8. job'["renewal"] = job["renewal"]  BY <1>2
<1> QED  BY <1>1, <1>5, <1>6, <1>7, <1>8, SoundKeeps

\* A delete marks the provider and takes its routes along; one that is refused finds
\* neither.
LEMMA DeleteProviderSound ==
    ASSUME Rows, Sound, "save" \notin overlap', NEW c \in Console, DeleteProvider(c) PROVE Sound'
<1>1. PICK p \in Provider :
         LET removed == {r \in Ids(routes) : ProviderOf(routes, r) = p}
             kept == Kept(routes, {row \in ToSet(routes) : row.provider # p})
             cleaned == IF key = NoKey THEN key ELSE Forgotten(key, p, removed)
             marked == [i \in DOMAIN providers |->
                          IF providers[i].id = p
                            THEN [providers[i] EXCEPT !.deleted = TRUE]
                            ELSE providers[i]]
         IN  /\ key' = cleaned
             /\ Rewrite(c, IF Live(p) THEN ToSave ELSE Idle, marked, kept, {})
             /\ unwritten' = IF cleaned = key THEN unwritten ELSE unwritten \cup {"cleaned"}
  BY DEF DeleteProvider
<1> DEFINE kept == Kept(routes, {row \in ToSet(routes) : row.provider # p})
           marked == [i \in DOMAIN providers |->
                        IF providers[i].id = p
                          THEN [providers[i] EXCEPT !.deleted = TRUE]
                          ELSE providers[i]]
<1>2. /\ job[c] = Idle /\ disk' = disk /\ unwritten \subseteq unwritten'
      /\ Rewrite(c, IF Live(p) THEN ToSave ELSE Idle, marked, kept, {})
  BY <1>1 DEF DeleteProvider, Ask
<1>3. "save" \notin overlap  BY <1>2 DEF Rewrite
<1>4. /\ providers \in Seq(Row) /\ Distinct(providers) /\ WellMade(providers, routes) /\ Saves
      /\ routes \in Seq(RouteRow) /\ Distinct(routes) /\ Leads(providers, routes)
  BY <1>3 DEF Sound, WellMade
<1>5. /\ kept \in Seq(RouteRow) /\ Distinct(kept)
      /\ ToSet(kept) = {row \in ToSet(routes) : row.provider # p}
  BY <1>4, KeptSet
<1>6. /\ DOMAIN marked = DOMAIN providers
      /\ \A i \in DOMAIN providers :
            /\ providers[i] \in Row /\ marked[i] \in Row
            /\ marked[i].id = providers[i].id /\ marked[i].token = providers[i].token
            /\ providers[i].id # p => marked[i] = providers[i]
            /\ providers[i].deleted => marked[i] = providers[i]
  <2>1. \A i \in DOMAIN providers : providers[i] \in Row  BY <1>4
  <2>2. \A row \in Row : /\ [row EXCEPT !.deleted = TRUE] \in Row
                         /\ [row EXCEPT !.deleted = TRUE].id = row.id
                         /\ [row EXCEPT !.deleted = TRUE].token = row.token
                         /\ row.deleted => [row EXCEPT !.deleted = TRUE] = row
    BY DEF Row
  <2> QED  BY <2>1, <2>2
<1>7. marked \in Seq(Row)
  <2>1. marked \in [1 .. Len(providers) -> Row]  BY <1>4, <1>6
  <2> QED  BY <1>4, <2>1
<1> HIDE DEF kept, marked
<1>8. CASE Live(p)
  <2>1. Rewrite(c, ToSave, marked, kept, {})  BY <1>2, <1>8
  <2>2. Distinct(marked)  BY <1>4, <1>6 DEF Distinct
  <2>3. Leads(marked, kept)
    <3> SUFFICES ASSUME NEW route \in ToSet(kept)
                 PROVE  \E row \in ToSet(marked) : row.id = route.provider /\ ~row.deleted
      BY DEF Leads
    <3>1. PICK row \in ToSet(providers) : row.id = route.provider /\ ~row.deleted
      BY <1>4, <1>5 DEF Leads
    <3>2. PICK i \in DOMAIN providers : providers[i] = row  BY DEF ToSet
    <3>3. marked[i] = row  BY <1>5, <1>6, <3>1, <3>2
    <3>4. row \in ToSet(marked)  BY <1>6, <3>2, <3>3 DEF ToSet
    <3> QED  BY <3>1, <3>4
  <2>4. WellMade(marked, kept)  BY <1>5, <1>7, <2>2, <2>3 DEF WellMade
  <2>5. /\ \A row \in ToSet(providers) : \E new \in ToSet(marked) : new.id = row.id
        /\ \A new \in ToSet(marked) : \E row \in ToSet(providers) :
              row.id = new.id /\ row.token = new.token
    BY <1>6 DEF ToSet
  <2> QED  BY <1>2, <2>1, <2>4, <2>5, EditStep
<1>9. CASE ~Live(p)
  <2>1. /\ Rewrite(c, Idle, marked, kept, {})  BY <1>2, <1>9
  <2>2. \A row \in ToSet(providers) : row.id = p => row.deleted  BY <1>4, <1>9, LiveRow
  <2>3. marked = providers
    <3>1. \A i \in DOMAIN providers : marked[i] = providers[i]
      BY <1>6, <2>2 DEF ToSet
    <3> QED  BY <1>4, <1>6, <1>7, <3>1
  <2>4. kept = routes
    <3> DEFINE wanted == {row \in ToSet(routes) : row.provider # p}
    <3>1. \A i \in DOMAIN routes : routes[i] \in wanted
      <4> SUFFICES ASSUME NEW i \in DOMAIN routes PROVE routes[i].provider # p  BY DEF ToSet
      <4>1. routes[i] \in ToSet(routes)  BY DEF ToSet
      <4>2. \E row \in ToSet(providers) : row.id = routes[i].provider /\ ~row.deleted
        BY <1>4, <4>1 DEF Leads
      <4> QED  BY <2>2, <4>2
    <3> HIDE DEF wanted
    <3>2. Kept(routes, wanted) = routes  BY <1>4, <3>1, KeptAll
    <3> QED  BY <3>2 DEF kept, wanted
  <2>5. /\ job' = [x \in Writer |-> IF x = c THEN Idle ELSE Seen(job[x], providers, routes, {})]
        /\ UNCHANGED <<providers, routes>>
    BY <2>1, <2>3, <2>4 DEF Rewrite
  <2>6. c \in Writer  BY DEF Writer
  <2>7. ASSUME NEW x \in Writer PROVE job'[x] = job[x]
    <3>1. CASE x = c  BY <1>2, <2>5, <2>6, <3>1
    <3>2. CASE x # c /\ job[x].at # "write"  BY <2>5, <3>2 DEF Seen
    <3>3. CASE x # c /\ job[x].at = "write"
      <4>1. Seen(job[x], providers, routes, {}) = Copied(job[x], providers, routes)
        BY <1>4, <3>3, SeenInPlace
      <4>2. job[x] = Copied(job[x], providers, routes)
        BY <1>4, <3>3 DEF Saves
      <4>3. job'[x] = Seen(job[x], providers, routes, {})  BY <2>5, <3>3
      <4> QED  BY <4>1, <4>2, <4>3
    <3> QED  BY <3>1, <3>2, <3>3
  <2> QED  BY <1>2, <1>3, <2>5, <2>7, AsideStep
<1> QED  BY <1>8, <1>9

\* The newest token of the router is one that was numbered.
LEMMA NewestType == ASSUME providers \in Seq(Row) PROVE Newest \in 0 .. MaxToken
<1> DEFINE S == {0} \cup {providers[i].token : i \in DOMAIN providers}
           T == {MaxToken - x : x \in S}
<1>1. \A i \in DOMAIN providers : providers[i].token \in 0 .. MaxToken
  <2>1. \A i \in DOMAIN providers : providers[i] \in Row  OBVIOUS
  <2> QED  BY <2>1 DEF Row
<1>2. S \subseteq 0 .. MaxToken  BY <1>1, ConfigAssumption
<1>3. 0 \in S  OBVIOUS
<1>4. Newest = CHOOSE x \in S : \A y \in S : x >= y  BY DEF Newest, Max
<1> HIDE DEF S
<1>5. T \in SUBSET Nat /\ T # {}  BY <1>2, <1>3, ConfigAssumption
<1>6. PICK m \in T : \A n \in T : m <= n  BY <1>5, Least
<1>7. PICK x \in S : m = MaxToken - x  OBVIOUS
<1>8. \A y \in S : x >= y
  <2> SUFFICES ASSUME NEW y \in S PROVE x >= y  OBVIOUS
  <2>1. MaxToken - y \in T  OBVIOUS
  <2>2. m <= MaxToken - y  BY <1>6, <2>1
  <2>3. x \in 0 .. MaxToken /\ y \in 0 .. MaxToken /\ MaxToken \in Nat  BY <1>2, ConfigAssumption
  <2> QED  BY <1>7, <2>2, <2>3
<1>9. Newest \in S  BY <1>4, <1>8
<1> QED  BY <1>2, <1>9

\* A renewal overwrites its row in place, and every snapshot that shares it.
LEMMA RenewSound == ASSUME Rows, Sound, "save" \notin overlap', Renew PROVE Sound'
<1>1. PICK i \in DOMAIN providers :
         LET now == [providers EXCEPT ![i].token = Newest + 1]
         IN  Rewrite("renewal", [at |-> "token", row |-> now[i]], now, routes, {})
  BY DEF Renew
<1> DEFINE old == providers[i]
           new == [old EXCEPT !.token = Newest + 1]
           now == [providers EXCEPT ![i] = new]
<1>2. job["renewal"] = Idle /\ Newest < MaxToken /\ disk' = disk /\ unwritten' = unwritten
  BY DEF Renew
<1>3. "save" \notin overlap  BY <1>1 DEF Rewrite
<1>4. /\ providers \in Seq(Row) /\ Distinct(providers)
      /\ routes \in Seq(RouteRow) /\ Distinct(routes) /\ Leads(providers, routes)
      /\ WellMade(disk.providers, disk.routes) /\ Saves /\ Stored /\ Tokens
      /\ {"providers", "routes", "key"} \subseteq DOMAIN disk
  BY <1>3 DEF Sound, WellMade
<1>5. old \in Row /\ old \in ToSet(providers)  BY <1>4, ListSet
<1>6. new \in Row /\ new.id = old.id /\ new.deleted = old.deleted
  <2>1. Newest + 1 \in 0 .. MaxToken  BY <1>2, <1>4, NewestType, ConfigAssumption
  <2> HIDE DEF old
  <2> QED  BY <1>5, <2>1 DEF Row
<1>7. now[i] = new /\ now = [providers EXCEPT ![i].token = Newest + 1]
  BY <1>4
<1>8. Rewrite("renewal", [at |-> "token", row |-> new], now, routes, {})
  BY <1>1, <1>7
<1> HIDE DEF new
<1>9. /\ now \in Seq(Row) /\ Distinct(now) /\ new \in ToSet(now)
      /\ \A y \in ToSet(now) : y = new \/ y \in ToSet(providers)
      /\ \A y \in ToSet(providers) : y = old \/ y \in ToSet(now)
      /\ \A y \in ToSet(now) : y.id = new.id => y = new
  BY <1>4, <1>6, ExceptSet
<1>10. DOMAIN now = DOMAIN providers  OBVIOUS
<1> HIDE DEF old, now
<1>11. /\ providers' = now /\ routes' = routes
       /\ job' = [x \in Writer |-> IF x = "renewal" THEN [at |-> "token", row |-> new]
                                                    ELSE Seen(job[x], now, routes, {})]
  BY <1>8 DEF Rewrite
<1>12. "renewal" \in Writer /\ Console \subseteq Writer /\ "renewal" \notin Console
  BY ConfigAssumption DEF Writer
<1>13. job'["renewal"].at = "token" /\ job'["renewal"].row = new  BY <1>11, <1>12
<1>14. ASSUME NEW x \in Writer, x # "renewal"
       PROVE  /\ job[x].at # "write" => job'[x] = job[x]
              /\ job[x].at = "write" =>
                   job'[x] = Copied(job[x], now, routes)
  BY <1>4, <1>9, <1>10, <1>11, <1>14, SeenInPlace
<1>15. \A c \in Console : /\ Saving(job', c) <=> Saving(job, c)
                          /\ job'[c].at = job[c].at
                          /\ job'[c].taken = job[c].taken /\ job'[c].back = job[c].back
  <2> SUFFICES ASSUME NEW c \in Console
               PROVE  /\ job'[c].at = job[c].at
                      /\ job'[c].taken = job[c].taken /\ job'[c].back = job[c].back
    BY DEF Saving
  <2> DEFINE j == job[c]
  <2>1. c \in Writer /\ c # "renewal"  BY <1>12
  <2>2. CASE job[c].at # "write"  BY <1>14, <2>1, <2>2
  <2>3. CASE job[c].at = "write"
    <3>1. job'[c] = Copied(j, now, routes)
      BY <1>14, <2>1, <2>3
    <3> HIDE DEF j
    <3>2. job'[c].at = "write" /\ job'[c].taken = j.taken /\ job'[c].back = j.back
      BY <3>1 DEF Copied
    <3> QED  BY <2>3, <3>2 DEF j
  <2> QED  BY <2>2, <2>3
<1>16. Taken(job') = Taken(job)  BY <1>15, TakenSame
<1>17. Ids(now) = Ids(providers)
  BY <1>5, <1>6, <1>9, IdsSet
<1>18. Saves'
  <2>1. \A d, e \in Console : Saving(job', d) /\ Saving(job', e) => d = e  BY <1>4, <1>15 DEF Saves
  <2>2. \A w \in Writer : job'[w].at = "write" => w \in Console
    <3> SUFFICES ASSUME NEW w \in Writer, job'[w].at = "write" PROVE w \in Console  OBVIOUS
    <3>1. w # "renewal"  BY <1>13
    <3> QED  BY <1>4, <1>14, <3>1 DEF Saves
  <2>3. \A d \in Console : Saving(job', d) => SaveShape(job'[d])
    BY <1>4, <1>15 DEF Saves, SaveShape
  <2>4. \A d \in Console : job'[d].at = "write" =>
           job'[d] = Copied(job'[d], providers', routes')
    <3> SUFFICES ASSUME NEW d \in Console, job'[d].at = "write"
                 PROVE  job'[d] = Copied(job'[d], now, routes)
      BY <1>11
    <3>1. d \in Writer /\ d # "renewal" /\ job[d].at = "write"  BY <1>12, <1>15
    <3> QED  BY <1>14, <1>15, <3>1 DEF Copied
  <2>5. \A u \in Taken(job') : u.id \notin Ids(providers')  BY <1>4, <1>11, <1>16, <1>17 DEF Saves
  <2> QED  BY <2>1, <2>2, <2>3, <2>4, <2>5 DEF Saves
<1>19. WellMade(now, routes)
  <2>1. Leads(now, routes)  BY <1>4, <1>6, <1>9 DEF Leads
  <2> QED  BY <1>4, <1>9, <2>1 DEF WellMade
<1>20. Held' = ToSet(now) \cup Taken(job)  BY <1>11, <1>16 DEF Held
<1>21. /\ \A row \in Held : \E y \in Held' : y.id = row.id /\ y.deleted = row.deleted
       /\ \A y \in Held' : \E row \in Held : y.id = row.id /\ y.deleted = row.deleted
       /\ \A y \in Held' : y = new \/ (y \in Held /\ y.id # new.id)
  <2>1. \A row \in ToSet(providers) : row.id = new.id => row = old  BY <1>4, <1>5, <1>6, SameRow
  <2>2. \A u \in Taken(job) : u.id # new.id
    <3>1. new.id \in Ids(providers)  BY <1>5, <1>6, IdsSet
    <3> QED  BY <1>4, <3>1 DEF Saves
  <2> QED  BY <1>5, <1>6, <1>9, <1>20, <2>2 DEF Held
<1>22. Stored'
  <2>1. MarksOf(Held') = MarksOf(Held)
    <3>1. MarksOf(Held') \subseteq MarksOf(Held)  BY <1>21 DEF MarksOf
    <3>2. MarksOf(Held) \subseteq MarksOf(Held')  BY <1>21 DEF MarksOf
    <3> QED  BY <3>1, <3>2
  <2>2. Purging' => Purging  BY <1>15 DEF Purging
  <2>3. \A stored \in ToSet(disk'.providers) : \E row \in Held' : row.id = stored.id
    <3> SUFFICES ASSUME NEW stored \in ToSet(disk.providers) PROVE \E row \in Held' : row.id = stored.id
      BY <1>2
    <3>1. PICK row \in Held : row.id = stored.id  BY <1>4 DEF Stored
    <3> QED  BY <1>21, <3>1
  <2> QED  BY <1>2, <1>4, <1>11, <2>1, <2>2, <2>3 DEF Stored
<1>23. Tokens'
  <2>1. job'["renewal"].at = "token" /\ job'["renewal"].row \in Row  BY <1>6, <1>13
  <2>2. \A p : ~Renewing(p)
    <3>1. Idle.at = "idle"  BY DEF Idle
    <3> QED  BY <1>2, <3>1 DEF Renewing
  <2>3. \A p : Renewing(p)' <=> p = new.id  BY <1>13 DEF Renewing
  <2>4. ASSUME unwritten' \cap {"token", "astray"} = {},
               NEW y \in Held', NEW stored \in ToSet(disk'.providers), y.id = stored.id
        PROVE  y.token = stored.token \/ Renewing(y.id)'
    BY <1>2, <1>4, <1>21, <2>2, <2>3, <2>4 DEF Tokens
  <2>5. \A y \in Held' : Renewing(y.id)' => job'["renewal"].row.token = y.token
    BY <1>13, <1>21, <2>3
  <2> QED  BY <2>1, <2>4, <2>5 DEF Tokens
<1> QED  BY <1>2, <1>4, <1>11, <1>18, <1>19, <1>22, <1>23 DEF Sound

\* The renewed token reaches the row of its id, if there is one.
LEMMA WriteTokenSound == ASSUME Rows, Sound, "save" \notin overlap', WriteToken PROVE Sound'
<1> DEFINE row == job["renewal"].row
           list == disk.providers
           stored == [i \in DOMAIN list |-> IF list[i].id = row.id
                                              THEN [list[i] EXCEPT !.token = row.token]
                                              ELSE list[i]]
<1>1. /\ job["renewal"].at = "token" /\ "save" \notin overlap
      /\ disk' = [disk EXCEPT !.providers = stored]
      /\ job' = [job EXCEPT !["renewal"] = Idle]
      /\ UNCHANGED <<providers, routes, unwritten>>
  BY DEF WriteToken
<1>2. /\ WellMade(providers, routes) /\ WellMade(disk.providers, disk.routes)
      /\ list \in Seq(Row) /\ Distinct(list) /\ Leads(list, disk.routes)
      /\ Saves /\ Stored /\ Tokens /\ {"providers", "routes", "key"} \subseteq DOMAIN disk
  BY <1>1 DEF Sound, WellMade
<1>3. row \in Row  BY <1>1, <1>2 DEF Tokens
<1>4. /\ DOMAIN stored = DOMAIN list
      /\ \A i \in DOMAIN list :
            /\ list[i] \in Row /\ stored[i] \in Row
            /\ stored[i].id = list[i].id /\ stored[i].deleted = list[i].deleted
            /\ stored[i].id = row.id => stored[i].token = row.token
            /\ stored[i].id # row.id => stored[i] = list[i]
  <2>1. \A i \in DOMAIN list : list[i] \in Row  BY <1>2
  <2> HIDE DEF row, list
  <2>2. row.token \in 0 .. MaxToken  BY <1>3 DEF Row
  <2>3. \A x \in Row : /\ [x EXCEPT !.token = row.token] \in Row
                       /\ [x EXCEPT !.token = row.token].id = x.id
                       /\ [x EXCEPT !.token = row.token].deleted = x.deleted
                       /\ [x EXCEPT !.token = row.token].token = row.token
    BY <2>2 DEF Row
  <2> QED  BY <2>1, <2>3
<1>5. stored \in Seq(Row)
  <2> HIDE DEF row, list
  <2>1. DOMAIN list = 1 .. Len(list) /\ Len(list) \in Nat  BY <1>2
  <2>2. stored \in [1 .. Len(list) -> Row]  BY <1>4, <2>1
  <2> QED  BY <2>1, <2>2
<1> HIDE DEF stored, row
<1>6. Distinct(stored)  BY <1>2, <1>4 DEF Distinct
<1>7. /\ \A x \in ToSet(list) : \E y \in ToSet(stored) : y.id = x.id /\ y.deleted = x.deleted
      /\ \A y \in ToSet(stored) : \E x \in ToSet(list) :
            /\ y.id = x.id /\ y.deleted = x.deleted
            /\ y.id = row.id => y.token = row.token
            /\ y.id # row.id => y.token = x.token
  BY <1>4 DEF ToSet
<1> HIDE DEF list
<1>8. /\ disk'.providers = stored /\ disk'.routes = disk.routes
      /\ {"providers", "routes", "key"} \subseteq DOMAIN disk'
  BY <1>1, <1>2
<1>9. WellMade(disk'.providers, disk'.routes)
  <2>1. Leads(stored, disk.routes)  BY <1>2, <1>7 DEF Leads
  <2> QED  BY <1>2, <1>5, <1>6, <1>8, <2>1 DEF WellMade
<1>10. Idle.at = "idle"  BY DEF Idle
<1>11. DOMAIN job = Writer /\ "renewal" \in Writer /\ Console \subseteq Writer /\ "renewal" \notin Console
  BY ConfigAssumption DEF Rows, Shapes, Writer
<1>12. job'["renewal"] = Idle /\ \A c \in Console : job'[c] = job[c]  BY <1>1, <1>11
<1>13. \A c \in Console : Saving(job', c) <=> Saving(job, c)  BY <1>12 DEF Saving
<1>14. Taken(job') = Taken(job)  BY <1>12, <1>13, TakenSame
<1>15. Saves'
  <2>1. \A w \in Writer : job'[w].at = "write" => w \in Console
    BY <1>1, <1>2, <1>10, <1>11, <1>12 DEF Saves, Writer
  <2> QED  BY <1>1, <1>2, <1>12, <1>13, <1>14, <2>1 DEF Saves
<1>16. Held' = Held  BY <1>1, <1>14 DEF Held
<1>17. Stored'
  <2>1. MarksOf(ToSet(stored)) = MarksOf(ToSet(list))
    <3>1. MarksOf(ToSet(stored)) \subseteq MarksOf(ToSet(list))  BY <1>7 DEF MarksOf
    <3>2. MarksOf(ToSet(list)) \subseteq MarksOf(ToSet(stored))  BY <1>7 DEF MarksOf
    <3> QED  BY <3>1, <3>2
  <2>2. Purging' <=> Purging  BY <1>12, <1>13 DEF Purging
  <2>3. \A y \in ToSet(stored) : \E r \in Held : r.id = y.id
    <3> SUFFICES ASSUME NEW y \in ToSet(stored) PROVE \E r \in Held : r.id = y.id  OBVIOUS
    <3>1. PICK x \in ToSet(list) : y.id = x.id  BY <1>7
    <3>2. x \in ToSet(disk.providers)  BY DEF list
    <3> QED  BY <1>2, <3>1, <3>2 DEF Stored
  <2> QED  BY <1>1, <1>2, <1>8, <1>16, <2>1, <2>2, <2>3 DEF Stored, list
<1>18. Tokens'
  <2>1. job'["renewal"].at = "idle"  BY <1>10, <1>12
  <2>2. \A p : ~Renewing(p)'  BY <2>1 DEF Renewing
  <2>3. \A p : Renewing(p) <=> p = row.id  BY <1>1 DEF Renewing, row
  <2>4. ASSUME unwritten' \cap {"token", "astray"} = {},
               NEW r \in Held', NEW y \in ToSet(disk'.providers), r.id = y.id
        PROVE  r.token = y.token
    <3>1. r \in Held /\ y \in ToSet(stored) /\ unwritten \cap {"token", "astray"} = {}
      BY <1>1, <1>8, <1>16, <2>4
    <3>2. PICK x \in ToSet(list) : /\ y.id = x.id
                                   /\ y.id = row.id => y.token = row.token
                                   /\ y.id # row.id => y.token = x.token
      BY <1>7, <3>1
    <3>3. CASE r.id = row.id
      <4>1. row.token = r.token  BY <1>2, <2>3, <3>1, <3>3 DEF Tokens, row
      <4> QED  BY <2>4, <3>2, <3>3, <4>1
    <3>4. CASE r.id # row.id
      <4>1. r.token = x.token  BY <1>2, <2>3, <2>4, <3>1, <3>2, <3>4 DEF Tokens, list
      <4> QED  BY <2>4, <3>2, <3>4, <4>1
    <3> QED  BY <3>3, <3>4
  <2> QED  BY <2>1, <2>2, <2>4 DEF Tokens
<1> QED  BY <1>1, <1>2, <1>8, <1>9, <1>15, <1>17, <1>18 DEF Sound

LEMMA WriteTokenFailsSound ==
    ASSUME Rows, Sound, "save" \notin overlap', WriteTokenFails PROVE Sound'
<1>1. /\ job["renewal"].at = "token" /\ "save" \notin overlap
      /\ disk' = disk /\ unwritten' = unwritten \cup {"token"}
      /\ job' = [job EXCEPT !["renewal"] = Idle]
      /\ UNCHANGED <<providers, routes>>
  BY DEF WriteTokenFails
<1>2. /\ WellMade(providers, routes) /\ WellMade(disk.providers, disk.routes)
      /\ Saves /\ Stored /\ Tokens /\ {"providers", "routes", "key"} \subseteq DOMAIN disk
  BY <1>1 DEF Sound
<1>3. Idle.at = "idle"  BY DEF Idle
<1>4. DOMAIN job = Writer /\ "renewal" \in Writer /\ Console \subseteq Writer /\ "renewal" \notin Console
  BY ConfigAssumption DEF Rows, Shapes, Writer
<1>5. job'["renewal"] = Idle /\ \A c \in Console : job'[c] = job[c]  BY <1>1, <1>4
<1>6. \A c \in Console : Saving(job', c) <=> Saving(job, c)  BY <1>5 DEF Saving
<1>7. Taken(job') = Taken(job)  BY <1>5, <1>6, TakenSame
<1>8. Saves'
  <2>1. \A w \in Writer : job'[w].at = "write" => w \in Console
    BY <1>1, <1>2, <1>3, <1>4, <1>5 DEF Saves, Writer
  <2> QED  BY <1>1, <1>2, <1>5, <1>6, <1>7, <2>1 DEF Saves
<1>9. Held' = Held  BY <1>1, <1>7 DEF Held
<1>10. Purging' <=> Purging  BY <1>5, <1>6 DEF Purging
<1>11. Stored'  BY <1>1, <1>2, <1>9, <1>10 DEF Stored
<1>12. job'["renewal"].at = "idle" /\ \A p : ~Renewing(p)'  BY <1>3, <1>5 DEF Renewing
<1>13. Tokens'  BY <1>1, <1>12 DEF Tokens
<1> QED  BY <1>1, <1>2, <1>8, <1>11, <1>13 DEF Sound

\* The operations on the key, and the moves of its failover position.
LEMMA KeysSound ==
    ASSUME Rows, Sound, "save" \notin overlap', NEW w \in Writer \ {"renewal"}, NEW k, NEW new,
           job[w] = Idle, SetKey(w, k, new)
    PROVE  Sound'
<1>1. /\ job' = [job EXCEPT ![w] = ToRow(k, new)] /\ "save" \notin overlap
      /\ unwritten' = unwritten \ {"cleaned"}
      /\ UNCHANGED <<providers, routes, disk>>
  BY DEF SetKey
<1>2. Idle.at = "idle" /\ ToRow(k, new).at = "row"  BY DEF Idle, ToRow
<1>3. DOMAIN job = Writer  BY DEF Rows, Shapes
<1>4. \A x \in Writer : \/ job'[x] = job[x]
                        \/ /\ x # "renewal"
                           /\ job[x].at \notin {"save", "write"}
                           /\ job'[x].at \notin {"save", "write"}
  BY <1>1, <1>2, <1>3
<1> QED  BY <1>1, <1>4, AsideStep

\* A purge that looks at a provider, or finds none in the trash.
LEMMA LookSound ==
    ASSUME Rows, Sound, "save" \notin overlap', NEW c \in Console \ {"renewal"},
           LookAtPurged(c) \/ (PurgeProvider(c) /\ job' = [job EXCEPT ![c] = Idle])
    PROVE  Sound'
<1>1. Idle.at = "idle"  BY DEF Idle
<1>2. DOMAIN job = Writer /\ c \in Writer  BY DEF Rows, Shapes, Writer
<1>3. job[c].at \in {"idle", "purge"}
  BY <1>1 DEF LookAtPurged, PurgeProvider, Ask
<1>4. job'[c].at \in {"idle", "purge"} /\ \A x \in Writer \ {c} : job'[x] = job[x]
  <2>1. CASE LookAtPurged(c)
    <3>1. PICK copy : job' = [job EXCEPT ![c] = [at |-> "purge", copy |-> copy]]
      BY <2>1 DEF LookAtPurged
    <3> QED  BY <1>2, <3>1
  <2>2. CASE job' = [job EXCEPT ![c] = Idle]  BY <1>1, <1>2, <2>2
  <2> QED  BY <2>1, <2>2
<1>5. UNCHANGED <<disk, unwritten>>  BY DEF LookAtPurged, PurgeProvider
<1>6. UNCHANGED <<providers, routes, overlap>>
  <2>1. CASE LookAtPurged(c)  BY <2>1 DEF LookAtPurged
  <2>2. CASE PurgeProvider(c) /\ job' = [job EXCEPT ![c] = Idle]
    <3>1. ASSUME NEW row, NEW ps,
                 Rewrite(c, [ToSave EXCEPT !.taken = <<row>>, !.back = <<job[c].copy>>],
                         ps, routes, {})
          PROVE  FALSE
      <4> DEFINE next == [ToSave EXCEPT !.taken = <<row>>, !.back = <<job[c].copy>>]
      <4>1. next.at = "save" /\ Rewrite(c, next, ps, routes, {})  BY <3>1 DEF ToSave
      <4> HIDE DEF next
      <4>2. job'[c].at = "save"  BY <1>2, <4>1 DEF Rewrite
      <4> QED  BY <1>1, <1>2, <2>2, <4>2
    <3> QED  BY <2>2, <3>1 DEF PurgeProvider
  <2> QED  BY <2>1, <2>2
<1>7. \A x \in Writer : \/ job'[x] = job[x]
                        \/ /\ x # "renewal"
                           /\ job[x].at \notin {"save", "write"}
                           /\ job'[x].at \notin {"save", "write"}
  BY <1>2, <1>3, <1>4
<1> QED  BY <1>5, <1>6, <1>7, AsideStep

LEMMA RowsSound ==
    ASSUME Rows, Sound, "save" \notin overlap', NEW w \in Writer, WriteRow(w) \/ WriteRowFails(w)
    PROVE  Sound'
<1>1. /\ job[w].at = "row" /\ job' = [job EXCEPT ![w] = Idle] /\ "save" \notin overlap
      /\ UNCHANGED <<providers, routes>>
      /\ \A x \in {"config", "token", "astray"} : x \in unwritten => x \in unwritten'
  BY DEF WriteRow, WriteRowFails
<1>2. Idle.at = "idle"  BY DEF Idle
<1>3. DOMAIN job = Writer  BY DEF Rows, Shapes
<1>4. w # "renewal"  BY <1>1 DEF Sound, Tokens
<1>5. \A x \in Writer : \/ job'[x] = job[x]
                        \/ /\ x # "renewal"
                           /\ job[x].at \notin {"save", "write"}
                           /\ job'[x].at \notin {"save", "write"}
  BY <1>1, <1>2, <1>3, <1>4
<1>6. DOMAIN disk' = DOMAIN disk /\ disk'.providers = disk.providers /\ disk'.routes = disk.routes
  <2>1. \A k : LET d == [disk EXCEPT !.key = k]
               IN  DOMAIN d = DOMAIN disk /\ d.providers = disk.providers /\ d.routes = disk.routes
    BY <1>1 DEF Sound
  <2> QED  BY <2>1 DEF WriteRow, WriteRowFails
<1> QED  BY <1>1, <1>5, <1>6, AsideStep

\* Whatever was under way, the router starts from the tables.
LEMMA RestartSound == ASSUME Rows, Sound, "save" \notin overlap', Restart PROVE Sound'
<1>1. /\ providers' = disk.providers /\ routes' = disk.routes /\ "save" \notin overlap
      /\ job' = [w \in Writer |-> Idle] /\ disk' = disk /\ unwritten' = {}
  BY DEF Restart
<1>2. WellMade(disk.providers, disk.routes) /\ {"providers", "routes", "key"} \subseteq DOMAIN disk
  BY <1>1 DEF Sound
<1>3. Idle.at = "idle"  BY DEF Idle
<1>4. Console \subseteq Writer /\ "renewal" \in Writer  BY DEF Writer
<1>5. \A w \in Writer : job'[w].at = "idle"  BY <1>1, <1>3
<1>6. \A c \in Console : ~Saving(job', c)  BY <1>4, <1>5 DEF Saving
<1>7. Taken(job') = {}  BY <1>6, TakenNone
<1>8. Saves'  BY <1>4, <1>5, <1>6, <1>7 DEF Saves
<1>9. Held' = ToSet(disk.providers)  BY <1>1, <1>7 DEF Held
<1>10. Stored'  BY <1>1, <1>9 DEF Stored
<1>11. \A p : ~Renewing(p)'  BY <1>4, <1>5 DEF Renewing
<1>12. \A x, y \in ToSet(disk.providers) : x.id = y.id => x = y  BY <1>2, SameRow DEF WellMade
<1>13. Tokens'  BY <1>1, <1>4, <1>5, <1>9, <1>11, <1>12 DEF Tokens
<1> QED  BY <1>1, <1>2, <1>8, <1>10, <1>13 DEF Sound

\* What a purge looked at is a provider of the router, until it ends.
LEMMA LooksStep ==
    ASSUME Rows, Sound, Looks, "save" \notin overlap, [Next]_vars
    PROVE  Looks'
<1>1. DOMAIN job = Writer /\ (\A x \in Writer : "at" \in DOMAIN job[x]) /\ Console \subseteq Writer
  BY DEF Rows, Shapes, Writer
<1>2. /\ Idle.at = "idle" /\ ToSave.at = "save"
      /\ \A row, copy : [ToSave EXCEPT !.taken = <<row>>, !.back = <<copy>>].at = "save"
      /\ \A k, new : ToRow(k, new).at = "row"
  BY DEF Idle, ToSave, ToRow
<1>3. ASSUME NEW w \in Writer, NEW next, next.at # "purge", job' = [job EXCEPT ![w] = next]
      PROVE  Looks'
  BY <1>1, <1>3 DEF Looks
<1>4. ASSUME NEW w \in Writer, NEW next, next.at # "purge",
             NEW ps, NEW rs, NEW moved, Rewrite(w, next, ps, rs, moved)
      PROVE  Looks'
  <2> SUFFICES ASSUME NEW c \in Console, job'[c].at = "purge" PROVE job'[c].copy \in Row
    BY DEF Looks
  <2>1. job' = [x \in Writer |-> IF x = w THEN next ELSE Seen(job[x], ps, rs, moved)]
    BY <1>4 DEF Rewrite
  <2>2. c # w /\ job'[c] = Seen(job[c], ps, rs, moved)  BY <1>1, <1>4, <2>1
  <2>3. job[c].at = "purge"  BY <1>1, <2>2, SeenKeepsPlace
  <2> QED  BY <2>2, <2>3 DEF Seen, Looks
<1>5. ASSUME NEW c \in Console, ConsoleStep(c) PROVE Looks'
  <2>0. c \in Writer  BY <1>1
  <2>1. CASE LookAtPurged(c)
    <3>1. PICK copy \in ToSet(providers) :
              job' = [job EXCEPT ![c] = [at |-> "purge", copy |-> copy]]
      BY <2>1 DEF LookAtPurged
    <3>2. copy \in Row  BY ListSet DEF Sound, WellMade
    <3> QED  BY <1>1, <3>1, <3>2 DEF Looks
  <2>2. CASE Snapshot(c)
    <3>1. \E next : next.at = "write" /\ job' = [job EXCEPT ![c] = next]
      BY <2>2 DEF Snapshot
    <3> QED  BY <1>3, <2>0, <3>1
  <2>3. CASE Save(c) \/ SaveFails(c)
    BY <1>2, <1>3, <2>0, <2>3 DEF Save, SaveFails
  <2>4. CASE PurgeProvider(c) \/ PurgeFails(c)
    <3>1. \/ job' = [job EXCEPT ![c] = Idle]
          \/ \E next, ps, rs, moved : next.at # "purge" /\ Rewrite(c, next, ps, rs, moved)
      BY <1>2, <2>4 DEF PurgeProvider, PurgeFails
    <3> QED  BY <1>2, <1>3, <1>4, <2>0, <3>1
  <2>5. CASE \/ AddProvider(c) \/ EditProvider(c) \/ DeleteProvider(c) \/ RestoreProvider(c)
             \/ AddRoute(c) \/ UpdateRoute(c) \/ DeleteRoute(c)
    <3>1. CASE \/ AddProvider(c) \/ EditProvider(c) \/ RestoreProvider(c)
               \/ AddRoute(c) \/ UpdateRoute(c) \/ DeleteRoute(c)
      <4>1. \E ps, rs, moved : Rewrite(c, ToSave, ps, rs, moved)
        BY <3>1 DEF AddProvider, EditProvider, RestoreProvider, AddRoute, UpdateRoute, DeleteRoute
      <4> QED  BY <1>2, <1>4, <2>0, <4>1
    <3>2. CASE DeleteProvider(c)
      <4>1. \E p, ps, rs, moved : Rewrite(c, IF Live(p) THEN ToSave ELSE Idle, ps, rs, moved)
        BY <3>2 DEF DeleteProvider
      <4>2. \A p : (IF Live(p) THEN ToSave ELSE Idle).at # "purge"  BY <1>2
      <4> QED  BY <1>4, <2>0, <4>1, <4>2
    <3> QED  BY <2>5, <3>1, <3>2
  <2>6. CASE \/ CreateAPIKey(c) \/ UpdateAPIKey(c) \/ DeleteAPIKey(c)
             \/ AddKeyProfile(c) \/ UpdateKeyProfile(c) \/ DeleteKeyProfile(c)
             \/ SwitchKeyProfile(c)
    <3>1. PICK k, new : SetKey(c, k, new)
      BY <2>6 DEF CreateAPIKey, UpdateAPIKey, DeleteAPIKey, AddKeyProfile, UpdateKeyProfile,
                  DeleteKeyProfile, SwitchKeyProfile
    <3>2. job' = [job EXCEPT ![c] = ToRow(k, new)] /\ ToRow(k, new).at # "purge"
      BY <1>2, <3>1 DEF SetKey
    <3> QED  BY <1>3, <2>0, <3>2
  <2> QED  BY <1>5, <2>1, <2>2, <2>3, <2>4, <2>5, <2>6 DEF ConsoleStep
<1>6. CASE SetActiveProvider
  <2>1. "traffic" \in Writer  BY DEF Writer
  <2>2. PICK k : SetKey("traffic", k, FALSE)  BY <1>6 DEF SetActiveProvider
  <2>3. job' = [job EXCEPT !["traffic"] = ToRow(k, FALSE)] /\ ToRow(k, FALSE).at # "purge"
    BY <1>2, <2>2 DEF SetKey
  <2> QED  BY <1>3, <2>1, <2>3
<1>7. ASSUME NEW w \in Writer, WriteRow(w) \/ WriteRowFails(w) PROVE Looks'
  BY <1>2, <1>3, <1>7 DEF WriteRow, WriteRowFails
<1>8. CASE Renew
  <2>1. "renewal" \in Writer  BY DEF Writer
  <2>2. \E next, ps, rs, moved : next.at = "token" /\ Rewrite("renewal", next, ps, rs, moved)
    BY <1>8 DEF Renew
  <2> QED  BY <1>4, <2>1, <2>2
<1>9. CASE WriteToken \/ WriteTokenFails
  <2>1. "renewal" \in Writer  BY DEF Writer
  <2> QED  BY <1>2, <1>3, <1>9, <2>1 DEF WriteToken, WriteTokenFails
<1>10. CASE Restart
  BY <1>1, <1>2, <1>10 DEF Restart, Looks
<1>11. CASE UNCHANGED vars
  BY <1>11 DEF vars, Looks
<1> QED  BY <1>5, <1>6, <1>7, <1>8, <1>9, <1>10, <1>11 DEF Next

\* A save under way that overlaps another is remembered.
LEMMA OverlapKept == ASSUME [Next]_vars, "save" \notin overlap' PROVE "save" \notin overlap
<1>1. \A w, next, ps, rs, moved : Rewrite(w, next, ps, rs, moved) => overlap \subseteq overlap'
  BY DEF Rewrite
<1>2. \A w, k, new : SetKey(w, k, new) => overlap \subseteq overlap'
  BY DEF SetKey
<1>3. ASSUME NEW c \in Console, ConsoleStep(c) PROVE overlap \subseteq overlap'
  <2>1. CASE \/ AddProvider(c) \/ EditProvider(c) \/ DeleteProvider(c) \/ RestoreProvider(c)
             \/ AddRoute(c) \/ UpdateRoute(c) \/ DeleteRoute(c)
    <3>1. \E next, ps, rs, moved : Rewrite(c, next, ps, rs, moved)
      BY <2>1 DEF AddProvider, EditProvider, DeleteProvider, RestoreProvider, AddRoute,
                  UpdateRoute, DeleteRoute
    <3> QED  BY <1>1, <3>1
  <2>2. CASE \/ CreateAPIKey(c) \/ UpdateAPIKey(c) \/ DeleteAPIKey(c)
             \/ AddKeyProfile(c) \/ UpdateKeyProfile(c) \/ DeleteKeyProfile(c)
             \/ SwitchKeyProfile(c)
    <3>1. \E k, new : SetKey(c, k, new)
      BY <2>2 DEF CreateAPIKey, UpdateAPIKey, DeleteAPIKey, AddKeyProfile, UpdateKeyProfile,
                  DeleteKeyProfile, SwitchKeyProfile
    <3> QED  BY <1>2, <3>1
  <2>3. CASE PurgeProvider(c) \/ PurgeFails(c)
    <3>1. UNCHANGED overlap \/ \E next, ps, rs, moved : Rewrite(c, next, ps, rs, moved)
      BY <2>3 DEF PurgeProvider, PurgeFails
    <3> QED  BY <1>1, <3>1
  <2>4. CASE LookAtPurged(c) \/ Snapshot(c) \/ Save(c) \/ SaveFails(c)
    BY <2>4 DEF LookAtPurged, Snapshot, Save, SaveFails
  <2> QED  BY <1>3, <2>1, <2>2, <2>3, <2>4 DEF ConsoleStep
<1>4. CASE SetActiveProvider
  <2>1. \E w, k, new : SetKey(w, k, new)  BY <1>4 DEF SetActiveProvider
  <2> QED  BY <1>2, <2>1
<1>5. CASE Renew
  <2>1. \E w, next, ps, rs, moved : Rewrite(w, next, ps, rs, moved)  BY <1>5 DEF Renew
  <2> QED  BY <1>1, <2>1
<1>6. CASE \/ \E w \in Writer : WriteRow(w) \/ WriteRowFails(w)
           \/ WriteToken \/ WriteTokenFails \/ Restart \/ UNCHANGED vars
  BY <1>6 DEF WriteRow, WriteRowFails, WriteToken, WriteTokenFails, Restart, vars
<1> QED  BY <1>3, <1>4, <1>5, <1>6 DEF Next

LEMMA SoundStep ==
    ASSUME Rows, Sound, "save" \notin overlap => Looks, [Next]_vars
    PROVE  Sound' /\ ("save" \notin overlap' => Looks')
<1>a. "save" \notin overlap' => Looks'  BY LooksStep, OverlapKept
<1> SUFFICES Sound'  BY <1>a
<1>1. CASE "save" \in overlap'
  <2>1. DOMAIN disk' = DOMAIN disk
    <3>1. ASSUME NEW c \in Console, ConsoleStep(c) PROVE DOMAIN disk' = DOMAIN disk
      <4>1. CASE Save(c)  BY <4>1 DEF Save
      <4>2. CASE ~Save(c)
        <5>1. disk' = disk
          BY <3>1, <4>2
             DEF ConsoleStep, AddProvider, EditProvider, DeleteProvider, RestoreProvider,
                 LookAtPurged, PurgeProvider, AddRoute, UpdateRoute, DeleteRoute, Snapshot, SaveFails, PurgeFails,
                 CreateAPIKey, UpdateAPIKey, DeleteAPIKey, AddKeyProfile, UpdateKeyProfile,
                 DeleteKeyProfile, SwitchKeyProfile, SetKey
        <5> QED  BY <5>1
      <4> QED  BY <4>1, <4>2
    <3>2. ASSUME NEW w \in Writer, WriteRow(w) \/ WriteRowFails(w) PROVE DOMAIN disk' = DOMAIN disk
      BY <3>2 DEF WriteRow, WriteRowFails
    <3>3. CASE WriteToken  BY <3>3 DEF WriteToken
    <3>4. CASE SetActiveProvider \/ Renew \/ WriteTokenFails \/ Restart \/ UNCHANGED vars
      BY <3>4 DEF SetActiveProvider, SetKey, Renew, WriteTokenFails, Restart, vars
    <3> QED  BY <3>1, <3>2, <3>3, <3>4 DEF Next
  <2> QED  BY <1>1, <2>1 DEF Sound
<1>2. CASE "save" \notin overlap'
  <2>1. ASSUME NEW c \in Console, ConsoleStep(c) PROVE Sound'
    <3>1. c \in Writer \ {"renewal"}  BY ConfigAssumption DEF Writer
    <3>2. CASE AddRoute(c) \/ UpdateRoute(c) \/ DeleteRoute(c)  BY <1>2, <3>2, RoutesSound
    <3>3. CASE SaveFails(c) \/ PurgeFails(c)  BY <1>2, <3>3, RefusedSound
    <3>4. CASE \/ CreateAPIKey(c) \/ UpdateAPIKey(c) \/ DeleteAPIKey(c)
               \/ AddKeyProfile(c) \/ UpdateKeyProfile(c) \/ DeleteKeyProfile(c)
               \/ SwitchKeyProfile(c)
      <4>1. job[c] = Idle /\ \E k, new : SetKey(c, k, new)
        BY <3>4 DEF CreateAPIKey, UpdateAPIKey, DeleteAPIKey, AddKeyProfile, UpdateKeyProfile,
                    DeleteKeyProfile, SwitchKeyProfile, Ask
      <4> QED  BY <1>2, <3>1, <4>1, KeysSound
    <3>5. CASE LookAtPurged(c) \/ (PurgeProvider(c) /\ job' = [job EXCEPT ![c] = Idle])
      <4>1. c \in Console \ {"renewal"}  BY <3>1
      <4> QED  BY <1>2, <3>5, <4>1, LookSound
    <3>6. CASE PurgeProvider(c) /\ job' # [job EXCEPT ![c] = Idle]
      BY <1>2, <3>6, PurgeProviderSound, OverlapKept
    <3> QED  BY <1>2, <2>1, <3>2, <3>3, <3>4, <3>5, <3>6, AddProviderSound, EditProviderSound,
                DeleteProviderSound, RestoreProviderSound, SnapshotSound, SaveSound
             DEF ConsoleStep
  <2>2. CASE SetActiveProvider
    <3>1. "traffic" \in Writer \ {"renewal"}  BY DEF Writer
    <3>2. job["traffic"] = Idle /\ \E k, new : SetKey("traffic", k, new)
      BY <2>2 DEF SetActiveProvider
    <3> QED  BY <1>2, <3>1, <3>2, KeysSound
  <2>3. ASSUME NEW w \in Writer, WriteRow(w) \/ WriteRowFails(w) PROVE Sound'
    BY <1>2, <2>3, RowsSound
  <2>4. CASE UNCHANGED vars
    <3>1. /\ "save" \notin overlap /\ UNCHANGED <<providers, routes, disk, job, unwritten>>
      BY <1>2, <2>4 DEF vars
    <3> QED  BY <3>1, AsideStep
  <2> QED  BY <1>2, <2>1, <2>2, <2>3, <2>4, RenewSound, WriteTokenSound, WriteTokenFailsSound,
              RestartSound DEF Next
<1> QED  BY <1>1, <1>2

-----------------------------------------------------------------------------
LEMMA SoundImplies == Sound => RouteHasProvider /\ ConfigDurable /\ TokenDurable
<1> SUFFICES ASSUME Sound, "save" \notin overlap
             PROVE  RouteHasProvider /\ ConfigDurable /\ TokenDurable
  BY DEF RouteHasProvider, ConfigDurable, TokenDurable
<1>1. /\ providers \in Seq(Row) /\ Distinct(providers) /\ Leads(providers, routes)
      /\ Stored /\ Tokens
  BY DEF Sound, WellMade
<1>2. RouteHasProvider
  <2> SUFFICES ASSUME NEW i \in DOMAIN routes PROVE Live(routes[i].provider)
    BY DEF RouteHasProvider
  <2>1. routes[i] \in ToSet(routes)  BY DEF ToSet
  <2>2. \E row \in ToSet(providers) : row.id = routes[i].provider /\ ~row.deleted
    BY <1>1, <2>1 DEF Leads
  <2> QED  BY <1>1, <2>2, LiveRow
<1>3. ConfigDurable
  <2> SUFFICES ASSUME \A c \in Console : Settled(c), "config" \notin unwritten
               PROVE  /\ Marks(disk.providers) = Marks(providers)
                      /\ ToSet(disk.routes) = ToSet(routes)
    BY DEF ConfigDurable
  <2>1. \A c \in Console : ~Saving(job, c)  BY DEF Settled, Saving
  <2>2. Purging /\ Held = ToSet(providers)  BY <2>1, TakenNone DEF Purging, Held
  <2>3. ASSUME NEW list PROVE Marks(list) = MarksOf(ToSet(list))
    BY DEF Marks, MarksOf, ToSet
  <2> QED  BY <1>1, <2>2, <2>3 DEF Stored
<1>4. TokenDurable
  <2> SUFFICES ASSUME job["renewal"] = Idle, unwritten \cap {"token", "astray"} = {},
                      NEW row \in ToSet(providers), NEW stored \in ToSet(disk.providers),
                      row.id = stored.id
               PROVE  row.token = stored.token
    BY DEF TokenDurable
  <2>1. Idle.at = "idle"  BY DEF Idle
  <2>2. ~Renewing(row.id)  BY <2>1 DEF Renewing
  <2>3. row \in Held  BY DEF Held
  <2> QED  BY <1>1, <2>2, <2>3 DEF Tokens
<1> QED  BY <1>2, <1>3, <1>4

LEMMA SoundAlways == Spec => [](Rows /\ Sound)
<1> DEFINE Looked == "save" \notin overlap => Looks
<1>1. Init => Rows /\ Sound  BY RowsInit, SoundInit
<1>2. Init => Looked
  <2> SUFFICES ASSUME Init, NEW c \in Console PROVE job[c].at # "purge"  BY DEF Looks
  <2>1. job[c] = Idle  BY DEF Init, Writer
  <2> QED  BY <2>1 DEF Idle
<1>3. (Rows /\ Sound /\ Looked) /\ [Next]_vars => (Rows /\ Sound /\ Looked)'
  BY RowsStep, SoundStep
<1> QED  BY <1>1, <1>2, <1>3, PTL DEF Spec

\* In every reachable state, while no two saves were under way at once, a route leads to a
\* provider that is there and not in the trash: across deletes and purges, refused writes
\* and restarts, with any number of consoles, providers and routes.
THEOREM RouteHasProviderCorrect == Spec => []RouteHasProvider
<1>1. Rows /\ Sound => RouteHasProvider  BY SoundImplies
<1> QED  BY <1>1, SoundAlways, PTL

\* And with no save under way and none refused since, the tables hold the router's providers,
\* their marks and its routes: a purge that was refused has been taken back, unless with a
\* copy made before a delete, whose mark then awaits the next save.
THEOREM ConfigDurableCorrect == Spec => []ConfigDurable
<1>1. Rows /\ Sound => ConfigDurable  BY SoundImplies
<1> QED  BY <1>1, SoundAlways, PTL

\* And a renewed token that was written is not put back by the save of an earlier snapshot,
\* because the snapshot shares the row the renewal overwrites; nor by a purge that is taken
\* back, unless its copy was made before the renewal.
THEOREM TokenDurableCorrect == Spec => []TokenDurable
<1>1. Rows /\ Sound => TokenDurable  BY SoundImplies
<1> QED  BY <1>1, SoundAlways, PTL
=============================================================================
