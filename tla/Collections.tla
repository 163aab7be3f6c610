------------------------------ MODULE Collections ------------------------------
(***************************************************************************)
(* What the library is sorted into: auto collections                       *)
(* (autocollections/autocollections.go, api/collections.go), tags          *)
(* (tags/tags.go) and the search index (db/db.go, search/search.go).       *)
(*                                                                         *)
(* Every statement takes a connection of database/sql's pool, and rows     *)
(* that are not read to their end keep theirs.  db.New allows the pool one *)
(* connection.  Foreign keys are not enforced and no call deletes an item. *)
(* A statement that gets its connection may fail where the code passes     *)
(* over its error; elsewhere a failure ends the call.                      *)
(***************************************************************************)
EXTENDS Naturals, FiniteSets

CONSTANTS
  StoredItems, VideoItems,  \* items a scan may store, and those of media type "video"
  Refreshes,                \* bound: POST /api/auto-collections, in the order they begin
  PoolSizes,                \* connections the pool is allowed
  Updates,                  \* bound: calls of UpdateFTSIndex, in the order they begin
  Spellings, TagWords,      \* tag names as they are typed: [word, plain], and their words
  Taggers,                  \* bound: callers of AddTag at once
  Unset                     \* no call, no tag

ASSUME CollectionsAssumption ==
  /\ VideoItems \subseteq StoredItems /\ Refreshes \in Nat /\ Updates \in Nat
  /\ PoolSizes \subseteq Nat \ {0}
  /\ Spellings \subseteq [word : TagWords \cup {""}, plain : BOOLEAN] /\ "" \notin TagWords

VARIABLES
  stored,       \* the table of items
  pool,         \* the connections allowed
  autos,        \* auto_collections, of one user and group: <<refresh, kind>>
  autoItems,    \* auto_collection_items: <<collection, item>>
  refreshes,    \* refresh -> [at, kinds, kind, todo]
  tagRows,      \* tags: [id, word]
  itemTags,     \* item_tags: <<item, id>>
  taggers,      \* a caller of AddTag: the word, and the id it has for it, 0 if none yet; or Unset
  tagged,       \* history: items tagged with a word, and not untagged since
  fts5,         \* whether SQLite was built with FTS5
  indexRows,    \* items_fts: <<update that wrote it, item>>
  updates,      \* update -> [at, item]
  crossed,      \* history: pairs of updates, the first between its statements when the second deleted
  kept,         \* history: updates whose DELETE failed
  indexed       \* history: items whose last update inserted a row, and were not taken out since

autoVars == <<stored, pool, autos, autoItems, refreshes>>
tagVars == <<tagRows, itemTags, taggers, tagged>>
indexVars == <<fts5, indexRows, updates, crossed, kept, indexed>>
collectionsVars == <<autoVars, tagVars, indexVars>>

Kind(i) == IF i \in VideoItems THEN "video" ELSE "audio"
OfKind(k) == {i \in stored : Kind(i) = k}

CollectionsInit ==
  /\ stored \in SUBSET StoredItems /\ pool \in PoolSizes
  /\ autos = {} /\ autoItems = {}
  /\ refreshes = [n \in 1..Refreshes |-> [at |-> "new", kinds |-> {}, kind |-> "none", todo |-> {}]]
  /\ tagRows = {} /\ itemTags = {} /\ tagged = {}
  /\ taggers = [t \in Taggers |-> Unset]
  /\ fts5 \in BOOLEAN /\ indexRows = {} /\ crossed = {} /\ kept = {} /\ indexed = {}
  /\ updates = [n \in 1..Updates |-> [at |-> "new", item |-> Unset]]

-----------------------------------------------------------------------------
(* Refreshing the auto collections.                                        *)

\* Connections open rows keep: the kinds', until the last is read, and those of the items.
KindsOpen == {n \in 1..Refreshes : refreshes[n].at \in {"next", "items", "add"}}
ItemsOpen == {n \in 1..Refreshes : refreshes[n].at = "add"}
InUse == Cardinality(KindsOpen) + Cardinality(ItemsOpen)
Available == InUse < pool

Goes(n, place) == refreshes' = [refreshes EXCEPT ![n].at = place]

\* CreateItem, for a scan.
CreateItem(i) ==
  /\ Available /\ i \notin stored
  /\ stored' = stored \cup {i}
  /\ UNCHANGED <<pool, autos, autoItems, refreshes>>

\* RefreshAutoCollections deletes the collections there are, but not their rows of items.
RefreshBegins(n) ==
  /\ refreshes[n].at = "new" /\ \A m \in 1..(n - 1) : refreshes[m].at # "new"
  /\ Available
  /\ autos' = {}
  /\ Goes(n, "kinds")
  /\ UNCHANGED <<stored, pool, autoItems>>

\* SELECT DISTINCT media_type: its rows stay open over the loop.
QueryKinds(n) ==
  /\ refreshes[n].at = "kinds" /\ Available
  /\ refreshes' = [refreshes EXCEPT ![n].at = "next", ![n].kinds = {Kind(i) : i \in stored}]
  /\ UNCHANGED <<stored, pool, autos, autoItems>>

CreateAutoCollection(n) ==
  /\ refreshes[n].at = "next" /\ Available
  /\ \E k \in refreshes[n].kinds :
       /\ autos' = autos \cup {<<n, k>>}
       /\ refreshes' = [refreshes EXCEPT ![n].at = "items", ![n].kind = k, ![n].kinds = @ \ {k}]
  /\ UNCHANGED <<stored, pool, autoItems>>

QueryItems(n) ==
  /\ refreshes[n].at = "items" /\ Available
  /\ refreshes' = [refreshes EXCEPT ![n].at = "add", ![n].todo = OfKind(refreshes[n].kind)]
  /\ UNCHANGED <<stored, pool, autos, autoItems>>

AddItemToAutoCollection(n) ==
  /\ refreshes[n].at = "add" /\ Available
  /\ \E i \in refreshes[n].todo :
       /\ autoItems' = autoItems \cup {<<<<n, refreshes[n].kind>>, i>>}
       /\ refreshes' = [refreshes EXCEPT ![n].todo = @ \ {i}]
  /\ UNCHANGED <<stored, pool, autos>>

\* Rows read to their end give their connection back.
CloseRows(n) ==
  /\ \/ refreshes[n].at = "add" /\ refreshes[n].todo = {} /\ Goes(n, "next")
     \/ refreshes[n].at = "next" /\ refreshes[n].kinds = {} /\ Goes(n, "done")
  /\ UNCHANGED <<stored, pool, autos, autoItems>>

AutoNext ==
  /\ \/ \E i \in StoredItems : CreateItem(i)
     \/ \E n \in 1..Refreshes :
          \/ RefreshBegins(n) \/ QueryKinds(n) \/ CreateAutoCollection(n)
          \/ QueryItems(n) \/ AddItemToAutoCollection(n) \/ CloseRows(n)
  /\ UNCHANGED <<tagVars, indexVars>>

-----------------------------------------------------------------------------
(* Tags.                                                                   *)

Tagger(t, word, id) == taggers' = [taggers EXCEPT ![t] = [word |-> word, id |-> id]]

\* AddTag trims and lowers the name, and looks for it: the id of the row, if there is one,
AddTagLooks(t, s) ==
  /\ taggers[t] = Unset /\ s.word # ""
  /\ \/ \E r \in tagRows : r.word = s.word /\ Tagger(t, s.word, r.id)
     \/ s.word \notin {r.word : r \in tagRows} /\ Tagger(t, s.word, 0)
  /\ UNCHANGED <<tagRows, itemTags, tagged>>

\* Mutated AddTagInserts: the table takes a name twice.
AddTagInsertsTwice(t) ==
  /\ taggers[t] # Unset /\ taggers[t].id = 0
  /\ LET id == Cardinality(tagRows) + 1
     IN  /\ tagRows' = tagRows \cup {[id |-> id, word |-> taggers[t].word]}
         /\ Tagger(t, taggers[t].word, id)
  /\ UNCHANGED <<itemTags, tagged>>

\* or it inserts one, which fails if the name is there by now: the call has no id then.
AddTagInserts(t) ==
  /\ taggers[t] # Unset /\ taggers[t].id = 0
  /\ LET id == Cardinality(tagRows) + 1
     IN  IF taggers[t].word \in {r.word : r \in tagRows}
         THEN taggers' = [taggers EXCEPT ![t] = Unset] /\ UNCHANGED tagRows
         ELSE /\ tagRows' = tagRows \cup {[id |-> id, word |-> taggers[t].word]}
              /\ Tagger(t, taggers[t].word, id)
  /\ UNCHANGED <<itemTags, tagged>>

\* TagItem and UntagItem, with the id AddTag gave.
TagItem(t, i) ==
  /\ taggers[t] # Unset /\ taggers[t].id # 0
  /\ itemTags' = itemTags \cup {<<i, taggers[t].id>>} /\ tagged' = tagged \cup {<<i, taggers[t].word>>}
  /\ UNCHANGED <<tagRows, taggers>>

UntagItem(t, i) ==
  /\ taggers[t] # Unset /\ taggers[t].id # 0
  /\ itemTags' = itemTags \ {<<i, taggers[t].id>>} /\ tagged' = tagged \ {<<i, taggers[t].word>>}
  /\ UNCHANGED <<tagRows, taggers>>

\* The caller forgets the id.
TaggerEnds(t) ==
  /\ taggers[t] # Unset /\ taggers[t].id # 0
  /\ taggers' = [taggers EXCEPT ![t] = Unset]
  /\ UNCHANGED <<tagRows, itemTags, tagged>>

\* SearchItemsByTag, as far as its limit: it trims and lowers the name as AddTag does.
SearchItemsByTag(s) == {i \in stored : \E r \in tagRows : r.word = s.word /\ <<i, r.id>> \in itemTags}

TagNext ==
  /\ \E t \in Taggers :
       \/ AddTagInserts(t) \/ TaggerEnds(t) \/ \E s \in Spellings : AddTagLooks(t, s)
       \/ \E i \in StoredItems : TagItem(t, i) \/ UntagItem(t, i)
  /\ UNCHANGED <<autoVars, indexVars>>

-----------------------------------------------------------------------------
(* The search index.                                                       *)

RowsOf(i) == {r \in indexRows : r[2] = i}
Between(n) == updates[n].at = "deleted"

UpdateBegins(n) == updates[n].at = "new" /\ \A m \in 1..(n - 1) : updates[m].at # "new"
Crossing(n, i) == {<<m, n>> : m \in {m \in 1..Updates : Between(m) /\ updates[m].item = i}}

\* Mutated UpdateDeletes: nothing is taken out.
UpdateAdds(n, i) ==
  /\ UpdateBegins(n)
  /\ updates' = [updates EXCEPT ![n] = [at |-> "deleted", item |-> i]]
  /\ UNCHANGED <<fts5, indexRows, crossed, kept, indexed>>

\* UpdateFTSIndex takes the item's rows out, or goes on though it cannot,
UpdateDeletes(n, i) ==
  /\ UpdateBegins(n)
  /\ \/ indexRows' = indexRows \ RowsOf(i) /\ crossed' = crossed \cup Crossing(n, i) /\ UNCHANGED kept
     \/ kept' = kept \cup {n} /\ UNCHANGED <<indexRows, crossed>>
  /\ updates' = [updates EXCEPT ![n] = [at |-> "deleted", item |-> i]]
  /\ UNCHANGED <<fts5, indexed>>

\* and writes one; without FTS5 the table's key lets in one per item.
UpdateInserts(n) ==
  /\ Between(n)
  /\ LET i == updates[n].item IN
       /\ indexRows' = IF fts5 \/ RowsOf(i) = {} THEN indexRows \cup {<<n, i>>} ELSE indexRows
       /\ indexed' = indexed \cup {i}
  /\ updates' = [updates EXCEPT ![n].at = "done"]
  /\ UNCHANGED <<fts5, crossed, kept>>

\* An insertion that fails ends the update with an error; what was deleted stays so.
InsertFails(n) ==
  /\ Between(n)
  /\ indexed' = indexed \ {updates[n].item}
  /\ updates' = [updates EXCEPT ![n].at = "done"]
  /\ UNCHANGED <<fts5, indexRows, crossed, kept>>

DeleteFTSIndex(i) ==
  /\ RowsOf(i) # {}
  /\ indexRows' = indexRows \ RowsOf(i)
  /\ indexed' = indexed \ {i}
  /\ UNCHANGED <<fts5, updates, crossed, kept>>

\* SearchItemsFTS, as far as its limit: rows that match, and LIKE without FTS5; an
\* item shows once for each row.
SearchItemsFTS(i) == IF i \in stored THEN Cardinality(RowsOf(i)) ELSE 0

IndexNext ==
  /\ \/ \E n \in 1..Updates : UpdateInserts(n) \/ InsertFails(n) \/ \E i \in StoredItems : UpdateDeletes(n, i)
     \/ \E i \in StoredItems : DeleteFTSIndex(i)
  /\ UNCHANGED <<autoVars, tagVars>>

CollectionsNext == AutoNext \/ TagNext \/ IndexNext
CollectionsSpec == CollectionsInit /\ [][CollectionsNext]_collectionsVars

-----------------------------------------------------------------------------
CollectionsTypeOK ==
  /\ stored \subseteq StoredItems /\ pool \in PoolSizes
  /\ autos \subseteq (1..Refreshes) \X {"video", "audio"}
  /\ autoItems \subseteq ((1..Refreshes) \X {"video", "audio"}) \X StoredItems
  /\ refreshes \in [1..Refreshes -> [at : {"new", "kinds", "next", "items", "add", "done"},
       kinds : SUBSET {"video", "audio"}, kind : {"none", "video", "audio"}, todo : SUBSET StoredItems]]
  /\ taggers \in [Taggers -> [word : TagWords, id : Nat] \cup {Unset}] /\ fts5 \in BOOLEAN
  /\ indexRows \subseteq (1..Updates) \X StoredItems

\* On the one connection db.New allows, a refresh that finds an item waits for the
\* connection its own rows keep: no auto collection is ever made, and no other
\* call gets the database from then on.  Two connections are no better; with
\* one more than twice the refreshes none ever waits.
RefreshesWait ==
  /\ InUse <= pool
  /\ (pool = 1 => autos = {})
  /\ (pool = 1 /\ (\E n \in 1..Refreshes : refreshes[n].kinds # {}) => ~Available)
  /\ (pool = 2 => autoItems = {})
  /\ (pool > 2 * Refreshes => Available)

\* An item is in the index once, unless SQLite has FTS5 and two updates of it
\* crossed, or the second could not delete what the first had written.  Once updated
\* it is not missing but between an update's statements, or after one that failed.
IndexIsSound ==
  /\ \A r, s \in indexRows : r[2] = s[2] /\ r[1] < s[1] => fts5 /\ (<<r[1], s[1]>> \in crossed \/ s[1] \in kept)
  /\ \A i \in StoredItems : ~fts5 => SearchItemsFTS(i) <= 1
  /\ \A i \in indexed : RowsOf(i) # {} \/ \E n \in 1..Updates : Between(n) /\ updates[n].item = i

\* However many create a tag at once, what a search by it shows is what was tagged
\* with it, through whichever call's id, and not untagged through any since.
TagsAreSound ==
  \A s \in Spellings : SearchItemsByTag(s) = {i \in stored : <<i, s.word>> \in tagged}

CollectionsInv == CollectionsTypeOK /\ RefreshesWait /\ IndexIsSound /\ TagsAreSound
=============================================================================
