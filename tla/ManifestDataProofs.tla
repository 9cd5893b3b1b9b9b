------------------------- MODULE ManifestDataProofs -------------------------
(* What the manifest operations of ManifestData return and preserve. *)
EXTENDS ManifestData, TLAPS

(* insert_entry, update_current_version and remove_entry yield manifests. *)
LEMMA InsertEntryType ==
    ASSUME NEW d \in Data, NEW b \in Bundles, NEW v \in Versions, NEW m \in Metas
    PROVE  InsertEntry(d, b, v, m) \in Data
  BY DEF InsertEntry, Data, Entry

LEMMA SetCurrentType ==
    ASSUME NEW d \in Data, NEW b \in Bundles, NEW v \in Versions
    PROVE  SetCurrent(d, b, v) \in Data
  BY DEF SetCurrent, Data, Entry

LEMMA RemoveEntryType ==
    ASSUME NEW d \in Data, NEW b \in Bundles, NEW v \in Versions
    PROVE  RemoveEntry(d, b, v) \in Data
  BY DEF RemoveEntry, Data, Entry

(***************************************************************************)
(* insert_entry lists its version and keeps every other listing; a bundle  *)
(* that has a current version keeps it, another gets the new version.      *)
(***************************************************************************)
LEMMA InsertEntryLists ==
    ASSUME NEW d \in Data, NEW b \in Bundles, NEW v \in Versions, NEW m \in Metas
    PROVE  /\ \A c \in Bundles, w \in Versions :
                ContainsEntry(InsertEntry(d, b, v, m), c, w)
                <=> ContainsEntry(d, c, w) \/ (c = b /\ w = v)
           /\ ~ContainsEntry(d, b, v) =>
                \A c \in Bundles : InsertEntry(d, b, v, m)[c].current =
                   IF c = b /\ d[b].current = None THEN v ELSE d[c].current
           /\ ContainsEntry(d, b, v) => InsertEntry(d, b, v, m) = d
  BY NoneAssumption DEF InsertEntry, Data, Entry, ContainsEntry, HasEntry

(* Setting the current version changes no listing and no other bundle. *)
LEMMA SetCurrentKeeps ==
    ASSUME NEW d \in Data, NEW b \in Bundles, NEW v \in Versions
    PROVE  /\ \A c \in Bundles, w \in Versions :
                ContainsEntry(SetCurrent(d, b, v), c, w) <=> ContainsEntry(d, c, w)
           /\ \A c \in Bundles : SetCurrent(d, b, v)[c].current =
                   IF c = b /\ HasEntry(d, b) THEN v ELSE d[c].current
  BY DEF SetCurrent, Data, Entry, ContainsEntry, HasEntry

(* Removing a version unlists that one only, and changes no current version. *)
LEMMA RemoveEntryLists ==
    ASSUME NEW d \in Data, NEW b \in Bundles, NEW v \in Versions
    PROVE  /\ \A c \in Bundles, w \in Versions :
                ContainsEntry(RemoveEntry(d, b, v), c, w)
                <=> ContainsEntry(d, c, w) /\ ~(c = b /\ w = v)
           /\ \A c \in Bundles : RemoveEntry(d, b, v)[c].current = d[c].current
  BY NoneAssumption DEF RemoveEntry, Data, Entry, ContainsEntry

(* Inserting keeps the current version of every bundle among its listed ones. *)
LEMMA InsertEntryWellFormed ==
    ASSUME NEW d \in Data, NEW b \in Bundles, NEW v \in Versions, NEW m \in Metas,
           WellFormed(d)
    PROVE  WellFormed(InsertEntry(d, b, v, m))
  <1>1. CurrentIsListed(InsertEntry(d, b, v, m))
    BY NoneAssumption
    DEF WellFormed, CurrentIsListed, AbsentListsNothing, HasEntry, Listed,
        ContainsEntry, InsertEntry, Data, Entry
  <1>2. AbsentListsNothing(InsertEntry(d, b, v, m))
    BY NoneAssumption
    DEF WellFormed, CurrentIsListed, AbsentListsNothing, HasEntry, Listed,
        ContainsEntry, InsertEntry, Data, Entry
  <1>3. QED  BY <1>1, <1>2 DEF WellFormed

(* Activating a listed version does so too; the guard is what it takes. *)
LEMMA SetCurrentWellFormed ==
    ASSUME NEW d \in Data, NEW b \in Bundles, NEW v \in Versions,
           WellFormed(d), ContainsEntry(d, b, v)
    PROVE  WellFormed(SetCurrent(d, b, v))
  BY NoneAssumption
  DEF WellFormed, CurrentIsListed, AbsentListsNothing, HasEntry, Listed,
      ContainsEntry, SetCurrent, Data, Entry
=============================================================================
