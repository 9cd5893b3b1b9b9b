--------------------------- MODULE ManifestProofs ---------------------------
(***************************************************************************)
(* What a manifest promises to its callers, for any number of them, any    *)
(* bundles and versions, with crashes and I/O errors: the current version  *)
(* is listed, unless remove_entry removed it, and nothing but remove_entry *)
(* takes a version away.                                                   *)
(***************************************************************************)
EXTENDS BundleManifest, ManifestDataProofs

\* A version is in a manifest, or is one of those that were removed.
Kept(d, gone, b, v) == ContainsEntry(d, b, v) \/ <<b, v>> \in gone

\* CurrentListed, as an operator on values.
Listing(d, gone) == \A b \in Bundles : HasEntry(d, b) => Kept(d, gone, b, d[b].current)

\* A load runs alone, before there is a value; a later step runs on the value.
Loading ==
    /\ ~loaded => mem = EmptyData
    /\ \A t \in Tasks :
         /\ pc[t] = "loading" => ~loaded /\ loader = t
         /\ pc[t] \in {"version", "checked", "snapshot", "opened"} => loaded

\* What a caller knows after the first half of its operation.
Known ==
    \A t \in Tasks :
        /\ pc[t] = "version" => /\ call[t].b \in Bundles /\ ver[t] \in Versions
                                /\ Kept(mem, removed, call[t].b, ver[t])
        /\ pc[t] = "checked" => /\ call[t].b \in Bundles /\ call[t].v \in Versions
                                /\ Kept(mem, removed, call[t].b, call[t].v)

\* All copies of the manifest: in memory, on disk, and on its way there.
CopiesListed ==
    /\ Listing(mem, removed)
    /\ Listing(disk.data, removed)
    /\ \A t \in Tasks : Listing(snap[t], removed)

Inductive == TypeOK /\ Loading /\ Known /\ CopiesListed

LEMMA EmptyListed == EmptyData \in Data /\ Listing(EmptyData, removed)
  BY NoneAssumption
  DEF EmptyData, NoEntry, Data, Entry, Listing, HasEntry

(* The arguments that each operation is called with. *)
LEMMA CallArguments ==
    ASSUME NEW c \in Call
    PROVE  /\ c.op \in {"read", "metadata", "update", "insert", "remove"} => c.b \in Bundles
           /\ c.op \in {"update", "insert", "remove"} => c.v \in Versions
           /\ c.op = "insert" => c.m \in Metas
  BY DEF Call

LEMMA InitInductive == Init => Inductive
  <1> SUFFICES ASSUME Init PROVE Inductive  OBVIOUS
  <1>1. disk \in [state : FileState, data : Data] /\ Listing(disk.data, removed)
    <2>1. CASE disk = Unreadable("absent")
      BY <2>1, EmptyListed DEF Unreadable, FileState
    <2>2. CASE \E d \in Data : WellFormed(d) /\ disk = Whole(d)
      BY <2>2 DEF Whole, FileState, WellFormed, CurrentIsListed, Listing, Kept
    <2> QED  BY <2>1, <2>2 DEF Init
  <1>2. TypeOK  BY <1>1, EmptyListed DEF Init, TypeOK, PC, Rest, NoCall
  <1> QED  BY <1>1, <1>2, EmptyListed DEF Init, Inductive, Loading, Known, CopiesListed

-----------------------------------------------------------------------------
(* How the parts of the invariant survive a step.  Most steps change one   *)
(* caller's place, and at most one of the copies.                          *)

LEMMA ListedMonotone ==
    ASSUME NEW d, NEW gone, NEW more, Listing(d, gone), gone \subseteq more
    PROVE  Listing(d, more)
  BY DEF Listing, Kept

\* The other callers stay where they are.
Elsewhere(t) ==
    \A u \in Tasks \ {t} :
        pc'[u] = pc[u] /\ call'[u] = call[u] /\ ver'[u] = ver[u] /\ snap'[u] = snap[u]

\* Where a step may leave its caller.
Placed(t) ==
    /\ pc'[t] = "loading" => ~loaded' /\ loader' = t
    /\ pc'[t] \in {"version", "checked", "snapshot", "opened"} => loaded'
    /\ pc'[t] = "version" => /\ call'[t].b \in Bundles /\ ver'[t] \in Versions
                             /\ Kept(mem', removed', call'[t].b, ver'[t])
    /\ pc'[t] = "checked" => /\ call'[t].b \in Bundles /\ call'[t].v \in Versions
                             /\ Kept(mem', removed', call'[t].b, call'[t].v)
    /\ Listing(snap'[t], removed')

\* A version that a caller knows of is not forgotten.
Keeping ==
    \A b \in Bundles, v \in Versions : Kept(mem, removed, b, v) => Kept(mem', removed', b, v)

\* The load of another caller goes on.
OthersLoad(t) == \A u \in Tasks \ {t} : pc[u] = "loading" => ~loaded' /\ loader' = u

(* A step of one caller: what it must leave so that the invariant survives. *)
LEMMA TaskStep ==
    ASSUME Inductive, NEW t \in Tasks, TypeOK', Elsewhere(t), Placed(t),
           Listing(disk'.data, removed'), Listing(mem', removed'),
           loaded => loaded', ~loaded' => mem' = EmptyData,
           removed \subseteq removed',
           Keeping, OthersLoad(t)
    PROVE  Inductive'
  <1>1. Loading'  BY DEF Inductive, Loading, Elsewhere, Placed, OthersLoad
  <1>2. Known'
    <2> SUFFICES ASSUME NEW u \in Tasks
                 PROVE  /\ pc'[u] = "version" => /\ call'[u].b \in Bundles /\ ver'[u] \in Versions
                                                 /\ Kept(mem', removed', call'[u].b, ver'[u])
                        /\ pc'[u] = "checked" => /\ call'[u].b \in Bundles /\ call'[u].v \in Versions
                                                 /\ Kept(mem', removed', call'[u].b, call'[u].v)
      BY DEF Known
    <2>1. CASE u = t  BY <2>1 DEF Placed
    <2>2. CASE u # t
      <3>1. pc'[u] = pc[u] /\ call'[u] = call[u] /\ ver'[u] = ver[u]  BY <2>2 DEF Elsewhere
      <3> QED  BY <3>1 DEF Inductive, Known, Keeping
    <2> QED  BY <2>1, <2>2
  <1>3. \A u \in Tasks : Listing(snap'[u], removed')
    <2> SUFFICES ASSUME NEW u \in Tasks PROVE Listing(snap'[u], removed')  OBVIOUS
    <2>1. CASE u = t  BY <2>1 DEF Placed
    <2>2. CASE u # t
      BY <2>2, ListedMonotone DEF Elsewhere, Inductive, CopiesListed
    <2> QED  BY <2>1, <2>2
  <1> QED  BY <1>1, <1>2, <1>3 DEF Inductive, CopiesListed

(* A step that leaves the manifest in memory alone, and the loading to others. *)
LEMMA QuietStep ==
    ASSUME Inductive, NEW t \in Tasks, TypeOK', Elsewhere(t), Placed(t),
           UNCHANGED <<loaded, mem, removed>>, Listing(disk'.data, removed),
           loader' = loader \/ \A u \in Tasks \ {t} : pc[u] # "loading"
    PROVE  Inductive'
  <1>1. /\ loaded => loaded'
        /\ ~loaded' => mem' = EmptyData
        /\ removed \subseteq removed'
        /\ Listing(disk'.data, removed') /\ Listing(mem', removed')
    BY DEF Inductive, Loading, CopiesListed
  <1>2. Keeping /\ OthersLoad(t)
    BY DEF Inductive, Loading, Keeping, OthersLoad
  <1> QED  BY <1>1, <1>2, TaskStep

LEMMA BeginInductive ==
    ASSUME Inductive, NEW t \in Tasks, Begin(t)
    PROVE  Inductive'
  <1>1. TypeOK' /\ Elsewhere(t)  BY DEF Begin, Inductive, TypeOK, PC, Elsewhere
  <1>2. Placed(t) /\ Listing(disk'.data, removed)
    BY DEF Begin, Inductive, TypeOK, CopiesListed, Placed
  <1> QED  BY <1>1, <1>2, QuietStep DEF Begin

LEMMA BeginLoadInductive ==
    ASSUME Inductive, NEW t \in Tasks, BeginLoad(t)
    PROVE  Inductive'
  <1>1. TypeOK' /\ Elsewhere(t)  BY DEF BeginLoad, Inductive, TypeOK, PC, Elsewhere
  <1>2. Placed(t) /\ Listing(disk'.data, removed)
    BY DEF BeginLoad, Inductive, TypeOK, CopiesListed, Placed
  <1>3. \A u \in Tasks \ {t} : pc[u] # "loading"
    BY OpsAssumption DEF BeginLoad, Inductive, Loading
  <1> QED  BY <1>1, <1>2, <1>3, QuietStep DEF BeginLoad

(* A call that returns drops its arguments and its copy of the manifest. *)
LEMMA Returned ==
    ASSUME TypeOK, NEW t \in Tasks, NEW result \in {"ok", "err"}, Return(t, result)
    PROVE  /\ pc' \in [Tasks -> PC] /\ call' \in [Tasks -> Call \cup {NoCall}]
           /\ ver' \in [Tasks -> Versions \cup {None}] /\ snap' \in [Tasks -> Data]
           /\ Elsewhere(t) /\ Placed(t) /\ pc'[t] = result
  <1>1. EmptyData \in Data /\ Listing(EmptyData, removed')
    BY NoneAssumption DEF EmptyData, NoEntry, Data, Entry, Listing, HasEntry
  <1>2. result \in PC /\ result \notin {"loading", "version", "checked", "snapshot", "opened"}
    BY DEF PC, Rest
  <1>3. /\ pc \in [Tasks -> PC] /\ call \in [Tasks -> Call \cup {NoCall}]
        /\ ver \in [Tasks -> Versions \cup {None}] /\ snap \in [Tasks -> Data]
    BY DEF TypeOK
  <1>4. pc'[t] = result /\ snap'[t] = EmptyData /\ Elsewhere(t)
    BY <1>3 DEF Return, Elsewhere
  <1>5. Placed(t)  BY <1>1, <1>2, <1>4 DEF Placed
  <1> QED  BY <1>1, <1>2, <1>3, <1>4, <1>5 DEF Return

(* A call that returns and leaves the manifest in memory alone. *)
LEMMA QuietReturn ==
    ASSUME Inductive, NEW t \in Tasks, NEW result \in {"ok", "err"}, Return(t, result),
           UNCHANGED <<loaded, mem, removed>>,
           disk' \in [state : FileState, data : Data], Listing(disk'.data, removed),
           loader' \in Tasks \cup {None},
           loader' = loader \/ \A u \in Tasks \ {t} : pc[u] # "loading"
    PROVE  Inductive'
  <1>1. TypeOK' /\ Elsewhere(t) /\ Placed(t)  BY Returned DEF Inductive, TypeOK
  <1> QED  BY <1>1, QuietStep

LEMMA FailLoadInductive ==
    ASSUME Inductive, NEW t \in Tasks, FailLoad(t)
    PROVE  Inductive'
  <1>1. \A u \in Tasks \ {t} : pc[u] # "loading"  BY DEF FailLoad, Inductive, Loading
  <1>2. /\ disk' \in [state : FileState, data : Data] /\ Listing(disk'.data, removed)
        /\ loader' \in Tasks \cup {None}
    BY DEF FailLoad, Inductive, TypeOK, CopiesListed
  <1> QED  BY <1>1, <1>2, QuietReturn DEF FailLoad

LEMMA ReadInductive ==
    ASSUME Inductive, NEW t \in Tasks, Read(t) \/ ReadMetadata(t)
    PROVE  Inductive'
  <1>1. /\ disk' \in [state : FileState, data : Data] /\ Listing(disk'.data, removed)
        /\ loader' \in Tasks \cup {None} /\ loader' = loader
    BY DEF Read, ReadMetadata, Inductive, TypeOK, CopiesListed
  <1> QED  BY <1>1, QuietReturn DEF Read, ReadMetadata

(* load_current_metadata: a current version is listed or was removed. *)
LEMMA ReadVersionInductive ==
    ASSUME Inductive, NEW t \in Tasks, ReadVersion(t)
    PROVE  Inductive'
  <1> DEFINE b == call[t].b
  <1>1. b \in Bundles
    BY CallArguments DEF ReadVersion, Running, Inductive, TypeOK, NoCall
  <1>2. /\ disk' \in [state : FileState, data : Data] /\ Listing(disk'.data, removed)
        /\ loader' \in Tasks \cup {None} /\ loader' = loader
        /\ UNCHANGED <<loaded, mem, removed>>
    BY DEF ReadVersion, Inductive, TypeOK, CopiesListed
  <1>3. CASE HasEntry(mem, b)
    <2>1. /\ ver' = [ver EXCEPT ![t] = mem[b].current] /\ pc' = [pc EXCEPT ![t] = "version"]
          /\ UNCHANGED <<call, snap>> /\ loaded
      BY <1>3 DEF ReadVersion, Running, CurrentVersion
    <2>2. mem[b].current \in Versions /\ Kept(mem, removed, b, mem[b].current)
      BY <1>1, <1>3 DEF Inductive, TypeOK, CopiesListed, Listing, Data, Entry, HasEntry
    <2>3. TypeOK' /\ Elsewhere(t)
      BY <1>2, <2>1, <2>2 DEF Inductive, TypeOK, PC, Elsewhere
    <2>4. pc'[t] = "version" /\ ver'[t] = mem[b].current /\ call'[t].b = b
      BY <2>1 DEF Inductive, TypeOK
    <2>5. Placed(t)
      BY <1>1, <1>2, <2>1, <2>2, <2>4 DEF Placed, Inductive, CopiesListed
    <2> QED  BY <1>2, <2>3, <2>5, QuietStep
  <1>4. CASE ~HasEntry(mem, b)
    BY <1>2, <1>4, QuietReturn DEF ReadVersion
  <1> QED  BY <1>3, <1>4

(* The check of update_current_version. *)
LEMMA CheckUpdateInductive ==
    ASSUME Inductive, NEW t \in Tasks, CheckUpdate(t)
    PROVE  Inductive'
  <1> DEFINE c == call[t]
  <1>1. c.b \in Bundles /\ c.v \in Versions
    BY CallArguments DEF CheckUpdate, Running, Inductive, TypeOK, NoCall
  <1>2. /\ disk' \in [state : FileState, data : Data] /\ Listing(disk'.data, removed)
        /\ loader' \in Tasks \cup {None} /\ loader' = loader
        /\ UNCHANGED <<loaded, mem, removed>>
    BY DEF CheckUpdate, Inductive, TypeOK, CopiesListed
  <1>3. CASE ContainsEntry(mem, c.b, c.v)
    <2>1. pc' = [pc EXCEPT ![t] = "checked"] /\ UNCHANGED <<call, ver, snap>> /\ loaded
      BY <1>3 DEF CheckUpdate, Running
    <2>2. TypeOK' /\ Elsewhere(t)
      BY <1>2, <2>1 DEF Inductive, TypeOK, PC, Elsewhere
    <2>3. pc'[t] = "checked"  BY <2>1 DEF Inductive, TypeOK
    <2>4. Placed(t)
      BY <1>1, <1>2, <1>3, <2>1, <2>3 DEF Placed, Kept, Inductive, CopiesListed
    <2> QED  BY <1>2, <2>2, <2>4, QuietStep
  <1>4. CASE ~ContainsEntry(mem, c.b, c.v)
    BY <1>2, <1>4, QuietReturn DEF CheckUpdate
  <1> QED  BY <1>3, <1>4

(* save(): the snapshot is a copy of the manifest, and so is what is written. *)
LEMMA TakeSnapshotInductive ==
    ASSUME Inductive, NEW t \in Tasks, TakeSnapshot(t)
    PROVE  Inductive'
  <1>1. TypeOK' /\ Elsewhere(t)
    BY DEF TakeSnapshot, Inductive, TypeOK, PC, Elsewhere
  <1>2. pc'[t] = "snapshot" /\ snap'[t] = mem /\ loaded /\ UNCHANGED <<loaded, mem, removed, disk, loader>>
    BY DEF TakeSnapshot, Running, Inductive, TypeOK
  <1>3. Placed(t) /\ Listing(disk'.data, removed)
    BY <1>2 DEF Placed, Inductive, CopiesListed
  <1> QED  BY <1>1, <1>2, <1>3, QuietStep

LEMMA UnreadableFile ==
    ASSUME NEW s \in FileState
    PROVE  /\ Unreadable(s) \in [state : FileState, data : Data]
           /\ Listing(Unreadable(s).data, removed)
  BY EmptyListed DEF Unreadable

LEMMA OpenFileInductive ==
    ASSUME Inductive, NEW t \in Tasks, OpenFile(t)
    PROVE  Inductive'
  <1>1. disk' \in [state : FileState, data : Data] /\ Listing(disk'.data, removed)
    BY UnreadableFile DEF OpenFile, FileState
  <1>2. TypeOK' /\ Elsewhere(t)
    BY <1>1 DEF OpenFile, Inductive, TypeOK, PC, Elsewhere
  <1>3. pc'[t] = "opened" /\ loaded /\ UNCHANGED <<loaded, mem, removed, loader, snap>>
    BY DEF OpenFile, Inductive, TypeOK, Loading
  <1>4. Placed(t)  BY <1>3 DEF Placed, Inductive, CopiesListed
  <1> QED  BY <1>1, <1>2, <1>3, <1>4, QuietStep

LEMMA WriteInductive ==
    ASSUME Inductive, NEW t \in Tasks, WriteFile(t) \/ FailSave(t)
    PROVE  Inductive'
  <1>1. disk' \in {disk, Unreadable("torn"), Whole(snap[t])}
    BY DEF WriteFile, FailSave
  <1>2. disk' \in [state : FileState, data : Data] /\ Listing(disk'.data, removed)
    BY <1>1, UnreadableFile DEF Whole, FileState, Inductive, TypeOK, CopiesListed
  <1>3. UNCHANGED <<loaded, mem, loader, removed>> /\ \E r \in {"ok", "err"} : Return(t, r)
    BY DEF WriteFile, FailSave
  <1> QED  BY <1>2, <1>3, QuietReturn DEF Inductive, TypeOK

-----------------------------------------------------------------------------
(* The steps that change the manifest in memory                            *)

LEMMA FinishLoadInductive ==
    ASSUME Inductive, NEW t \in Tasks, FinishLoad(t)
    PROVE  Inductive'
  <1>1. TypeOK' /\ Elsewhere(t)
    BY DEF FinishLoad, Inductive, TypeOK, PC, Rest, Elsewhere
  <1>2. /\ pc'[t] = "enter" /\ mem' = disk.data /\ loaded' = TRUE
        /\ UNCHANGED <<disk, snap, removed>>
    BY DEF FinishLoad, Inductive, TypeOK
  <1>3. Placed(t) /\ Listing(disk'.data, removed') /\ Listing(mem', removed')
    BY <1>2 DEF Placed, Inductive, CopiesListed
  <1>4. mem = EmptyData /\ loader = t
    BY DEF FinishLoad, Inductive, Loading
  <1>5. Keeping
    BY <1>2, <1>4 DEF Keeping, Kept, ContainsEntry, EmptyData, NoEntry
  <1>6. OthersLoad(t)
    BY <1>4 DEF OthersLoad, Inductive, Loading
  <1> QED  BY <1>1, <1>2, <1>3, <1>5, <1>6, TaskStep

(* An operation that changes the manifest keeps it listed and returns. *)
LEMMA ChangeInductive ==
    ASSUME Inductive, NEW t \in Tasks, Return(t, "ok"), UNCHANGED <<disk, loaded, loader>>,
           loaded, mem' \in Data, Listing(mem', removed'), Keeping,
           removed \subseteq removed', removed' \subseteq Bundles \X Versions
    PROVE  Inductive'
  <1>1. TypeOK' /\ Elsewhere(t) /\ Placed(t)
    BY Returned DEF Inductive, TypeOK
  <1>2. Listing(disk'.data, removed')
    BY ListedMonotone DEF Inductive, CopiesListed
  <1>3. OthersLoad(t)  BY DEF OthersLoad, Inductive, Loading
  <1> QED  BY <1>1, <1>2, <1>3, TaskStep

LEMMA SetVersionInductive ==
    ASSUME Inductive, NEW t \in Tasks, SetVersion(t)
    PROVE  Inductive'
  <1> DEFINE b == call[t].b
             v == call[t].v
  <1>1. /\ b \in Bundles /\ v \in Versions /\ Kept(mem, removed, b, v) /\ loaded
        /\ mem \in Data /\ Listing(mem, removed) /\ removed \subseteq Bundles \X Versions
    BY DEF SetVersion, Inductive, Known, Loading, TypeOK, CopiesListed
  <1>2. mem' = SetCurrent(mem, b, v) /\ removed' = removed  BY DEF SetVersion
  <1> HIDE DEF b, v
  <1>3. mem' \in Data  BY <1>1, <1>2, SetCurrentType
  <1>4. \A c \in Bundles, w \in Versions : ContainsEntry(mem', c, w) <=> ContainsEntry(mem, c, w)
    BY <1>1, <1>2, SetCurrentKeeps
  <1>5. \A c \in Bundles : mem'[c].current = IF c = b /\ HasEntry(mem, b) THEN v ELSE mem[c].current
    BY <1>1, <1>2, SetCurrentKeeps
  <1>6. Keeping  BY <1>2, <1>4 DEF Keeping, Kept
  <1>7. Listing(mem', removed')
    <2> SUFFICES ASSUME NEW c \in Bundles, HasEntry(mem', c)
                 PROVE  Kept(mem', removed, c, mem'[c].current)
      BY <1>2 DEF Listing
    <2>1. CASE c = b /\ HasEntry(mem, b)
      BY <2>1, <1>1, <1>4, <1>5 DEF Kept
    <2>2. CASE ~(c = b /\ HasEntry(mem, b))
      <3>1. mem'[c].current = mem[c].current /\ HasEntry(mem, c)
        BY <2>2, <1>5 DEF HasEntry
      <3>2. mem[c].current \in Versions  BY <3>1, <1>1 DEF Data, Entry, HasEntry
      <3> QED  BY <3>1, <3>2, <1>1, <1>4 DEF Listing, Kept
    <2> QED  BY <2>1, <2>2
  <1> QED  BY <1>1, <1>2, <1>3, <1>6, <1>7, ChangeInductive DEF SetVersion

LEMMA InsertInductive ==
    ASSUME Inductive, NEW t \in Tasks, Insert(t)
    PROVE  Inductive'
  <1> DEFINE b == call[t].b
             v == call[t].v
             m == call[t].m
  <1>1. /\ b \in Bundles /\ v \in Versions /\ m \in Metas /\ loaded
        /\ mem \in Data /\ Listing(mem, removed) /\ removed \subseteq Bundles \X Versions
    BY CallArguments DEF Insert, Running, Inductive, TypeOK, CopiesListed, NoCall
  <1>2. mem' = InsertEntry(mem, b, v, m) /\ removed' = removed  BY DEF Insert
  <1> HIDE DEF b, v, m
  <1>3. mem' \in Data  BY <1>1, <1>2, InsertEntryType
  <1>4. \A c \in Bundles, w \in Versions :
           ContainsEntry(mem', c, w) <=> ContainsEntry(mem, c, w) \/ (c = b /\ w = v)
    BY <1>1, <1>2, InsertEntryLists
  <1>5. \A c \in Bundles : mem'[c].current = mem[c].current \/ (c = b /\ mem'[c].current = v)
    BY <1>1, <1>2, InsertEntryLists
  <1>6. Keeping  BY <1>2, <1>4 DEF Keeping, Kept
  <1>7. Listing(mem', removed')
    <2> SUFFICES ASSUME NEW c \in Bundles, HasEntry(mem', c)
                 PROVE  Kept(mem', removed, c, mem'[c].current)
      BY <1>2 DEF Listing
    <2>1. CASE c = b /\ mem'[c].current = v
      BY <2>1, <1>1, <1>4 DEF Kept
    <2>2. CASE mem'[c].current = mem[c].current
      <3>1. HasEntry(mem, c) /\ mem[c].current \in Versions
        BY <2>2, <1>1 DEF Data, Entry, HasEntry
      <3> QED  BY <2>2, <3>1, <1>1, <1>4 DEF Listing, Kept
    <2> QED  BY <2>1, <2>2, <1>5
  <1> QED  BY <1>1, <1>2, <1>3, <1>6, <1>7, ChangeInductive DEF Insert

LEMMA RemoveInductive ==
    ASSUME Inductive, NEW t \in Tasks, Remove(t)
    PROVE  Inductive'
  <1> DEFINE b == call[t].b
             v == call[t].v
  <1>1. /\ b \in Bundles /\ v \in Versions /\ loaded
        /\ mem \in Data /\ Listing(mem, removed) /\ removed \subseteq Bundles \X Versions
    BY CallArguments DEF Remove, Running, Inductive, TypeOK, CopiesListed, NoCall
  <1>2. CASE CanRemove(mem, b, v)
    <2>1. /\ mem' = RemoveEntry(mem, b, v) /\ removed' = removed \cup {<<b, v>>}
          /\ Return(t, "ok") /\ UNCHANGED <<disk, loaded, loader>>
      BY <1>2 DEF Remove
    <2> HIDE DEF b, v
    <2>2. mem' \in Data  BY <1>1, <2>1, RemoveEntryType
    <2>3. \A c \in Bundles, w \in Versions :
             ContainsEntry(mem', c, w) <=> ContainsEntry(mem, c, w) /\ ~(c = b /\ w = v)
      BY <1>1, <2>1, RemoveEntryLists
    <2>4. \A c \in Bundles : mem'[c].current = mem[c].current
      BY <1>1, <2>1, RemoveEntryLists
    <2>5. Keeping  BY <2>1, <2>3 DEF Keeping, Kept
    <2>6. Listing(mem', removed')
      <3> SUFFICES ASSUME NEW c \in Bundles, HasEntry(mem', c)
                   PROVE  Kept(mem', removed', c, mem'[c].current)
        BY DEF Listing
      <3>1. HasEntry(mem, c) /\ mem[c].current \in Versions /\ mem'[c].current = mem[c].current
        BY <2>4, <1>1 DEF Data, Entry, HasEntry
      <3>2. Kept(mem, removed, c, mem[c].current)  BY <3>1, <1>1 DEF Listing
      <3> QED  BY <3>1, <3>2, <2>5 DEF Keeping
    <2>7. removed \subseteq removed' /\ removed' \subseteq Bundles \X Versions
      BY <1>1, <2>1
    <2> QED  BY <1>1, <2>1, <2>2, <2>5, <2>6, <2>7, ChangeInductive
  <1>3. CASE ~CanRemove(mem, b, v)
    <2>1. /\ disk' \in [state : FileState, data : Data] /\ Listing(disk'.data, removed)
          /\ loader' \in Tasks \cup {None} /\ loader' = loader
          /\ UNCHANGED <<loaded, mem, removed>> /\ Return(t, "err")
      BY <1>3 DEF Remove, Inductive, TypeOK, CopiesListed
    <2> QED  BY <2>1, QuietReturn
  <1> QED  BY <1>2, <1>3

(* The process dies: all but the file starts anew. *)
LEMMA RestartInductive ==
    ASSUME Inductive, Restart
    PROVE  Inductive'
  <1>1. disk' \in [state : FileState, data : Data] /\ Listing(disk'.data, removed)
    BY UnreadableFile DEF Restart, FileState, Inductive, TypeOK, CopiesListed
  <1>2. TypeOK'
    BY <1>1, EmptyListed DEF Restart, Inductive, TypeOK, PC, Rest
  <1> QED
    BY <1>1, <1>2, EmptyListed DEF Restart, Inductive, Loading, Known, CopiesListed

LEMMA NextInductive == Inductive /\ [Next]_vars => Inductive'
  <1> SUFFICES ASSUME Inductive, [Next]_vars PROVE Inductive'  OBVIOUS
  <1>1. CASE Restart  BY <1>1, RestartInductive
  <1>2. ASSUME NEW t \in Tasks, Begin(t) \/ BeginLoad(t) \/ Progress(t)
        PROVE  Inductive'
    BY <1>2, BeginInductive, BeginLoadInductive, FinishLoadInductive, FailLoadInductive,
       ReadInductive, ReadVersionInductive, CheckUpdateInductive, SetVersionInductive,
       InsertInductive, RemoveInductive, TakeSnapshotInductive, OpenFileInductive, WriteInductive
    DEF Progress
  <1>3. CASE UNCHANGED vars
    BY <1>3 DEF vars, Inductive, TypeOK, Loading, Known, CopiesListed
  <1> QED  BY <1>1, <1>2, <1>3 DEF Next

-----------------------------------------------------------------------------
(* The theorems                                                            *)

LEMMA AlwaysInductive == Spec => []Inductive
  <1> QED  BY InitInductive, NextInductive, PTL DEF Spec

(* Every variable of the manifest and of its callers keeps its type. *)
THEOREM ManifestType == Spec => []TypeOK
  <1>1. Inductive => TypeOK  BY DEF Inductive
  <1> QED  BY <1>1, AlwaysInductive, PTL

(***************************************************************************)
(* In memory and on disk the current version of a bundle is listed, or was *)
(* removed: also when update_current_version sets what it checked before   *)
(* it gave up the lock, and when a save is overtaken by another one.       *)
(***************************************************************************)
THEOREM ManifestAlwaysWellFormed == Spec => []ManifestWellFormed
  <1>1. \A d \in Data : Listing(d, removed) => CurrentListed(d)
    BY DEF Listing, Kept, CurrentListed, CurrentVersion
  <1>2. Inductive => ManifestWellFormed
    BY <1>1 DEF Inductive, TypeOK, CopiesListed, ManifestWellFormed
  <1> QED  BY <1>2, AlwaysInductive, PTL

(* The second read of load_current_metadata finds what the first one named. *)
THEOREM VersionAlwaysListed == Spec => []VersionStillListed
  <1>1. Inductive => VersionStillListed
    BY DEF Inductive, Known, Kept, VersionStillListed
  <1> QED  BY <1>1, AlwaysInductive, PTL

\* A step that takes a version away: a remove_entry of this very version.
Delisting ==
    \A b \in Bundles, v \in Versions :
        loaded /\ loaded' /\ ContainsEntry(mem, b, v) /\ ~ContainsEntry(mem', b, v)
        => \E t \in Tasks : /\ pc[t] = "enter" /\ pc'[t] = "ok"
                            /\ call[t].op = "remove"
                            /\ call[t].b = b /\ call[t].v = v

LEMMA OneStepDelists == Inductive /\ [Next]_vars => Delisting
  <1> SUFFICES ASSUME Inductive, [Next]_vars,
                      NEW b \in Bundles, NEW v \in Versions,
                      loaded, loaded', ContainsEntry(mem, b, v), ~ContainsEntry(mem', b, v)
               PROVE  \E t \in Tasks : /\ pc[t] = "enter" /\ pc'[t] = "ok"
                                       /\ call[t].op = "remove"
                                       /\ call[t].b = b /\ call[t].v = v
    BY DEF Delisting
  <1>1. mem' # mem  OBVIOUS
  <1>2. ~Restart  BY DEF Restart
  <1>3. PICK t \in Tasks : FinishLoad(t) \/ SetVersion(t) \/ Insert(t) \/ Remove(t)
    BY <1>1, <1>2
    DEF Next, vars, Progress, Begin, BeginLoad, FailLoad, Read, ReadVersion, ReadMetadata,
        CheckUpdate, TakeSnapshot, OpenFile, WriteFile, FailSave
  <1>4. mem \in Data  BY DEF Inductive, TypeOK
  <1>5. ~FinishLoad(t)  BY DEF FinishLoad, Inductive, Loading
  <1>6. ~SetVersion(t)
    <2> SUFFICES ASSUME SetVersion(t) PROVE FALSE  OBVIOUS
    <2>1. call[t].b \in Bundles /\ call[t].v \in Versions
      BY DEF SetVersion, Inductive, Known
    <2>2. mem' = SetCurrent(mem, call[t].b, call[t].v)  BY DEF SetVersion
    <2> QED  BY <1>4, <2>1, <2>2, SetCurrentKeeps
  <1>7. ~Insert(t)
    <2> SUFFICES ASSUME Insert(t) PROVE FALSE  OBVIOUS
    <2>1. call[t].b \in Bundles /\ call[t].v \in Versions /\ call[t].m \in Metas
      BY CallArguments DEF Insert, Running, Inductive, TypeOK, NoCall
    <2>2. mem' = InsertEntry(mem, call[t].b, call[t].v, call[t].m)  BY DEF Insert
    <2> QED  BY <1>4, <2>1, <2>2, InsertEntryLists
  <1>8. Remove(t) /\ CanRemove(mem, call[t].b, call[t].v)
    BY <1>1, <1>3, <1>5, <1>6, <1>7 DEF Remove
  <1>9. call[t].b \in Bundles /\ call[t].v \in Versions /\ call[t].op = "remove"
    BY <1>8, CallArguments DEF Remove, Running, Inductive, TypeOK, NoCall
  <1>10. mem' = RemoveEntry(mem, call[t].b, call[t].v) /\ Return(t, "ok")
    BY <1>8 DEF Remove
  <1>11. call[t].b = b /\ call[t].v = v
    BY <1>4, <1>9, <1>10, RemoveEntryLists
  <1>12. pc[t] = "enter" /\ pc'[t] = "ok"
    BY <1>8, <1>10 DEF Remove, Running, Return, Inductive, TypeOK
  <1> QED  BY <1>9, <1>11, <1>12

(***************************************************************************)
(* Nothing but remove_entry delists a version of a running process: no     *)
(* late load overwrites what was inserted, for there is one load, before   *)
(* any operation, and no operation replaces the versions of a bundle.      *)
(***************************************************************************)
THEOREM NothingElseDelists == Spec => OnlyRemoveDelists
  <1>1. Spec => [][Delisting]_vars
    BY OneStepDelists, AlwaysInductive, PTL DEF Spec
  <1> QED  BY <1>1 DEF OnlyRemoveDelists, Delisting
-----------------------------------------------------------------------------
(* A step keeps the permit with the caller that reads the file, or frees it. *)
LEMMA NextWaits == Inductive /\ WaitsForLiveLoad /\ [Next]_vars => WaitsForLiveLoad'
  <1> SUFFICES ASSUME Inductive, WaitsForLiveLoad, [Next]_vars, loader' # None
               PROVE  pc'[loader'] = "loading" /\ ~loaded'
    BY DEF WaitsForLiveLoad
  <1>1. ASSUME NEW t \in Tasks, BeginLoad(t)
        PROVE  pc'[loader'] = "loading" /\ ~loaded'
    BY <1>1 DEF BeginLoad, Inductive, TypeOK
  <1>2. ASSUME NEW t \in Tasks, FinishLoad(t) \/ FailLoad(t)
        PROVE  FALSE
    BY <1>2 DEF FinishLoad, FailLoad
  <1>3. ASSUME NEW t \in Tasks,
               \/ Begin(t) \/ Read(t) \/ ReadVersion(t) \/ ReadMetadata(t) \/ CheckUpdate(t)
               \/ SetVersion(t) \/ Insert(t) \/ Remove(t)
               \/ TakeSnapshot(t) \/ OpenFile(t) \/ WriteFile(t) \/ FailSave(t)
        PROVE  pc'[loader'] = "loading" /\ ~loaded'
    <2>1. UNCHANGED <<loader, loaded>> /\ pc[t] # "loading"
      BY <1>3 DEF Begin, Read, ReadVersion, ReadMetadata, CheckUpdate, SetVersion, Insert, Remove,
                  TakeSnapshot, OpenFile, WriteFile, FailSave, Running, Rest
    <2>2. pc[loader] = "loading" /\ ~loaded /\ loader # t  BY <2>1 DEF WaitsForLiveLoad
    <2>3. \A u \in Tasks \ {t} : pc'[u] = pc[u]
      BY <1>3 DEF Begin, Read, ReadVersion, ReadMetadata, CheckUpdate, SetVersion, Insert, Remove,
                  TakeSnapshot, OpenFile, WriteFile, FailSave, Return, Inductive, TypeOK
    <2>4. QED  BY <2>1, <2>2, <2>3 DEF Inductive, TypeOK
  <1>4. CASE Restart  BY <1>4 DEF Restart
  <1>5. CASE UNCHANGED vars  BY <1>5 DEF vars, WaitsForLiveLoad
  <1> QED  BY <1>1, <1>2, <1>3, <1>4, <1>5 DEF Next, Progress

(***************************************************************************)
(* load(): with any number of callers, failing loads and restarts, a       *)
(* caller that waits waits for one that reads the file.                    *)
(***************************************************************************)
THEOREM WaitsAreForLiveLoads == Spec => []WaitsForLiveLoad
  <1>1. Init => WaitsForLiveLoad  BY DEF Init, WaitsForLiveLoad
  <1> QED  BY <1>1, InitInductive, NextInductive, NextWaits, PTL DEF Spec
=============================================================================
