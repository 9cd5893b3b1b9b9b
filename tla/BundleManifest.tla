--------------------------- MODULE BundleManifest ---------------------------
(***************************************************************************)
(* BundleManifest<ReadWrite> of packages/core/src/source/manifest.rs: a    *)
(* manifest.json file, the copy of it that one process holds in            *)
(* OnceCell<RwLock<BundleManifestData>>, and the tasks that call it.       *)
(*                                                                         *)
(* A step ends where the code awaits or releases the lock: the first load  *)
(* of the file (one initialiser at a time, a failure leaves the cell       *)
(* empty), the body of an operation under its read or write guard, and,    *)
(* for save(), taking the snapshot, truncating the file, writing it.       *)
(***************************************************************************)
EXTENDS ManifestData

CONSTANTS
    Tasks,      \* concurrent callers
    Ops,        \* the operations those callers use
    Faults      \* what may go wrong: "crash", "io"

ASSUME OpsAssumption ==
    /\ Ops \subseteq {"read", "metadata", "update", "insert", "remove", "save"}
    /\ Faults \subseteq {"crash", "io"}
    /\ None \notin Bundles \cup Tasks

VARIABLES
    disk,       \* manifest.json: absent, empty, torn, or whole with its data
    loaded,     \* the OnceCell holds a value
    mem,        \* that value
    loader,     \* the task running the cell's initialiser, or None
    pc,         \* where each task stands; "ok"/"err" is its last result
    call,       \* the operation it runs, with its arguments
    ver,        \* load_current_metadata: the version read first
    snap,       \* save: the serialised data
    removed     \* history: what remove_entry has ever removed

vars == <<disk, loaded, mem, loader, pc, call, ver, snap, removed>>

Call ==
    [op : {"read"}, b : Bundles, v : {None}, m : {None}]
    \cup [op : {"metadata"}, b : Bundles, v : {None}, m : {None}]
    \cup [op : {"update", "remove"}, b : Bundles, v : Versions, m : {None}]
    \cup [op : {"insert"}, b : Bundles, v : Versions, m : Metas]
    \cup [op : {"save"}, b : {None}, v : {None}, m : {None}]

NoCall == [op |-> "none", b |-> None, v |-> None, m |-> None]

Rest == {"idle", "ok", "err"}

PC == Rest \cup {"enter", "loading", "version", "checked", "snapshot", "opened"}

FileState == {"absent", "empty", "torn", "whole"}

Whole(d) == [state |-> "whole", data |-> d]

Unreadable(s) == [state |-> s, data |-> EmptyData]

Saving == {t \in Tasks : pc[t] = "opened"}

-----------------------------------------------------------------------------

(* The file is missing, or was written by an earlier run of the program. *)
Init ==
    /\ disk \in {Unreadable("absent")} \cup {Whole(d) : d \in {x \in Data : WellFormed(x)}}
    /\ loaded = FALSE
    /\ mem = EmptyData
    /\ loader = None
    /\ pc = [t \in Tasks |-> "idle"]
    /\ call = [t \in Tasks |-> NoCall]
    /\ ver = [t \in Tasks |-> None]
    /\ snap = [t \in Tasks |-> EmptyData]
    /\ removed = {}

Begin(t) ==
    /\ pc[t] \in Rest
    /\ \E c \in Call :
        /\ c.op \in Ops
        /\ call' = [call EXCEPT ![t] = c]
    /\ pc' = [pc EXCEPT ![t] = "enter"]
    /\ UNCHANGED <<disk, loaded, mem, loader, ver, snap, removed>>

(* The call returns: its arguments and locals are gone. *)
Return(t, result) ==
    /\ pc' = [pc EXCEPT ![t] = result]
    /\ call' = [call EXCEPT ![t] = NoCall]
    /\ ver' = [ver EXCEPT ![t] = None]
    /\ snap' = [snap EXCEPT ![t] = EmptyData]

-----------------------------------------------------------------------------
(* load(): get_or_try_init                                                 *)

\* Mutated form: every caller runs the initialiser.
BeginLoadUnshared(t) ==
    /\ pc[t] = "enter"
    /\ ~loaded
    /\ loader' = t
    /\ pc' = [pc EXCEPT ![t] = "loading"]
    /\ UNCHANGED <<disk, loaded, mem, call, ver, snap, removed>>

BeginLoad(t) ==
    /\ pc[t] = "enter"
    /\ ~loaded
    /\ loader = None
    /\ loader' = t
    /\ pc' = [pc EXCEPT ![t] = "loading"]
    /\ UNCHANGED <<disk, loaded, mem, call, ver, snap, removed>>

(* A missing file is an empty manifest. *)
FinishLoad(t) ==
    /\ pc[t] = "loading"
    /\ disk.state \in {"absent", "whole"}
    /\ mem' = disk.data
    /\ loaded' = TRUE
    /\ loader' = None
    /\ pc' = [pc EXCEPT ![t] = "enter"]
    /\ UNCHANGED <<disk, call, ver, snap, removed>>

\* Mutated form: an initialiser that fails keeps the cell's permit.
FailLoadKeepingPermit(t) ==
    /\ pc[t] = "loading"
    /\ disk.state \in {"empty", "torn"} \/ "io" \in Faults
    /\ Return(t, "err")
    /\ UNCHANGED <<disk, loaded, mem, loader, removed>>

(* Unparsable or unreadable: the cell stays empty, the next caller retries. *)
FailLoad(t) ==
    /\ pc[t] = "loading"
    /\ disk.state \in {"empty", "torn"} \/ "io" \in Faults
    /\ loader' = None
    /\ Return(t, "err")
    /\ UNCHANGED <<disk, loaded, mem, removed>>

-----------------------------------------------------------------------------
(* The operations, once the cell is loaded                                 *)

Running(t, op) == pc[t] = "enter" /\ loaded /\ call[t].op = op

(* list_entries, contains_entry, load_current_version, load_metadata *)
Read(t) ==
    /\ Running(t, "read")
    /\ Return(t, "ok")
    /\ UNCHANGED <<disk, loaded, mem, loader, removed>>

(* load_current_metadata releases the lock between its two reads. *)
ReadVersion(t) ==
    /\ Running(t, "metadata")
    /\ IF HasEntry(mem, call[t].b)
       THEN /\ ver' = [ver EXCEPT ![t] = CurrentVersion(mem, call[t].b)]
            /\ pc' = [pc EXCEPT ![t] = "version"]
            /\ UNCHANGED <<call, snap>>
       ELSE Return(t, "ok")
    /\ UNCHANGED <<disk, loaded, mem, loader, removed>>

ReadMetadata(t) ==
    /\ pc[t] = "version"
    /\ Return(t, "ok")
    /\ UNCHANGED <<disk, loaded, mem, loader, removed>>

\* Mutated form: the version to activate is not looked up.
CheckUpdateBlindly(t) ==
    /\ Running(t, "update")
    /\ pc' = [pc EXCEPT ![t] = "checked"]
    /\ UNCHANGED <<disk, loaded, mem, loader, call, ver, snap, removed>>

(* update_current_version: contains_entry takes and releases a read guard... *)
CheckUpdate(t) ==
    /\ Running(t, "update")
    /\ IF ContainsEntry(mem, call[t].b, call[t].v)
       THEN pc' = [pc EXCEPT ![t] = "checked"] /\ UNCHANGED <<call, ver, snap>>
       ELSE Return(t, "err")
    /\ UNCHANGED <<disk, loaded, mem, loader, removed>>

(* ...and the version is set later, under a write guard. *)
SetVersion(t) ==
    /\ pc[t] = "checked"
    /\ mem' = SetCurrent(mem, call[t].b, call[t].v)
    /\ Return(t, "ok")
    /\ UNCHANGED <<disk, loaded, loader, removed>>

Insert(t) ==
    /\ Running(t, "insert")
    /\ mem' = InsertEntry(mem, call[t].b, call[t].v, call[t].m)
    /\ Return(t, "ok")
    /\ UNCHANGED <<disk, loaded, loader, removed>>

Remove(t) ==
    /\ Running(t, "remove")
    /\ IF CanRemove(mem, call[t].b, call[t].v)
       THEN /\ mem' = RemoveEntry(mem, call[t].b, call[t].v)
            /\ removed' = removed \cup {<<call[t].b, call[t].v>>}
            /\ Return(t, "ok")
       ELSE UNCHANGED <<mem, removed>> /\ Return(t, "err")
    /\ UNCHANGED <<disk, loaded, loader>>

-----------------------------------------------------------------------------
(* save(): serialise under the read guard, then tokio::fs::write           *)

TakeSnapshot(t) ==
    /\ Running(t, "save")
    /\ snap' = [snap EXCEPT ![t] = mem]
    /\ pc' = [pc EXCEPT ![t] = "snapshot"]
    /\ UNCHANGED <<disk, loaded, mem, loader, call, ver, removed>>

(* fs::write opens the file with O_TRUNC *)
OpenFile(t) ==
    /\ pc[t] = "snapshot"
    /\ disk' = Unreadable("empty")
    /\ pc' = [pc EXCEPT ![t] = "opened"]
    /\ UNCHANGED <<loaded, mem, loader, call, ver, snap, removed>>

(***************************************************************************)
(* Every writer writes from offset 0.  Over an emptied file the result is  *)
(* the snapshot; over what another save wrote in the meantime it is the    *)
(* snapshot, or the snapshot followed by the rest of a longer text.        *)
(***************************************************************************)
WriteFile(t) ==
    /\ pc[t] = "opened"
    /\ disk' \in {Whole(snap[t])}
                 \cup IF disk \in {Unreadable("empty"), Whole(snap[t])}
                      THEN {} ELSE {Unreadable("torn")}
    /\ Return(t, "ok")
    /\ UNCHANGED <<loaded, mem, loader, removed>>

(* create_dir_all or the open fails, or the write stops half-way *)
FailSave(t) ==
    /\ "io" \in Faults
    /\ \/ pc[t] = "snapshot" /\ UNCHANGED disk
       \/ pc[t] = "opened" /\ disk' \in {disk, Unreadable("torn")}
    /\ Return(t, "err")
    /\ UNCHANGED <<loaded, mem, loader, removed>>

(* The process dies and starts again: only the file survives. *)
Restart ==
    /\ "crash" \in Faults
    /\ disk' \in {disk} \cup IF Saving = {} THEN {} ELSE {Unreadable("torn")}
    /\ loaded' = FALSE
    /\ mem' = EmptyData
    /\ loader' = None
    /\ pc' = [t \in Tasks |-> "idle"]
    /\ call' = [t \in Tasks |-> NoCall]
    /\ ver' = [t \in Tasks |-> None]
    /\ snap' = [t \in Tasks |-> EmptyData]
    /\ UNCHANGED removed

-----------------------------------------------------------------------------

Progress(t) ==
    \/ FinishLoad(t) \/ FailLoad(t)
    \/ Read(t) \/ ReadVersion(t) \/ ReadMetadata(t)
    \/ CheckUpdate(t) \/ SetVersion(t) \/ Insert(t) \/ Remove(t)
    \/ TakeSnapshot(t) \/ OpenFile(t) \/ WriteFile(t) \/ FailSave(t)

Next == Restart \/ \E t \in Tasks : Begin(t) \/ BeginLoad(t) \/ Progress(t)

Spec == Init /\ [][Next]_vars

(***************************************************************************)
(* tokio polls a ready task again, and the OnceCell's semaphore hands its  *)
(* permit to the waiters in the order they came: a waiter that finds the   *)
(* permit free again and again gets it.                                    *)
(***************************************************************************)
FairSpec ==
    Spec /\ \A t \in Tasks : WF_vars(Progress(t)) /\ SF_vars(BeginLoad(t))

-----------------------------------------------------------------------------
(* Properties                                                              *)

(* Every variable of the manifest and of its callers keeps its type. *)
TypeOK ==
    /\ disk \in [state : FileState, data : Data]
    /\ loaded \in BOOLEAN
    /\ mem \in Data
    /\ loader \in Tasks \cup {None}
    /\ pc \in [Tasks -> PC]
    /\ call \in [Tasks -> Call \cup {NoCall}]
    /\ ver \in [Tasks -> Versions \cup {None}]
    /\ snap \in [Tasks -> Data]
    /\ removed \subseteq Bundles \X Versions

\* The current version of every bundle is listed, or was removed.
CurrentListed(d) ==
    \A b \in Bundles :
        LET v == CurrentVersion(d, b)
        IN  HasEntry(d, b) => ContainsEntry(d, b, v) \/ <<b, v>> \in removed

(***************************************************************************)
(* The current version of a bundle is one of its listed versions, in the   *)
(* loaded manifest and in a manifest.json that parses, unless remove_entry *)
(* removed that version (between the check and the set of                  *)
(* update_current_version: it refuses the current one).  It is what lets   *)
(* BundleSource, which never removes an entry, open a file for whatever    *)
(* load_current_version returns.                                           *)
(***************************************************************************)
ManifestWellFormed ==
    /\ loaded => CurrentListed(mem)
    /\ disk.state = "whole" => CurrentListed(disk.data)

(***************************************************************************)
(* The two reads of load_current_metadata agree: unless it was removed,    *)
(* the version the first one returned is still listed when the second one  *)
(* looks its metadata up, so a bundle that has an entry is never reported  *)
(* as having no metadata.                                                  *)
(***************************************************************************)
VersionStillListed ==
    \A t \in Tasks :
        pc[t] = "version" =>
            ContainsEntry(mem, call[t].b, ver[t]) \/ <<call[t].b, ver[t]>> \in removed

(***************************************************************************)
(* A version that was inserted leaves the manifest of a running process    *)
(* only through remove_entry: no late load of the file, and no other       *)
(* caller's operation, takes it away.                                      *)
(***************************************************************************)
OnlyRemoveDelists ==
    [][ \A b \in Bundles, v \in Versions :
          loaded /\ loaded' /\ ContainsEntry(mem, b, v) /\ ~ContainsEntry(mem', b, v)
          => \E t \in Tasks : /\ pc[t] = "enter" /\ pc'[t] = "ok"
                              /\ call[t].op = "remove"
                              /\ call[t].b = b /\ call[t].v = v ]_vars

(***************************************************************************)
(* Who waits in load() waits for a caller that reads the file, and for one *)
(* whose value is still wanted: OnceCell's permit never stays behind with  *)
(* a caller whose load has ended, failed or not.                           *)
(***************************************************************************)
WaitsForLiveLoad == loader # None => pc[loader] = "loading" /\ ~loaded

(* Every call returns, also when the file cannot be loaded. *)
CallsReturn == \A t \in Tasks : pc[t] \notin Rest ~> pc[t] \in Rest
=============================================================================
