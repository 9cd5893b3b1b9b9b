---------------------------- MODULE ManifestData ----------------------------
(***************************************************************************)
(* The value a bundle manifest holds, and the pure effect of each of its   *)
(* operations on that value (packages/core/src/source/manifest.rs).        *)
(*                                                                         *)
(* A manifest maps a bundle to an entry: the metadata of every listed      *)
(* version and the version that is current.  An entry without a current    *)
(* version stands for "the manifest has no entry for this bundle": the     *)
(* code's entry always has a currentVersion.                               *)
(***************************************************************************)

CONSTANTS
    Bundles,    \* bundle names
    Versions,   \* version strings
    Metas,      \* values of BundleManifestMetadata
    None        \* absence: of an entry, of a version

ASSUME NoneAssumption == None \notin Versions /\ None \notin Metas

Entry == [current : Versions \cup {None}, meta : [Versions -> Metas \cup {None}]]

Data == [Bundles -> Entry]

NoEntry == [current |-> None, meta |-> [v \in Versions |-> None]]

EmptyData == [b \in Bundles |-> NoEntry]

HasEntry(d, b) == d[b].current # None

Listed(d, b) == {v \in Versions : d[b].meta[v] # None}

ContainsEntry(d, b, v) == d[b].meta[v] # None

(* load_current_version: what the entry says, listed or not *)
CurrentVersion(d, b) == d[b].current

LoadMetadata(d, b, v) == d[b].meta[v]

\* Mutated form: the version inserted last becomes current.
InsertActivating(d, b, v, m) ==
    IF ContainsEntry(d, b, v)
    THEN d
    ELSE [d EXCEPT ![b] = [current |-> v, meta |-> [d[b].meta EXCEPT ![v] = m]]]

(***************************************************************************)
(* insert_entry: a version that is listed already keeps its metadata; the  *)
(* first version of a bundle becomes current, a later one does not.        *)
(***************************************************************************)
InsertEntry(d, b, v, m) ==
    IF ContainsEntry(d, b, v)
    THEN d
    ELSE [d EXCEPT ![b] = [current |-> IF HasEntry(d, b) THEN d[b].current ELSE v,
                           meta    |-> [d[b].meta EXCEPT ![v] = m]]]

(* the second half of update_current_version, under the write lock *)
SetCurrent(d, b, v) ==
    IF HasEntry(d, b)
    THEN [d EXCEPT ![b] = [current |-> v, meta |-> d[b].meta]]
    ELSE d

(* remove_entry refuses the version that is current *)
CanRemove(d, b, v) == ~(HasEntry(d, b) /\ d[b].current = v)

RemoveEntry(d, b, v) ==
    [d EXCEPT ![b] = [current |-> d[b].current, meta |-> [d[b].meta EXCEPT ![v] = None]]]

(***************************************************************************)
(* What every manifest should satisfy: a bundle without an entry lists     *)
(* nothing, and the current version is one of the listed ones.             *)
(***************************************************************************)
CurrentIsListed(d) ==
    \A b \in Bundles : HasEntry(d, b) => ContainsEntry(d, b, d[b].current)

AbsentListsNothing(d) ==
    \A b \in Bundles : ~HasEntry(d, b) => Listed(d, b) = {}

WellFormed(d) == CurrentIsListed(d) /\ AbsentListsNothing(d)
=============================================================================
