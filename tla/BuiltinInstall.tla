--------------------------- MODULE BuiltinInstall ---------------------------
(***************************************************************************)
(* wvb builtin (packages/cli/src/api/builtin.ts): the bundles that a       *)
(* remote lists are downloaded, several at a time, into the directory an   *)
(* application is built with, and manifest.json is written last.  Versions *)
(* are deployed meanwhile; downloads, writes and the process fail.  A run  *)
(* with --write false writes nothing and is left out.                      *)
(***************************************************************************)
EXTENDS CliConfig, Naturals, FiniteSets

CONSTANTS
    RemoteNames, RemoteVersions,
    Concurrency,       \* downloads at a time
    Filters,           \* settings to choose from: the matches of include and of exclude
    MaxRemoteDeploys   \* bound

VARIABLES
    deployed,   \* the remote: name -> version, or Unset
    deploys,    \* history: number of deploys
    dir,        \* the directory: its manifest, and name and version -> "torn" or "whole"
    install,    \* the run of the command
    outcome     \* how the last run ended, and whether it had emptied the directory

builtinVars == <<deployed, deploys, dir, install, outcome>>

NoInstall == [step |-> "none"]

NoOutcome == [end |-> "none", cleaned |-> FALSE, selected |-> {}]

BuiltinInit ==
    /\ deployed \in [RemoteNames -> RemoteVersions \cup {Unset}]
    /\ deploys = 0
    /\ dir = [manifest |-> Unset, files |-> << >>]
    /\ install = NoInstall
    /\ outcome = NoOutcome

RemoteDeploy(n, v) ==
    /\ deploys < MaxRemoteDeploys /\ deployed[n] # v
    /\ deployed' = [deployed EXCEPT ![n] = v]
    /\ deploys' = deploys + 1
    /\ UNCHANGED <<dir, install, outcome>>

\* The directory is removed, if it is there and clean is set ...
StartInstall(clean, filter) ==
    /\ install = NoInstall
    /\ install' = [step |-> IF clean THEN "clean" ELSE "list", clean |-> clean,
                   filter |-> filter, selected |-> {},
                   todo |-> {}, active |-> << >>, entries |-> << >>, failed |-> {}]
    /\ outcome' = NoOutcome
    /\ UNCHANGED <<deployed, deploys, dir>>

\* ... one file after the other, in any order.
RemoveOne ==
    /\ install.step = "clean"
    /\ \/ /\ dir.manifest # Unset
          /\ dir' = [dir EXCEPT !.manifest = Unset] /\ UNCHANGED install
       \/ \E f \in DOMAIN dir.files :
             /\ dir' = [dir EXCEPT !.files = [g \in DOMAIN @ \ {f} |-> @[g]]] /\ UNCHANGED install
       \/ /\ dir.manifest = Unset /\ dir.files = << >>
          /\ install' = [install EXCEPT !.step = "list"] /\ UNCHANGED dir
    /\ UNCHANGED <<deployed, deploys, outcome>>

EndInstall(end) ==
    /\ install' = NoInstall
    /\ outcome' = [end |-> end, cleaned |-> install.clean /\ install.step # "clean",
                   selected |-> install.selected]

Selected ==
    {n \in RemoteNames :
        /\ deployed[n] # Unset
        /\ IsInMatches(n, install.filter.include, TRUE)
        /\ ~ IsInMatches(n, install.filter.exclude, FALSE)}

\* The remote is asked for its bundles.  None to install is an error, and so is
\* a remote that does not answer.
ListBundles ==
    /\ install.step = "list"
    /\ \/ /\ Selected # {}
          /\ install' = [install EXCEPT !.step = "install", !.selected = Selected, !.todo = Selected]
          /\ UNCHANGED outcome
       \/ EndInstall("failed")
    /\ UNCHANGED <<deployed, deploys, dir>>

\* A download starts while fewer than the limit are under way, and brings the
\* version that is deployed when it is answered: the entry is that version's.
Download(n) ==
    /\ install.step = "install" /\ n \in install.todo
    /\ Cardinality(DOMAIN install.active) < Concurrency
    /\ install' = [install EXCEPT
            !.todo = @ \ {n},
            !.active = [a \in DOMAIN @ \cup {n} |-> IF a = n THEN deployed[n] ELSE @[a]],
            !.entries = [e \in DOMAIN @ \cup {n} |-> IF e = n THEN deployed[n] ELSE @[e]]]
    /\ UNCHANGED <<deployed, deploys, dir, outcome>>

FileOf(n) == <<n, install.active[n]>>

SetFile(f, state) == [dir EXCEPT !.files = [g \in DOMAIN @ \cup {f} |-> IF g = f THEN state ELSE @[g]]]

Ended(n) == [a \in DOMAIN install.active \ {n} |-> install.active[a]]

\* writeFile empties a file that is there, and fills it.
BeginWrite(n) ==
    /\ install.step = "install" /\ n \in DOMAIN install.active
    /\ dir' = SetFile(FileOf(n), "torn")
    /\ UNCHANGED <<deployed, deploys, install, outcome>>

EndWrite(n) ==
    /\ install.step = "install" /\ n \in DOMAIN install.active
    /\ FileOf(n) \in DOMAIN dir.files /\ dir.files[FileOf(n)] = "torn"
    /\ dir' = SetFile(FileOf(n), "whole")
    /\ install' = [install EXCEPT !.active = Ended(n)]
    /\ UNCHANGED <<deployed, deploys, outcome>>

\* The download or the write fails: the other installs go on.
FailOne(n) ==
    /\ install.step = "install" /\ n \in install.todo \cup DOMAIN install.active
    /\ install' = [install EXCEPT !.todo = @ \ {n}, !.failed = @ \cup {n}, !.active = Ended(n)]
    /\ UNCHANGED <<deployed, deploys, dir, outcome>>

\* Mutated form: the failures are only reported.
MayWriteManifestAlways == TRUE

(* The check between the installs and the manifest. *)
MayWriteManifest == install.failed = {}

\* All installs are over: the manifest is opened, if none of them failed ...
FinishInstall ==
    /\ install.step = "install" /\ install.todo = {} /\ DOMAIN install.active = {}
    /\ \/ /\ MayWriteManifest
          /\ dir' = [dir EXCEPT !.manifest = Torn]
          /\ install' = [install EXCEPT !.step = "manifest"]
          /\ UNCHANGED outcome
       \/ ~ MayWriteManifest /\ UNCHANGED dir /\ EndInstall("failed")
    /\ UNCHANGED <<deployed, deploys>>

\* ... and written.
WriteManifest ==
    /\ install.step = "manifest"
    /\ dir' = [dir EXCEPT !.manifest = install.entries]
    /\ EndInstall("installed")
    /\ UNCHANGED <<deployed, deploys>>

\* Removing the directory fails, or the manifest is not opened or not written
\* to its end: the command reports it and ends with 1.
FailInstall ==
    /\ \/ install.step \in {"clean", "manifest"}
       \/ install.step = "install" /\ install.todo = {} /\ DOMAIN install.active = {}
    /\ EndInstall("failed")
    /\ UNCHANGED <<deployed, deploys, dir>>

\* The process is lost: what was done remains.
LoseInstall ==
    /\ install # NoInstall
    /\ EndInstall("lost")
    /\ UNCHANGED <<deployed, deploys, dir>>

BuiltinNext ==
    \/ \E n \in RemoteNames :
          \/ \E v \in RemoteVersions : RemoteDeploy(n, v)
          \/ Download(n) \/ BeginWrite(n) \/ EndWrite(n) \/ FailOne(n)
    \/ \E clean \in BOOLEAN, filter \in Filters : StartInstall(clean, filter)
    \/ RemoveOne \/ ListBundles \/ FinishInstall \/ WriteManifest \/ FailInstall \/ LoseInstall

BuiltinSpec == BuiltinInit /\ [][BuiltinNext]_builtinVars

-----------------------------------------------------------------------------
(* Properties                                                              *)

\* A run that says it has installed the bundles leaves a manifest that names
\* each of those it selected, every one in a whole file of the version it
\* names, whatever was deployed since they were listed, and whatever earlier
\* runs left in the directory.  One that fails after it has emptied the
\* directory leaves none that can be read (builtin.ts:102-175).
BuiltinManifestWhole ==
    /\ outcome.end = "installed" =>
          /\ DOMAIN dir.manifest = outcome.selected
          /\ \A n \in DOMAIN dir.manifest :
                /\ <<n, dir.manifest[n]>> \in DOMAIN dir.files
                /\ dir.files[<<n, dir.manifest[n]>>] = "whole"
    /\ outcome.end = "failed" /\ outcome.cleaned => dir.manifest \in {Unset, Torn}
=============================================================================
