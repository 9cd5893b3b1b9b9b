------------------------------ MODULE Updater ------------------------------
(***************************************************************************)
(* The updater (packages/core/src/updater/updater.rs) with the client of   *)
(* the remote (packages/core/src/remote/remote.rs): applications ask which *)
(* version is deployed, compare it with the one they run, download it,     *)
(* check it and install it through the bundle source.                      *)
(*                                                                         *)
(* What the source does inside is the subject of module BundleSource; here *)
(* its manifest is the data of module ManifestData, changed by whole calls *)
(* as the abstract VersionStore changes.  The remote server is external:   *)
(* its answers are the members of the constant Responses.                  *)
(***************************************************************************)
EXTENDS ManifestData, Naturals

CONSTANTS
    Tasks,       \* applications (windows) that use one updater
    Builtin,     \* Bundles -> Versions \cup {None}: the versions shipped
    Orders,      \* the orders in which an index may be written
    Responses,   \* what the server may answer, see ResponseSet
    Sound,       \* those of a server that works as it should
    Signed,      \* the texts the publisher has signed
    Configs,     \* what an UpdaterConfig may be, see ConfigSet
    MaxEvents    \* deployments and downloads of a given version

Contents == {"published", "other"}

\* The bytes of a bundle file: what is in it, and the order in which its index,
\* a HashMap, has been written.
Texts == [content : Contents, order : Orders]

\* Integrity::compute: the digest of a text, as the updater computes it.
Digest(text) == [alg |-> "sha3", of |-> text]

\* makeIntegrity: what `wvb remote upload` announces as the digest of a text.
MakeIntegrity(text) == [alg |-> "sha2", of |-> text]

\* signSignature: what `wvb remote upload` announces as the signature of an
\* integrity text, with every algorithm: the Base64 text of it.
SignSignature == "base64"

\* The headers and the body of an answer to a GET.  A signature that does verify
\* may be given as a text in Base64, or as a text that has its bytes.
ResponseSet ==
    [integrity : {Digest(x) : x \in Texts} \cup {MakeIntegrity(x) : x \in Texts} \cup {None},
     signature : {None, "base64", "bytes", "invalid"},
     body : Texts]

\* UpdaterConfig: the integrity policy, and the verifier of signatures: none, one
\* of the five algorithms of the core, or a function of the application.
ConfigSet == [policy : {"strict", "optional", "none"}, verifier : {"none", "builtin", "custom"}]

ASSUME UpdaterAssumption ==
    /\ Builtin \in [Bundles -> Versions \cup {None}]
    /\ Responses \subseteq ResponseSet /\ Responses \subseteq Metas /\ None \notin ResponseSet
    /\ Sound \subseteq Responses
    /\ Signed \subseteq Texts
    /\ Configs \subseteq ConfigSet
    /\ MaxEvents \in Nat

VARIABLES
    config,      \* the configuration of the updater
    deployed,    \* the server: the current version of each bundle
    events,      \* how many deployments and downloads of a given version there were
    manifest,    \* the remote manifest of the source
    file,        \* the installed files, each with the headers of its answer
    task

vars == <<config, deployed, events, manifest, file, task>>

Idle == [pc |-> "idle", bundle |-> None, version |-> None, response |-> None]

Pcs == {"idle", "load", "decided", "check", "verify", "install", "switch", "failed"}

Installable == Responses \cup {None}

TypeOK ==
    /\ config \in Configs
    /\ deployed \in [Bundles -> Versions]
    /\ events \in 0..MaxEvents
    /\ manifest \in Data
    /\ file \in [Bundles -> [Versions -> ResponseSet \cup {None}]]
    /\ task \in [Tasks -> [pc : Pcs, bundle : Bundles \cup {None},
                           version : Versions \cup {None}, response : Installable]]

Init ==
    /\ config \in Configs
    /\ deployed \in [Bundles -> Versions]
    /\ events = 0
    /\ manifest = EmptyData
    /\ file = [b \in Bundles |-> [v \in Versions |-> None]]
    /\ task = [t \in Tasks |-> Idle]

\* BundleSource::load_version: the remote version before the builtin one.
LoadVersion(b) == IF HasEntry(manifest, b) THEN CurrentVersion(manifest, b) ELSE Builtin[b]

-----------------------------------------------------------------------------
(* The server                                                              *)

Deploy(b, v) ==
    /\ events < MaxEvents
    /\ deployed[b] # v
    /\ deployed' = [deployed EXCEPT ![b] = v]
    /\ events' = events + 1
    /\ UNCHANGED <<config, manifest, file, task>>

-----------------------------------------------------------------------------
(* get_update                                                              *)

\* get_current_info: HEAD /bundles/:name.
GetCurrentInfo(t, b) ==
    /\ task[t].pc = "idle"
    /\ task' = [task EXCEPT ![t] = [Idle EXCEPT !.pc = "load", !.bundle = b,
                                                !.version = deployed[b]]]
    /\ UNCHANGED <<config, deployed, events, manifest, file>>

\* Mutated form: a version that is listed already is no update.
IsAvailableUnlisted(t) == ~ ContainsEntry(manifest, task[t].bundle, task[t].version)

\* to_update_info: another version than the local one is an update, an older
\* one as well; so is any version where there is no local one.
IsAvailable(t) == LoadVersion(task[t].bundle) # task[t].version

\* The application goes on with what isAvailable says, some time later.
Decide(t) ==
    /\ task[t].pc = "load"
    /\ task' = [task EXCEPT ![t] = IF IsAvailable(t) THEN [@ EXCEPT !.pc = "decided"] ELSE Idle]
    /\ UNCHANGED <<config, deployed, events, manifest, file>>

-----------------------------------------------------------------------------
(* download_update                                                         *)

\* GET /bundles/:name: the version that is deployed now, in the header of the
\* answer, which need not be the one get_update told.
Download(t, answers) ==
    /\ task[t].pc = "decided"
    /\ \E r \in answers :
          task' = [task EXCEPT ![t].pc = "check", ![t].response = r,
                               ![t].version = deployed[task[t].bundle]]
    /\ UNCHANGED <<config, deployed, events, manifest, file>>

DownloadCurrent(t) == Download(t, Responses)

\* GET /bundles/:name/:version, for an application that wants this version,
\* deployed or not.
DownloadVersion(t, b, v) ==
    /\ events < MaxEvents
    /\ task[t].pc = "idle"
    /\ events' = events + 1
    /\ \E r \in Responses :
          task' = [task EXCEPT ![t] = [pc |-> "check", bundle |-> b, version |-> v, response |-> r]]
    /\ UNCHANGED <<config, deployed, manifest, file>>

\* The request fails, or the answer is no bundle, or breaks off.
FailRequest(t) ==
    /\ task[t].pc \in {"load", "decided"}
    /\ task' = [task EXCEPT ![t].pc = "failed"]
    /\ UNCHANGED <<config, deployed, events, manifest, file>>

\* The integrity of an answer: with the policies "strict" and "optional" a
\* header is checked when there is one; only "strict" insists on it.
IntegrityOK(r) ==
    \/ config.policy = "none"
    \/ r.integrity = None /\ config.policy = "optional"
    \/ r.integrity = Digest(r.body)

\* Mutated form: what an answer carries is written before it is checked.
WriteEarly(t) ==
    /\ task[t].pc = "check"
    /\ file' = [file EXCEPT ![task[t].bundle][task[t].version] = task[t].response]
    /\ task' = [task EXCEPT ![t].pc = IF IntegrityOK(task[t].response) THEN "verify" ELSE "failed"]
    /\ UNCHANGED <<config, deployed, events, manifest>>

CheckIntegrity(t) ==
    /\ task[t].pc = "check"
    /\ task' = [task EXCEPT ![t].pc = IF IntegrityOK(task[t].response) THEN "verify" ELSE "failed"]
    /\ UNCHANGED <<config, deployed, events, manifest, file>>

\* SignatureVerifier::verify: the algorithms of the core take the bytes of the
\* text for the signature, an application decodes it.
Verifies(signature) ==
    \/ config.verifier = "builtin" /\ signature = "bytes"
    \/ config.verifier = "custom" /\ signature = "base64"

\* Mutated form: an answer without a signature passes.
SignatureWhenPresent(r) ==
    \/ config.verifier = "none" \/ r.signature = None
    \/ r.integrity # None /\ Verifies(r.signature) /\ r.integrity.of \in Signed

\* The signature is over the text of the integrity header, which has to be there.
SignatureOK(r) ==
    \/ config.verifier = "none"
    \/ /\ r.integrity # None
       /\ r.signature # None
       /\ Verifies(r.signature) /\ r.integrity.of \in Signed

VerifySignature(t) ==
    /\ task[t].pc = "verify"
    /\ task' = [task EXCEPT ![t].pc = IF SignatureOK(task[t].response) THEN "install" ELSE "failed"]
    /\ UNCHANGED <<config, deployed, events, manifest, file>>

\* AsyncBundleWriter: what is written is not the body that was checked but the
\* bundle that was read from it, its index in the order its map happens to have.
Rewritten(r, o) == [r EXCEPT !.body.order = o]

\* write_remote_bundle; the metadata of the manifest entry are the headers of
\* the answer.
Install(t) ==
    /\ task[t].pc = "install"
    /\ LET b == task[t].bundle
           v == task[t].version
       IN  /\ \E o \in Orders : file' = [file EXCEPT ![b][v] = Rewritten(task[t].response, o)]
           /\ manifest' = InsertEntry(manifest, b, v, task[t].response)
    /\ task' = [task EXCEPT ![t].pc = "switch", ![t].response = None]
    /\ UNCHANGED <<config, deployed, events>>

-----------------------------------------------------------------------------
(* What applications do with the result                                    *)

\* updateVersion, with the version downloadUpdate has returned.
Switch(t) ==
    /\ task[t].pc = "switch"
    /\ manifest' = IF ContainsEntry(manifest, task[t].bundle, task[t].version)
                   THEN SetCurrent(manifest, task[t].bundle, task[t].version)
                   ELSE manifest
    /\ task' = [task EXCEPT ![t] = Idle]
    /\ UNCHANGED <<config, deployed, events, file>>

GiveUp(t) ==
    /\ task[t].pc = "failed"
    /\ task' = [task EXCEPT ![t] = Idle]
    /\ UNCHANGED <<config, deployed, events, manifest, file>>

-----------------------------------------------------------------------------
UpdateLoop(t) ==
    \/ \E b \in Bundles : GetCurrentInfo(t, b)
    \/ Decide(t) \/ DownloadCurrent(t) \/ CheckIntegrity(t) \/ VerifySignature(t)
    \/ Install(t) \/ Switch(t) \/ GiveUp(t)

Deploys == \E b \in Bundles, v \in Versions : Deploy(b, v)

Next ==
    \/ Deploys
    \/ \E t \in Tasks :
          \/ UpdateLoop(t)
          \/ \E b \in Bundles, v \in Versions : DownloadVersion(t, b, v)
          \/ FailRequest(t)

Spec == Init /\ [][Next]_vars

\* Applications check for updates of every bundle again and again, and however
\* often requests fail and answers are bad, now and then one succeeds.
Fairness ==
    \A t \in Tasks :
        /\ WF_vars(UpdateLoop(t))
        /\ \A b \in Bundles : SF_vars(GetCurrentInfo(t, b))
        /\ SF_vars(Decide(t))
        /\ SF_vars(Download(t, Sound))

FairSpec == Spec /\ Fairness

-----------------------------------------------------------------------------
(* Properties                                                              *)

\* With the policy "strict" every installed file has the content of a text with
\* the digest its own answer announced (updater.rs:142-160), also after
\* downloads of the same version that overlap or fail.  The file itself need not
\* have that digest: it was written anew (updater.rs:181-188).
StrictContentMatches ==
    config.policy = "strict" =>
        \A b \in Bundles, v \in Versions : file[b][v] # None =>
            \E text \in Texts : /\ text.content = file[b][v].body.content
                                /\ file[b][v].integrity = Digest(text)

\* With a verifier, and a policy that checks integrity at all, the version an
\* application runs has the content of a text the publisher has signed: signature
\* and content are tied only by the integrity text (updater.rs:161-180).
RunsSignedContent ==
    config.verifier # "none" /\ config.policy # "none" =>
        \A b \in Bundles : HasEntry(manifest, b) =>
            LET f == file[b][CurrentVersion(manifest, b)]
            IN  f # None /\ \E text \in Signed : f.body.content = text.content

\* Applications that check for updates again and again, download what is
\* available and switch to it, run in the end what is deployed, also after a
\* deployment or a switch to another version in between (updater.rs:193-199);
\* except with an algorithm of the core, which never verifies a Base64 text.
UpdateSettles ==
    config.verifier # "builtin" => \A b \in Bundles : <>[](LoadVersion(b) = deployed[b])

\* What applications make of the source through the updater is a behaviour of
\* the abstract store: whatever answers, failures and overlapping windows do, a
\* download installs and never activates a second version, and a switch
\* activates an installed one (updater.rs:137-199).  Nothing is restarted.
InstalledOf(d) == [b \in Bundles |-> Listed(d, b)]
CurrentOf(d) == [b \in Bundles |-> CurrentVersion(d, b)]

Store == INSTANCE VersionStore WITH
           installed <- InstalledOf(manifest),
           current <- CurrentOf(manifest),
           saved <- [installed |-> InstalledOf(EmptyData), current |-> CurrentOf(EmptyData)]

ImplementsStore == Store!Spec
=============================================================================
