--------------------------- MODULE UpdaterProofs ---------------------------
(***************************************************************************)
(* What an application may install and run, for every server, every        *)
(* configuration, and any number of windows that update at once: only what *)
(* passed the checks of download_update is ever written (Checked), so that *)
(* every installed file has passed them (Trusted).                         *)
(***************************************************************************)
EXTENDS Updater, ManifestDataProofs

\* Which of its fields a window has filled at which place.
Shape ==
    \A t \in Tasks :
        /\ task[t].pc \notin {"idle", "failed"} => /\ task[t].bundle \in Bundles
                                                   /\ task[t].version \in Versions
        /\ task[t].pc \in {"check", "verify", "install"} => task[t].response \in Responses

Typed == TypeOK /\ Shape

LEMMA InitTyped == Init => Typed
  BY UpdaterAssumption DEF Init, Typed, TypeOK, Shape, Idle, Pcs, Installable,
     EmptyData, NoEntry, Data, Entry

\* The steps of a window that change nothing but its own place.
Own(t) ==
    \/ \E b \in Bundles : GetCurrentInfo(t, b)
    \/ Decide(t) \/ DownloadCurrent(t) \/ CheckIntegrity(t) \/ VerifySignature(t) \/ GiveUp(t)
    \/ FailRequest(t)

LEMMA OwnSteps ==
    ASSUME Typed, NEW t \in Tasks, Own(t)
    PROVE  /\ Typed'
           /\ UNCHANGED <<config, deployed, events, manifest, file>>
           /\ \A u \in Tasks : u # t => task'[u] = task[u]
           /\ task'[t].pc = "verify" => /\ task[t].pc = "check" /\ IntegrityOK(task[t].response)
                                        /\ task'[t].response = task[t].response
           /\ task'[t].pc = "install" => /\ task[t].pc = "verify" /\ SignatureOK(task[t].response)
                                         /\ task'[t].response = task[t].response
  <1> DEFINE Record == [pc : Pcs, bundle : Bundles \cup {None},
                        version : Versions \cup {None}, response : Installable]
  <1>1. task \in [Tasks -> Record] /\ deployed \in [Bundles -> Versions]
    BY DEF Typed, TypeOK
  <1>2. UNCHANGED <<config, deployed, events, manifest, file>>
    BY DEF Own, GetCurrentInfo, Decide, DownloadCurrent, Download, CheckIntegrity, VerifySignature, GiveUp,
           FailRequest
  <1>3. ASSUME NEW r \in Record, task' = [task EXCEPT ![t] = r],
               r.pc \notin {"idle", "failed"} => r.bundle \in Bundles /\ r.version \in Versions,
               r.pc \in {"check", "verify", "install"} => r.response \in Responses
        PROVE  Typed' /\ task'[t] = r /\ \A u \in Tasks : u # t => task'[u] = task[u]
    <2>1. task' \in [Tasks -> Record]  BY <1>1, <1>3
    <2>2. TypeOK'  BY <1>2, <2>1 DEF Typed, TypeOK
    <2>3. Shape'  BY <1>1, <1>3 DEF Typed, Shape
    <2> QED  BY <1>1, <1>3, <2>2, <2>3 DEF Typed
  <1>4. CASE \E b \in Bundles : GetCurrentInfo(t, b)
    <2>1. PICK b \in Bundles : GetCurrentInfo(t, b)  BY <1>4
    <2> DEFINE r == [Idle EXCEPT !.pc = "load", !.bundle = b, !.version = deployed[b]]
    <2>2. task' = [task EXCEPT ![t] = r]  BY <2>1 DEF GetCurrentInfo
    <2>3. r \in Record /\ r.pc = "load" /\ r.bundle \in Bundles /\ r.version \in Versions
      BY <1>1 DEF Idle, Pcs, Installable
    <2> HIDE DEF r
    <2> QED  BY <1>2, <1>3, <2>2, <2>3
  <1>5. CASE Decide(t)
    <2> DEFINE r == IF IsAvailable(t) THEN [task[t] EXCEPT !.pc = "decided"] ELSE Idle
    <2>1. task' = [task EXCEPT ![t] = r]  BY <1>5 DEF Decide
    <2>2. /\ r \in Record /\ r.pc \in {"decided", "idle"}
          /\ r.pc = "decided" => r.bundle \in Bundles /\ r.version \in Versions
      BY <1>1, <1>5 DEF Decide, Idle, Pcs, Installable, Typed, Shape
    <2> HIDE DEF r
    <2> QED  BY <1>2, <1>3, <2>1, <2>2
  <1>6. CASE DownloadCurrent(t)
    <2>1. PICK a \in Responses :
            task' = [task EXCEPT ![t].pc = "check", ![t].response = a,
                                 ![t].version = deployed[task[t].bundle]]
      BY <1>6 DEF DownloadCurrent, Download
    <2> DEFINE r == [task[t] EXCEPT !.pc = "check", !.response = a,
                                    !.version = deployed[task[t].bundle]]
    <2>2. task' = [task EXCEPT ![t] = r]  BY <1>1, <2>1
    <2>3. task[t].bundle \in Bundles
      BY <1>1, <1>6 DEF DownloadCurrent, Download, Typed, Shape
    <2>4. deployed[task[t].bundle] \in Versions  BY <1>1, <2>3
    <2>5. r \in Record /\ r.pc = "check" /\ r.bundle \in Bundles /\ r.version \in Versions
          /\ r.response \in Responses
      BY <1>1, <2>3, <2>4 DEF Pcs, Installable
    <2> HIDE DEF r
    <2> QED  BY <1>2, <1>3, <2>2, <2>5
  <1>7. CASE CheckIntegrity(t) \/ VerifySignature(t) \/ GiveUp(t) \/ FailRequest(t)
    <2>1. PICK p \in Pcs :
            /\ task' = [task EXCEPT ![t] = IF p = "idle" THEN Idle ELSE [@ EXCEPT !.pc = p]]
            /\ p \in {"idle", "failed", "verify", "install"}
            /\ p = "verify" => task[t].pc = "check" /\ IntegrityOK(task[t].response)
            /\ p = "install" => task[t].pc = "verify" /\ SignatureOK(task[t].response)
      <3>1. CASE CheckIntegrity(t)
        <4> DEFINE p == IF IntegrityOK(task[t].response) THEN "verify" ELSE "failed"
        <4>1. p \in Pcs /\ p # "idle" /\ task' = [task EXCEPT ![t] = [@ EXCEPT !.pc = p]]
          BY <3>1 DEF CheckIntegrity, Pcs
        <4> QED  BY <3>1, <4>1 DEF CheckIntegrity
      <3>2. CASE VerifySignature(t)
        <4> DEFINE p == IF SignatureOK(task[t].response) THEN "install" ELSE "failed"
        <4>1. p \in Pcs /\ p # "idle" /\ task' = [task EXCEPT ![t] = [@ EXCEPT !.pc = p]]
          BY <3>2 DEF VerifySignature, Pcs
        <4> QED  BY <3>2, <4>1 DEF VerifySignature
      <3>3. CASE GiveUp(t)  BY <3>3 DEF GiveUp, Pcs
      <3>4. CASE FailRequest(t)  BY <3>4 DEF FailRequest, Pcs
      <3> QED  BY <1>7, <3>1, <3>2, <3>3, <3>4
    <2> DEFINE r == IF p = "idle" THEN Idle ELSE [task[t] EXCEPT !.pc = p]
    <2>2. task' = [task EXCEPT ![t] = r]  BY <2>1
    <2>3. r \in Record /\ r.pc = p /\ (p # "idle" => r.response = task[t].response)
      BY <1>1 DEF Idle, Pcs, Installable
    <2>4. /\ p \in {"verify", "install"} => r.bundle \in Bundles /\ r.version \in Versions
                                            /\ r.response \in Responses
      BY <1>1, <2>1 DEF Typed, Shape
    <2> HIDE DEF r
    <2>5. Typed' /\ task'[t] = r /\ \A u \in Tasks : u # t => task'[u] = task[u]
      BY <1>3, <2>1, <2>2, <2>3, <2>4
    <2> QED  BY <1>2, <2>1, <2>3, <2>5
  <1> QED  BY <1>4, <1>5, <1>6, <1>7 DEF Own

(* A window that asks for a version starts where the answer is there. *)
LEMMA DownloadVersionTyped ==
    ASSUME Typed, NEW t \in Tasks, NEW b \in Bundles, NEW v \in Versions, DownloadVersion(t, b, v)
    PROVE  /\ Typed' /\ UNCHANGED <<config, manifest, file>>
           /\ \A u \in Tasks : task'[u] = task[u] \/ task'[u].pc = "check"
  <1>1. PICK a \in Responses :
          task' = [task EXCEPT ![t] = [pc |-> "check", bundle |-> b, version |-> v, response |-> a]]
    BY DEF DownloadVersion
  <1>2. UNCHANGED <<config, deployed, manifest, file>> /\ events' \in 0..MaxEvents
    BY UpdaterAssumption DEF DownloadVersion, Typed, TypeOK
  <1>3. TypeOK'  BY <1>1, <1>2 DEF Typed, TypeOK, Pcs, Installable
  <1>4. Shape'  BY <1>1 DEF Typed, TypeOK, Shape
  <1> QED  BY <1>1, <1>2, <1>3, <1>4 DEF Typed, TypeOK

(* Writing a bundle anew changes the order of its index only. *)
LEMMA RewrittenKeeps ==
    ASSUME NEW a \in Responses, NEW o \in Orders
    PROVE  /\ Rewritten(a, o) \in ResponseSet /\ Rewritten(a, o) # None
           /\ Rewritten(a, o).body.content = a.body.content
           /\ Rewritten(a, o).integrity = a.integrity
  <1>1. a \in ResponseSet /\ a.body \in [content : Contents, order : Orders]
    BY UpdaterAssumption DEF ResponseSet, Texts
  <1>2. [a.body EXCEPT !.order = o] \in Texts  BY <1>1 DEF Texts
  <1>3. Rewritten(a, o) = [a EXCEPT !.body = [a.body EXCEPT !.order = o]]
    BY <1>1 DEF Rewritten, ResponseSet
  <1>4. Rewritten(a, o) \in ResponseSet  BY <1>1, <1>2, <1>3 DEF ResponseSet
  <1>5. /\ Rewritten(a, o).body = [a.body EXCEPT !.order = o]
        /\ Rewritten(a, o).integrity = a.integrity
    BY <1>1, <1>3 DEF ResponseSet
  <1>6. QED  BY <1>1, <1>4, <1>5, UpdaterAssumption

(* write_remote_bundle and update_version. *)
LEMMA InstallTyped ==
    ASSUME Typed, NEW t \in Tasks, Install(t) \/ Switch(t)
    PROVE  /\ Typed' /\ UNCHANGED config
           /\ \A u \in Tasks : task'[u] = task[u] \/ task'[u].pc \in {"switch", "idle"}
  <1>1. task[t].bundle \in Bundles /\ task[t].version \in Versions
    BY DEF Install, Switch, Typed, Shape
  <1>2. UNCHANGED <<config, deployed, events>>  BY DEF Install, Switch
  <1>3. CASE Install(t)
    <2>1. task[t].response \in Responses /\ task[t].response \in Metas
      BY <1>3, UpdaterAssumption DEF Install, Typed, Shape
    <2>2. manifest' \in Data  BY <1>1, <1>3, <2>1, InsertEntryType DEF Install, Typed, TypeOK
    <2>3. file' \in [Bundles -> [Versions -> ResponseSet \cup {None}]]
      <3>1. PICK o \in Orders : file' = [file EXCEPT ![task[t].bundle][task[t].version] =
                                                        Rewritten(task[t].response, o)]
        BY <1>3 DEF Install
      <3>2. Rewritten(task[t].response, o) \in ResponseSet  BY <2>1, RewrittenKeeps
      <3>3. QED  BY <1>1, <3>1, <3>2 DEF Typed, TypeOK
    <2> DEFINE r == [task[t] EXCEPT !.pc = "switch", !.response = None]
    <2>4. task' = [task EXCEPT ![t] = r]  BY <1>3 DEF Install
    <2>5. /\ r \in [pc : Pcs, bundle : Bundles \cup {None},
                    version : Versions \cup {None}, response : Installable]
          /\ r.pc = "switch" /\ r.bundle \in Bundles /\ r.version \in Versions
      BY <1>1 DEF Typed, TypeOK, Pcs, Installable
    <2> HIDE DEF r
    <2>6. TypeOK'  BY <1>2, <2>2, <2>3, <2>4, <2>5 DEF Typed, TypeOK
    <2>7. Shape'  BY <2>4, <2>5 DEF Typed, TypeOK, Shape
    <2> QED  BY <1>2, <2>4, <2>5, <2>6, <2>7 DEF Typed, TypeOK
  <1>4. CASE Switch(t)
    <2>1. manifest' \in Data  BY <1>1, <1>4, SetCurrentType DEF Switch, Typed, TypeOK
    <2>2. task' = [task EXCEPT ![t] = Idle] /\ UNCHANGED file  BY <1>4 DEF Switch
    <2>3. TypeOK'  BY <1>2, <2>1, <2>2 DEF Typed, TypeOK, Pcs, Installable, Idle
    <2>4. Shape'  BY <2>2 DEF Typed, TypeOK, Shape, Idle
    <2> QED  BY <1>2, <2>2, <2>3, <2>4 DEF Typed, TypeOK, Idle
  <1> QED  BY <1>3, <1>4

(* A step is one of the server or one of a window. *)
LEMMA Steps ==
    ASSUME [Next]_vars
    PROVE  \/ UNCHANGED vars \/ \E b \in Bundles, v \in Versions : Deploy(b, v)
           \/ \E t \in Tasks :
                 \/ Own(t) \/ Install(t) \/ Switch(t)
                 \/ \E b \in Bundles, v \in Versions : DownloadVersion(t, b, v)
  BY DEF Next, Deploys, UpdateLoop, Own

LEMMA DeployTyped ==
    ASSUME Typed, NEW b \in Bundles, NEW v \in Versions, Deploy(b, v)
    PROVE  Typed' /\ UNCHANGED <<config, manifest, file, task>>
  BY UpdaterAssumption DEF Deploy, Typed, TypeOK, Shape

LEMMA StepTyped == Typed /\ [Next]_vars => Typed'
  <1> SUFFICES ASSUME Typed, [Next]_vars  PROVE Typed'
    OBVIOUS
  <1>1. CASE UNCHANGED vars  BY <1>1 DEF vars, Typed, TypeOK, Shape
  <1> QED  BY <1>1, Steps, DeployTyped, OwnSteps, InstallTyped, DownloadVersionTyped

(* Server, windows, manifest and files keep their types. *)
THEOREM UpdaterTypeCorrect == Spec => []TypeOK
  <1>1. Spec => []Typed  BY InitTyped, StepTyped, PTL DEF Spec
  <1>2. Typed => TypeOK  BY DEF Typed
  <1> QED  BY <1>1, <1>2, PTL
-----------------------------------------------------------------------------
(* Checks                                                                  *)

\* An answer that has come past a check has passed it.
Checked ==
    \A t \in Tasks :
        /\ task[t].pc \in {"verify", "install"} => IntegrityOK(task[t].response)
        /\ task[t].pc = "install" => SignatureOK(task[t].response)

\* A file was written from an answer that has passed both.
PassedChecks(f) ==
    \E a \in Responses, o \in Orders : f = Rewritten(a, o) /\ IntegrityOK(a) /\ SignatureOK(a)

\* What is installed has passed both, and what the manifest lists is installed.
Trusted ==
    /\ \A b \in Bundles, v \in Versions :
         /\ file[b][v] # None => PassedChecks(file[b][v])
         /\ ContainsEntry(manifest, b, v) => file[b][v] # None
    /\ WellFormed(manifest)

LEMMA CheckedStep == Typed /\ Checked /\ [Next]_vars => Checked'
  <1> SUFFICES ASSUME Typed, Checked, [Next]_vars  PROVE Checked'
    OBVIOUS
  <1>1. CASE UNCHANGED vars \/ \E b \in Bundles, v \in Versions : Deploy(b, v)
    <2>1. UNCHANGED <<config, task>>  BY <1>1, DeployTyped DEF vars
    <2> QED  BY <2>1 DEF Checked, IntegrityOK, SignatureOK, Verifies
  <1>2. ASSUME NEW t \in Tasks, Own(t)  PROVE Checked'
    <2>1. config' = config  BY <1>2, OwnSteps
    <2>2. ASSUME NEW u \in Tasks, u # t
          PROVE  /\ task'[u].pc \in {"verify", "install"} => IntegrityOK(task[u].response)'
                 /\ task'[u].pc = "install" => SignatureOK(task[u].response)'
      BY <1>2, <2>1, <2>2, OwnSteps DEF Checked, IntegrityOK, SignatureOK, Verifies
    <2>3. /\ task'[t].pc \in {"verify", "install"} => IntegrityOK(task[t].response)'
          /\ task'[t].pc = "install" => SignatureOK(task[t].response)'
      BY <1>2, <2>1, OwnSteps DEF Checked, IntegrityOK, SignatureOK, Verifies
    <2> QED  BY <2>2, <2>3 DEF Checked
  <1>3. ASSUME NEW t \in Tasks, Install(t) \/ Switch(t)  PROVE Checked'
    BY <1>3, InstallTyped DEF Checked, IntegrityOK, SignatureOK, Verifies
  <1>4. ASSUME NEW t \in Tasks, NEW b \in Bundles, NEW v \in Versions, DownloadVersion(t, b, v)
        PROVE  Checked'
    BY <1>4, DownloadVersionTyped DEF Checked, IntegrityOK, SignatureOK, Verifies
  <1> QED  BY <1>1, <1>2, <1>3, <1>4, Steps

LEMMA TrustedStep == Typed /\ Checked /\ Trusted /\ [Next]_vars => Trusted'
  <1> SUFFICES ASSUME Typed, Checked, Trusted, [Next]_vars  PROVE Trusted'
    OBVIOUS
  <1>1. CASE UNCHANGED <<config, manifest, file>>
    BY <1>1 DEF Trusted, PassedChecks, IntegrityOK, SignatureOK, Verifies
  <1>2. ASSUME NEW t \in Tasks, Install(t)  PROVE Trusted'
    <2> DEFINE b == task[t].bundle
               v == task[t].version
               a == task[t].response
    <2>1. b \in Bundles /\ v \in Versions /\ a \in Responses /\ a \in Metas /\ manifest \in Data
      BY <1>2, UpdaterAssumption DEF Install, Typed, TypeOK, Shape
    <2>2. IntegrityOK(a) /\ SignatureOK(a)  BY <1>2 DEF Install, Checked
    <2>3. manifest' = InsertEntry(manifest, b, v, a) /\ UNCHANGED config
      BY <1>2 DEF Install
    <2>4. PICK o \in Orders : file' = [file EXCEPT ![b][v] = Rewritten(a, o)]
      BY <1>2 DEF Install
    <2>5. file \in [Bundles -> [Versions -> ResponseSet \cup {None}]]  BY DEF Typed, TypeOK
    <2> HIDE DEF b, v, a
    <2>6. WellFormed(manifest')  BY <2>1, <2>3, InsertEntryWellFormed DEF Trusted
    <2>7. ASSUME NEW c \in Bundles, NEW w \in Versions
          PROVE  /\ file'[c][w] = IF c = b /\ w = v THEN Rewritten(a, o) ELSE file[c][w]
                 /\ ContainsEntry(manifest', c, w) <=> ContainsEntry(manifest, c, w) \/ (c = b /\ w = v)
      BY <2>1, <2>3, <2>4, <2>5, InsertEntryLists
    <2>8. \A f : PassedChecks(f) => PassedChecks(f)'
      BY <2>3 DEF PassedChecks, IntegrityOK, SignatureOK, Verifies
    <2>9. PassedChecks(Rewritten(a, o))  BY <2>1, <2>2 DEF PassedChecks
    <2>10. Rewritten(a, o) # None  BY <2>1, RewrittenKeeps
    <2>11. ASSUME NEW c \in Bundles, NEW w \in Versions
           PROVE  /\ file'[c][w] # None => PassedChecks(file[c][w])'
                  /\ ContainsEntry(manifest', c, w) => file'[c][w] # None
      <3>1. CASE c = b /\ w = v
        <4>1. file'[c][w] = Rewritten(a, o)  BY <2>7, <3>1
        <4>2. QED  BY <2>8, <2>9, <2>10, <4>1 DEF PassedChecks
      <3>2. CASE ~ (c = b /\ w = v)
        <4>1. file'[c][w] = file[c][w]  BY <2>7, <3>2
        <4>2. QED  BY <2>7, <2>8, <3>2, <4>1 DEF Trusted, PassedChecks
      <3>3. QED  BY <3>1, <3>2
    <2> QED  BY <2>6, <2>11 DEF Trusted
  <1>3. ASSUME NEW t \in Tasks, Switch(t)  PROVE Trusted'
    <2> DEFINE b == task[t].bundle
               v == task[t].version
    <2>1. b \in Bundles /\ v \in Versions /\ manifest \in Data
      BY <1>3 DEF Switch, Typed, TypeOK, Shape
    <2>2. /\ manifest' = IF ContainsEntry(manifest, b, v) THEN SetCurrent(manifest, b, v) ELSE manifest
          /\ UNCHANGED <<config, file>>
      BY <1>3 DEF Switch
    <2> HIDE DEF b, v
    <2>3. /\ WellFormed(manifest')
          /\ \A c \in Bundles, w \in Versions :
               ContainsEntry(manifest', c, w) <=> ContainsEntry(manifest, c, w)
      BY <2>1, <2>2, SetCurrentKeeps, SetCurrentWellFormed DEF Trusted
    <2> QED  BY <2>2, <2>3 DEF Trusted, PassedChecks, IntegrityOK, SignatureOK, Verifies
  <1> QED
    BY <1>1, <1>2, <1>3, Steps, DeployTyped, OwnSteps, DownloadVersionTyped DEF vars

LEMMA AlwaysTrusted == Spec => [](Typed /\ Checked /\ Trusted)
  <1>1. Init => Checked /\ Trusted
    BY DEF Init, Checked, Trusted, Idle, WellFormed, CurrentIsListed, AbsentListsNothing,
           EmptyData, NoEntry, HasEntry, ContainsEntry, Listed
  <1> QED  BY <1>1, InitTyped, StepTyped, CheckedStep, TrustedStep, PTL DEF Spec

(***************************************************************************)
(* Every file that is installed under the policy "strict" has the content  *)
(* of a text with the digest its own answer announced, whatever becomes of *)
(* its bytes when they are written anew (updater.rs:142-191).              *)
(***************************************************************************)
THEOREM InstalledContentMatches == Spec => []StrictContentMatches
  <1>1. Typed /\ Trusted => StrictContentMatches
    <2> SUFFICES ASSUME Typed, Trusted, config.policy = "strict",
                        NEW b \in Bundles, NEW v \in Versions, file[b][v] # None
                 PROVE  \E text \in Texts : /\ text.content = file[b][v].body.content
                                            /\ file[b][v].integrity = Digest(text)
      BY DEF StrictContentMatches
    <2>1. PICK a \in Responses, o \in Orders :
            file[b][v] = Rewritten(a, o) /\ IntegrityOK(a) /\ SignatureOK(a)
      BY DEF Trusted, PassedChecks
    <2>2. a.integrity = Digest(a.body) /\ a.body \in Texts
      BY <2>1, UpdaterAssumption DEF IntegrityOK, ResponseSet
    <2>3. QED  BY <2>1, <2>2, RewrittenKeeps
  <1> QED  BY <1>1, AlwaysTrusted, PTL

(***************************************************************************)
(* With a verifier, and a policy that checks integrity, the version an     *)
(* application runs has the content of a text the publisher has signed     *)
(* (updater.rs:161-180).                                                   *)
(***************************************************************************)
THEOREM OnlySignedContentRuns == Spec => []RunsSignedContent
  <1>1. Typed /\ Trusted => RunsSignedContent
    <2> SUFFICES ASSUME Typed, Trusted, config.verifier # "none", config.policy # "none",
                        NEW b \in Bundles, HasEntry(manifest, b)
                 PROVE  /\ file[b][CurrentVersion(manifest, b)] # None
                        /\ \E text \in Signed :
                              file[b][CurrentVersion(manifest, b)].body.content = text.content
      BY DEF RunsSignedContent
    <2> DEFINE f == file[b][CurrentVersion(manifest, b)]
    <2>1. /\ CurrentVersion(manifest, b) \in Versions
          /\ ContainsEntry(manifest, b, CurrentVersion(manifest, b))
      BY DEF Typed, TypeOK, Trusted, WellFormed, CurrentIsListed, HasEntry, CurrentVersion,
             ContainsEntry, Listed, Data, Entry
    <2>2. f # None  BY <2>1 DEF Trusted
    <2>3. PICK a \in Responses, o \in Orders :
            f = Rewritten(a, o) /\ IntegrityOK(a) /\ SignatureOK(a)
      BY <2>1, <2>2 DEF Trusted, PassedChecks
    <2>4. a.integrity # None /\ a.integrity.of \in Signed /\ a.integrity = Digest(a.body)
      BY <2>3 DEF IntegrityOK, SignatureOK, Verifies
    <2>5. a.body \in Signed  BY <2>4 DEF Digest
    <2>6. f.body.content = a.body.content  BY <2>3, RewrittenKeeps
    <2> QED  BY <2>2, <2>5, <2>6
  <1> QED  BY <1>1, AlwaysTrusted, PTL

-----------------------------------------------------------------------------
(***************************************************************************)
(* The updater implements VersionStore: writing a downloaded bundle is     *)
(* installing, updateVersion is activating, every other step stutters.     *)
(***************************************************************************)
StoreState == <<InstalledOf(manifest), CurrentOf(manifest),
                [installed |-> InstalledOf(EmptyData), current |-> CurrentOf(EmptyData)]>>

LEMMA InitRefines == Init => Store!Init
  <1> SUFFICES ASSUME Init PROVE Store!Init  OBVIOUS
  <1>1. manifest = EmptyData  BY DEF Init
  <1>2. \A b \in Bundles : Listed(EmptyData, b) = {} /\ CurrentVersion(EmptyData, b) = None
    BY DEF EmptyData, NoEntry, Listed, CurrentVersion
  <1>3. InstalledOf(EmptyData) = [b \in Bundles |-> {}] /\ CurrentOf(EmptyData) = [b \in Bundles |-> None]
    BY <1>2 DEF InstalledOf, CurrentOf
  <1>4. QED  BY <1>1, <1>3 DEF Store!Init, Store!Consistent

LEMMA InstallRefines ==
    ASSUME Typed, Trusted, NEW t \in Tasks, Install(t)
    PROVE  Store!Next
  <1> DEFINE b == task[t].bundle
             v == task[t].version
             a == task[t].response
  <1>1. b \in Bundles /\ v \in Versions /\ a \in Metas /\ manifest \in Data
    BY UpdaterAssumption DEF Install, Typed, TypeOK, Shape
  <1>2. manifest' = InsertEntry(manifest, b, v, a)  BY DEF Install
  <1> HIDE DEF b, v, a
  <1>3. InstalledOf(manifest)' = [InstalledOf(manifest) EXCEPT ![b] = @ \cup {v}]
    <2>1. \A c \in Bundles, w \in Versions :
             ContainsEntry(manifest', c, w) <=> ContainsEntry(manifest, c, w) \/ (c = b /\ w = v)
      BY <1>1, <1>2, InsertEntryLists
    <2>2. \A c \in Bundles : Listed(manifest', c) =
              IF c = b THEN Listed(manifest, c) \cup {v} ELSE Listed(manifest, c)
      BY <1>1, <2>1 DEF Listed, ContainsEntry
    <2>3. QED  BY <1>1, <2>2 DEF InstalledOf
  <1>4. CurrentOf(manifest)' = [CurrentOf(manifest) EXCEPT ![b] = IF @ = None THEN v ELSE @]
    <2>1. \A c \in Bundles : manifest'[c].current =
              IF c = b /\ manifest[b].current = None THEN v ELSE manifest[c].current
      <3>1. CASE ContainsEntry(manifest, b, v)
        <4>1. manifest' = manifest  BY <1>1, <1>2, <3>1, InsertEntryLists
        <4>2. manifest[b].current # None
          BY <1>1, <3>1 DEF Trusted, WellFormed, AbsentListsNothing, HasEntry, Listed, ContainsEntry
        <4>3. QED  BY <4>1, <4>2
      <3>2. CASE ~ ContainsEntry(manifest, b, v)  BY <1>1, <1>2, <3>2, InsertEntryLists
      <3>3. QED  BY <3>1, <3>2
    <2>2. QED  BY <1>1, <2>1 DEF CurrentOf, CurrentVersion
  <1>5. Store!Install(b, v)  BY <1>3, <1>4 DEF Store!Install
  <1>6. QED  BY <1>1, <1>5 DEF Store!Next

LEMMA SwitchRefines ==
    ASSUME Typed, Trusted, NEW t \in Tasks, Switch(t)
    PROVE  Store!Next \/ UNCHANGED StoreState
  <1> DEFINE b == task[t].bundle
             v == task[t].version
  <1>1. b \in Bundles /\ v \in Versions /\ manifest \in Data
    BY DEF Switch, Typed, TypeOK, Shape
  <1>2. manifest' = IF ContainsEntry(manifest, b, v) THEN SetCurrent(manifest, b, v) ELSE manifest
    BY DEF Switch
  <1> HIDE DEF b, v
  <1>3. CASE ~ ContainsEntry(manifest, b, v)  BY <1>2, <1>3 DEF StoreState
  <1>4. CASE ContainsEntry(manifest, b, v)
    <2>1. v \in Listed(manifest, b) /\ HasEntry(manifest, b)
      BY <1>1, <1>4 DEF Trusted, WellFormed, AbsentListsNothing, Listed, ContainsEntry
    <2>2. InstalledOf(manifest)' = InstalledOf(manifest)
      <3>1. \A c \in Bundles, w \in Versions :
               ContainsEntry(manifest', c, w) <=> ContainsEntry(manifest, c, w)
        BY <1>1, <1>2, <1>4, SetCurrentKeeps
      <3>2. QED  BY <3>1 DEF InstalledOf, Listed, ContainsEntry
    <2>3. CurrentOf(manifest)' = [CurrentOf(manifest) EXCEPT ![b] = v]
      <3>1. \A c \in Bundles : manifest'[c].current = IF c = b THEN v ELSE manifest[c].current
        BY <1>1, <1>2, <1>4, <2>1, SetCurrentKeeps
      <3>2. QED  BY <1>1, <3>1 DEF CurrentOf, CurrentVersion
    <2>4. Store!Activate(b, v)  BY <1>1, <2>1, <2>2, <2>3 DEF Store!Activate, InstalledOf
    <2>5. QED  BY <1>1, <2>4 DEF Store!Next
  <1>5. QED  BY <1>3, <1>4

LEMMA NextRefines == Typed /\ Trusted /\ [Next]_vars => Store!Next \/ UNCHANGED StoreState
  <1> SUFFICES ASSUME Typed, Trusted, [Next]_vars
               PROVE  Store!Next \/ UNCHANGED StoreState
    OBVIOUS
  <1>1. UNCHANGED manifest => UNCHANGED StoreState  BY DEF StoreState
  <1>2. QED
    BY <1>1, Steps, DeployTyped, OwnSteps, DownloadVersionTyped, InstallRefines, SwitchRefines DEF vars

(* For any server, configuration and number of windows: a download never   *)
(* makes a second version current, and what updateVersion activates is     *)
(* installed.                                                              *)
THEOREM UpdaterImplementsStore == Spec => ImplementsStore
  <1>1. Store!Next \/ UNCHANGED StoreState <=> [Store!Next]_(Store!vars)
    BY DEF StoreState, Store!vars
  <1>2. QED
    BY <1>1, AlwaysTrusted, InitRefines, NextRefines, PTL DEF Spec, ImplementsStore, Store!Spec
=============================================================================
