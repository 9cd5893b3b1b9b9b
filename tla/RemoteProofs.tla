---------------------------- MODULE RemoteProofs ----------------------------
(***************************************************************************)
(* Theorems about what is kept elsewhere, for any names, versions and      *)
(* channels, any number of deploys at a time and any number of changes:    *)
(* the deploys to AWS and what its clients are given, the channels of      *)
(* Cloudflare, and the order in which either remote is provisioned.        *)
(***************************************************************************)
EXTENDS AwsRemote, CloudflareRemote, Provisioning, FiniteSetTheorems, WellFoundedInduction, TLAPS


(***************************************************************************)
(* AWS: the documents and the jobs                                         *)
(***************************************************************************)

Job == [pc : {"idle", "read", "write", "invalidate"}, name : Names \cup {None}, channel : Targets,
        version : Versions \cup {None}, doc : Documents \cup {None}]

Deploys == [name : Names, channel : Targets, version : Versions]

\* The types, and which fields of a job are there at which place.
JobShape(j) ==
    /\ j.pc # "idle" => j.name \in Names /\ j.version \in Versions
    /\ j.pc = "write" => j.doc \in Documents

DeployTyped ==
    /\ deployment \in [Names -> Documents \cup {None}]
    /\ deployer \in [Deployers -> Job]
    /\ \A d \in Deployers : JobShape(deployer[d])
    /\ finished \subseteq Deploys
    /\ latest \in [Names \X Targets -> Versions \cup {None}]
    /\ contended \subseteq Names

Slot(doc, c) == IF c = None THEN doc.version ELSE doc.channels[c]

\* What a deploy of a bundle reads.
Current(n) == IF deployment[n] = None THEN EmptyDocument ELSE deployment[n]

Works(j, n) == j.pc # "idle" /\ j.name = n

(* A job has the document of its bundle, or has written its version into it. *)
JobInStep(j, n) ==
    /\ j.pc = "write" => j.doc = Current(n)
    /\ j.pc = "invalidate" => deployment[n] # None /\ Slot(deployment[n], j.channel) = j.version

\* The version of a channel comes from the last deploy to it, or one is about to end.
Backed(n, c) ==
    \/ latest[<<n, c>>] = Slot(deployment[n], c)
    \/ \E d \in Deployers : Works(deployer[d], n) /\ deployer[d].pc = "invalidate" /\ deployer[d].channel = c

KeptFor(n) ==
    /\ \A d, e \in Deployers : Works(deployer[d], n) /\ Works(deployer[e], n) => d = e
    /\ \A d \in Deployers : Works(deployer[d], n) => JobInStep(deployer[d], n)
    /\ \A c \in Targets : latest[<<n, c>>] # None => deployment[n] # None /\ Backed(n, c)

Kept == \A n \in Names \ contended : KeptFor(n)

LEMMA SetVersionSlot ==
    ASSUME NEW doc \in Documents, NEW c \in Targets, NEW v \in Versions
    PROVE  /\ SetVersion(doc, c, v) \in Documents
           /\ \A x \in Targets : Slot(SetVersion(doc, c, v), x) = IF x = c THEN v ELSE Slot(doc, x)
  BY StoreAssumption DEF SetVersion, Documents, Slot, Targets

LEMMA EmptyIsDocument == EmptyDocument \in Documents
  BY DEF EmptyDocument, Documents

\* What the steps of a deploy leave as it is until the invalidation.
answering == <<cache, listCache, invalidating, fetching, gathering>>

(***************************************************************************)
(* What a step of a deploy does to the jobs and to the documents.          *)
(***************************************************************************)
LEMMA BeginStep ==
    ASSUME DeployTyped, NEW d \in Deployers, NEW n \in Names, NEW c \in Targets, NEW v \in Versions,
           BeginDeploy(d, n, c, v)
    PROVE  \E r \in Job : /\ deployer' = [deployer EXCEPT ![d] = r] /\ JobShape(r)
                          /\ r.pc = "read" /\ r.name = n /\ deployer[d].pc = "idle"
                          /\ n \notin contended' => \A e \in Deployers : ~ Works(deployer[e], n)
                          /\ contended \subseteq contended' /\ contended' \subseteq Names
                          /\ UNCHANGED <<deployment, finished, latest, overtaken, answering>>
  <1> DEFINE r == [pc |-> "read", name |-> n, channel |-> c, version |-> v, doc |-> None]
  <1>1. r \in Job /\ JobShape(r)  BY DEF Job, JobShape
  <1>2. deployer' = [deployer EXCEPT ![d] = r] /\ UNCHANGED <<deployment, finished, latest, overtaken, answering>>
        /\ deployer[d].pc = "idle"
    BY DEF BeginDeploy, answering, cacheVars, originVars
  <1>3. n \notin contended' => \A e \in Deployers : ~ Works(deployer[e], n)
    BY DEF BeginDeploy, Deploying, Works
  <1>4. contended \subseteq contended' /\ contended' \subseteq Names
    BY DEF BeginDeploy, DeployTyped
  <1> QED  BY <1>1, <1>2, <1>3, <1>4

LEMMA ReadStep ==
    ASSUME DeployTyped, NEW d \in Deployers, ReadDocument(d)
    PROVE  \E r \in Job : /\ deployer' = [deployer EXCEPT ![d] = r] /\ JobShape(r)
                          /\ r.pc = "write" /\ r.name = deployer[d].name /\ r.version = deployer[d].version
                          /\ r.name \in Names /\ r.doc = Current(r.name)
                          /\ deployer[d].pc = "read"
                          /\ UNCHANGED <<deployment, finished, latest, contended, overtaken, answering>>
  <1> DEFINE j == deployer[d]
             r == [j EXCEPT !.pc = "write", !.doc = Current(j.name)]
  <1>1. j \in Job /\ j.pc = "read" /\ j.name \in Names /\ j.version \in Versions
    BY DEF ReadDocument, DeployTyped, JobShape
  <1>2. Current(j.name) \in Documents
    BY <1>1, EmptyIsDocument DEF Current, DeployTyped
  <1>3. deployer' = [deployer EXCEPT ![d] = r]
    BY DEF ReadDocument, Current, DeployTyped
  <1>4. /\ r \in Job /\ r.pc = "write" /\ r.name = j.name /\ r.version = j.version
        /\ r.doc = Current(j.name)
    BY <1>1, <1>2 DEF Job
  <1>5. JobShape(r)  BY <1>1, <1>2, <1>4 DEF JobShape
  <1>6. UNCHANGED <<deployment, finished, latest, contended, overtaken, answering>>
    BY DEF ReadDocument, answering, cacheVars, originVars
  <1> HIDE DEF r
  <1> QED  BY <1>1, <1>3, <1>4, <1>5, <1>6

LEMMA WriteStep ==
    ASSUME DeployTyped, NEW d \in Deployers, WriteDocument(d)
    PROVE  \E r \in Job, doc \in Documents :
              /\ deployer' = [deployer EXCEPT ![d] = r] /\ JobShape(r)
              /\ deployer[d].pc = "write" /\ r.name \in Names /\ r.version \in Versions
              /\ r.pc = "invalidate" /\ r.name = deployer[d].name /\ r.version = deployer[d].version
              /\ doc = deployer[d].doc
              /\ deployment' = [deployment EXCEPT ![r.name] = SetVersion(doc, r.channel, r.version)]
              /\ overtaken' = overtaken \cup
                     ({r.name} \X Outdated(r.name, SetVersion(doc, r.channel, r.version)))
              /\ UNCHANGED <<finished, latest, contended, answering>>
  <1> DEFINE j == deployer[d]
             r == [j EXCEPT !.pc = "invalidate"]
  <1>1. j \in Job /\ j.pc = "write" /\ j.name \in Names /\ j.version \in Versions /\ j.doc \in Documents
    BY DEF WriteDocument, DeployTyped, JobShape
  <1>2. /\ deployer' = [deployer EXCEPT ![d] = r] /\ UNCHANGED <<finished, latest, contended, answering>>
        /\ deployment' = [deployment EXCEPT ![j.name] = SetVersion(j.doc, j.channel, j.version)]
        /\ overtaken' = overtaken \cup
               ({j.name} \X Outdated(j.name, SetVersion(j.doc, j.channel, j.version)))
    BY DEF WriteDocument, DeployTyped, answering, cacheVars, originVars
  <1>3. /\ r \in Job /\ r.pc = "invalidate" /\ r.name = j.name /\ r.version = j.version
        /\ r.channel = j.channel
    BY <1>1 DEF Job
  <1>4. JobShape(r)  BY <1>1, <1>3 DEF JobShape
  <1> HIDE DEF r
  <1> QED  BY <1>1, <1>2, <1>3, <1>4

LEMMA InvalidateStep ==
    ASSUME DeployTyped, NEW d \in Deployers, Invalidate(d)
    PROVE  LET j == deployer[d]
           IN  /\ deployer' = [deployer EXCEPT ![d] = Idle] /\ Idle \in Job /\ Idle.pc = "idle"
               /\ j.pc = "invalidate" /\ j.name \in Names /\ j.version \in Versions
               /\ j.channel \in Targets
               /\ finished' = finished \cup {[name |-> j.name, channel |-> j.channel, version |-> j.version]}
               /\ latest' = [latest EXCEPT ![<<j.name, j.channel>>] = j.version]
               /\ Invalidates => invalidating' = invalidating \cup
                                     {BundleUrl(j.name, j.channel), ListUrl(j.channel)}
               /\ ~Invalidates => invalidating' = invalidating
               /\ UNCHANGED <<deployment, contended, overtaken, cache, listCache, fetching, gathering>>
  BY DEF Invalidate, InvalidatedUrls, DeployTyped, JobShape, Job, Idle, Targets, cacheVars, originVars

LEMMA DeployStepTyped ==
    ASSUME DeployTyped, NEW d \in Deployers, Deploy(d)
    PROVE  DeployTyped'
  <1>1. ASSUME NEW n \in Names, NEW c \in Targets, NEW v \in Versions, BeginDeploy(d, n, c, v)
        PROVE  DeployTyped'
    <2> PICK r \in Job : /\ deployer' = [deployer EXCEPT ![d] = r] /\ JobShape(r)
                         /\ contended' \subseteq Names /\ UNCHANGED <<deployment, finished, latest>>
      BY <1>1, BeginStep
    <2> QED  BY DEF DeployTyped
  <1>2. CASE ReadDocument(d)
    <2> PICK r \in Job : /\ deployer' = [deployer EXCEPT ![d] = r] /\ JobShape(r)
                         /\ UNCHANGED <<deployment, finished, latest, contended>>
      BY <1>2, ReadStep
    <2> QED  BY DEF DeployTyped
  <1>3. CASE WriteDocument(d)
    <2> PICK r \in Job, doc \in Documents :
                /\ deployer' = [deployer EXCEPT ![d] = r] /\ JobShape(r)
                /\ r.name \in Names /\ r.version \in Versions
                /\ deployment' = [deployment EXCEPT ![r.name] = SetVersion(doc, r.channel, r.version)]
                /\ UNCHANGED <<finished, latest, contended>>
      BY <1>3, WriteStep
    <2>1. r.channel \in Targets  BY DEF Job
    <2>2. SetVersion(doc, r.channel, r.version) \in Documents  BY <2>1, SetVersionSlot
    <2> QED  BY <2>2 DEF DeployTyped
  <1>4. CASE Invalidate(d)
    <2>1. JobShape(Idle)  BY DEF JobShape, Idle
    <2>2. /\ deployer' = [deployer EXCEPT ![d] = Idle] /\ Idle \in Job
          /\ UNCHANGED <<deployment, contended>>
          /\ finished' = finished \cup {[name |-> deployer[d].name, channel |-> deployer[d].channel,
                                        version |-> deployer[d].version]}
          /\ latest' = [latest EXCEPT ![<<deployer[d].name, deployer[d].channel>>] = deployer[d].version]
          /\ deployer[d].name \in Names /\ deployer[d].channel \in Targets
          /\ deployer[d].version \in Versions
      BY <1>4, InvalidateStep
    <2>3. finished' \subseteq Deploys  BY <2>2 DEF DeployTyped, Deploys
    <2> QED  BY <2>1, <2>2, <2>3 DEF DeployTyped
  <1> QED  BY <1>1, <1>2, <1>3, <1>4 DEF Deploy

(***************************************************************************)
(* AWS: deploys that have ended stay in effect                             *)
(***************************************************************************)

\* A step that no job for a bundle takes, and that does not touch its document.
LEMMA OtherKept ==
    ASSUME DeployTyped, NEW m \in Names, KeptFor(m),
           NEW d \in Deployers, NEW r \in Job, deployer' = [deployer EXCEPT ![d] = r],
           ~ Works(deployer[d], m), ~ Works(r, m), deployment'[m] = deployment[m],
           \A c \in Targets : latest'[<<m, c>>] = latest[<<m, c>>]
    PROVE  KeptFor(m)'
  <1>1. deployer'[d] = r /\ \A e \in Deployers \ {d} : deployer'[e] = deployer[e]
    BY DEF DeployTyped
  <1>2. /\ \A e \in Deployers : Works(deployer'[e], m) => e # d /\ deployer'[e] = deployer[e]
        /\ \A e \in Deployers : Works(deployer[e], m) => e # d /\ deployer'[e] = deployer[e]
    BY <1>1
  <1>3. \A x, y \in Deployers : Works(deployer'[x], m) /\ Works(deployer'[y], m) => x = y
    BY <1>2 DEF KeptFor
  <1>4. \A e \in Deployers : Works(deployer'[e], m) => JobInStep(deployer[e], m)'
    BY <1>2 DEF KeptFor, JobInStep, Current
  <1>5. \A c \in Targets : latest'[<<m, c>>] # None => deployment'[m] # None /\ Backed(m, c)'
    BY <1>2 DEF KeptFor, Backed
  <1> QED  BY <1>3, <1>4, <1>5 DEF KeptFor

(* A step of the only job of a bundle. *)
LEMMA OwnKept ==
    ASSUME DeployTyped, NEW m \in Names, NEW d \in Deployers, NEW r \in Job,
           deployer' = [deployer EXCEPT ![d] = r], r.name = m \/ r.pc = "idle",
           \A e \in Deployers \ {d} : ~ Works(deployer[e], m),
           Works(r, m) => JobInStep(r, m)',
           \A c \in Targets : latest'[<<m, c>>] # None => deployment'[m] # None /\ Backed(m, c)'
    PROVE  KeptFor(m)'
  <1>1. deployer'[d] = r /\ \A e \in Deployers \ {d} : deployer'[e] = deployer[e]
    BY DEF DeployTyped
  <1>2. \A e \in Deployers : Works(deployer'[e], m) => e = d
    BY <1>1
  <1>3. \A e \in Deployers : Works(deployer[e], m)' => JobInStep(deployer[e], m)'
    BY <1>1, <1>2
  <1> QED  BY <1>2, <1>3 DEF KeptFor

LEMMA BeginKept ==
    ASSUME DeployTyped, Kept, NEW d \in Deployers, NEW n \in Names, NEW c \in Targets,
           NEW v \in Versions, BeginDeploy(d, n, c, v)
    PROVE  Kept'
  <1> PICK r \in Job :
        /\ deployer' = [deployer EXCEPT ![d] = r]
        /\ r.pc = "read" /\ r.name = n /\ deployer[d].pc = "idle"
        /\ n \notin contended' => \A e \in Deployers : ~ Works(deployer[e], n)
        /\ contended \subseteq contended'
        /\ UNCHANGED <<deployment, finished, latest>>
    BY BeginStep
  <1> SUFFICES ASSUME NEW m \in Names \ contended' PROVE KeptFor(m)'  BY DEF Kept
  <1>1. KeptFor(m)  BY DEF Kept
  <1>2. CASE m # n
    BY <1>1, <1>2, OtherKept DEF Works
  <1>3. CASE m = n
    <2>1. JobInStep(r, m)'  BY DEF JobInStep
    <2>2. deployer'[d] = r /\ \A e \in Deployers \ {d} : deployer'[e] = deployer[e]
      BY DEF DeployTyped
    <2>3. \A x \in Targets : latest'[<<m, x>>] # None => deployment'[m] # None /\ Backed(m, x)'
      BY <1>1, <1>3, <2>2 DEF KeptFor, Backed
    <2> QED  BY <1>3, <2>1, <2>3, OwnKept
  <1> QED  BY <1>2, <1>3

LEMMA ReadKept ==
    ASSUME DeployTyped, Kept, NEW d \in Deployers, ReadDocument(d)
    PROVE  Kept'
  <1> PICK r \in Job :
        /\ deployer' = [deployer EXCEPT ![d] = r]
        /\ r.pc = "write" /\ r.name = deployer[d].name /\ r.name \in Names /\ r.doc = Current(r.name)
        /\ deployer[d].pc = "read"
        /\ UNCHANGED <<deployment, finished, latest, contended>>
    BY ReadStep
  <1> SUFFICES ASSUME NEW m \in Names \ contended PROVE KeptFor(m)'  BY DEF Kept
  <1>1. KeptFor(m)  BY DEF Kept
  <1>2. CASE m # r.name
    BY <1>1, <1>2, OtherKept DEF Works
  <1>3. CASE m = r.name
    <2>1. \A e \in Deployers \ {d} : ~ Works(deployer[e], m)  BY <1>1, <1>3 DEF KeptFor, Works
    <2>2. JobInStep(r, m)'  BY <1>3 DEF JobInStep, Current
    <2>3. deployer'[d] = r /\ \A e \in Deployers \ {d} : deployer'[e] = deployer[e]
      BY DEF DeployTyped
    <2>4. \A c \in Targets : latest'[<<m, c>>] # None => deployment'[m] # None /\ Backed(m, c)'
      BY <1>1, <1>3, <2>1, <2>3 DEF KeptFor, Backed
    <2> QED  BY <1>3, <2>1, <2>2, <2>4, OwnKept
  <1> QED  BY <1>2, <1>3

LEMMA WriteKept ==
    ASSUME DeployTyped, Kept, NEW d \in Deployers, WriteDocument(d)
    PROVE  Kept'
  <1> PICK r \in Job, doc \in Documents :
        /\ deployer' = [deployer EXCEPT ![d] = r]
        /\ deployer[d].pc = "write" /\ r.name \in Names /\ r.version \in Versions
        /\ r.pc = "invalidate" /\ r.name = deployer[d].name
        /\ doc = deployer[d].doc
        /\ deployment' = [deployment EXCEPT ![r.name] = SetVersion(doc, r.channel, r.version)]
        /\ UNCHANGED <<finished, latest, contended>>
    BY WriteStep
  <1> SUFFICES ASSUME NEW m \in Names \ contended PROVE KeptFor(m)'  BY DEF Kept
  <1>1. KeptFor(m)  BY DEF Kept
  <1>2. CASE m # r.name
    <2>1. deployment'[m] = deployment[m]  BY <1>2 DEF DeployTyped
    <2> QED  BY <1>1, <1>2, <2>1, OtherKept DEF Works
  <1>3. CASE m = r.name
    <2>1. Works(deployer[d], m)  BY <1>3 DEF Works
    <2>2. \A e \in Deployers \ {d} : ~ Works(deployer[e], m)  BY <1>1, <2>1 DEF KeptFor
    <2>3. doc = Current(m)  BY <1>1, <2>1 DEF KeptFor, JobInStep
    <2>4. r.channel \in Targets  BY DEF Job
    <2>5. deployment'[m] = SetVersion(doc, r.channel, r.version)  BY <1>3 DEF DeployTyped
    <2>6. /\ deployment'[m] # None
          /\ \A x \in Targets : Slot(deployment'[m], x) = IF x = r.channel THEN r.version ELSE Slot(doc, x)
      BY <2>4, <2>5, SetVersionSlot, AwsAssumption
    <2>7. JobInStep(r, m)'  BY <2>4, <2>6 DEF JobInStep
    <2>8. deployer'[d] = r /\ \A e \in Deployers \ {d} : deployer'[e] = deployer[e]
      BY DEF DeployTyped
    <2>9. ASSUME NEW c \in Targets, latest'[<<m, c>>] # None
          PROVE  deployment'[m] # None /\ Backed(m, c)'
      <3>1. deployment[m] # None /\ Backed(m, c)
        BY <1>1, <2>9 DEF KeptFor
      <3>2. doc = deployment[m]  BY <2>3, <3>1 DEF Current
      <3>3. CASE c = r.channel
        <4>1. deployer'[d].pc = "invalidate" /\ deployer'[d].name = m /\ deployer'[d].channel = c
          BY <1>3, <2>8, <3>3
        <4> QED  BY <2>6, <4>1 DEF Backed, Works
      <3>4. CASE c # r.channel
        <4>1. latest[<<m, c>>] = Slot(deployment[m], c)
          BY <2>2, <3>1 DEF Backed, Works
        <4>2. Slot(deployment'[m], c) = Slot(deployment[m], c)
          BY <2>6, <3>2, <3>4
        <4> QED  BY <2>6, <4>1, <4>2 DEF Backed
      <3> QED  BY <3>3, <3>4
    <2> QED  BY <1>3, <2>2, <2>7, <2>9, OwnKept
  <1> QED  BY <1>2, <1>3

LEMMA InvalidateKept ==
    ASSUME DeployTyped, Kept, NEW d \in Deployers, Invalidate(d)
    PROVE  Kept'
  <1> DEFINE j == deployer[d]
  <1>1. /\ deployer' = [deployer EXCEPT ![d] = Idle] /\ Idle \in Job /\ Idle.pc = "idle"
        /\ j.pc = "invalidate" /\ j.name \in Names
        /\ j.channel \in Targets /\ j.version \in Versions
        /\ latest' = [latest EXCEPT ![<<j.name, j.channel>>] = j.version]
        /\ UNCHANGED <<deployment, contended>>
    BY InvalidateStep
  <1> SUFFICES ASSUME NEW m \in Names \ contended PROVE KeptFor(m)'  BY <1>1 DEF Kept
  <1>2. KeptFor(m)  BY DEF Kept
  <1>3. ~ Works(Idle, m)  BY <1>1 DEF Works
  <1>4. CASE m # j.name
    <2>1. ~ Works(j, m) /\ \A c \in Targets : latest'[<<m, c>>] = latest[<<m, c>>]
      BY <1>1, <1>4 DEF Works, DeployTyped
    <2> QED  BY <1>1, <1>2, <1>3, <2>1, OtherKept
  <1>5. CASE m = j.name
    <2>1. Works(j, m) /\ \A e \in Deployers \ {d} : ~ Works(deployer[e], m)
      BY <1>1, <1>2, <1>5 DEF Works, KeptFor
    <2>2. deployment[m] # None /\ Slot(deployment[m], j.channel) = j.version
      BY <1>1, <1>2, <2>1 DEF KeptFor, JobInStep
    <2>3. ASSUME NEW c \in Targets, latest'[<<m, c>>] # None
          PROVE  deployment'[m] # None /\ Backed(m, c)'
      <3>1. CASE c = j.channel
        <4>1. latest'[<<m, c>>] = Slot(deployment'[m], c)
          BY <1>1, <1>5, <2>2, <3>1 DEF DeployTyped
        <4> QED  BY <1>1, <2>2, <4>1 DEF Backed
      <3>2. CASE c # j.channel
        <4>1. latest'[<<m, c>>] = latest[<<m, c>>]  BY <1>1, <3>2 DEF DeployTyped
        <4>2. Backed(m, c)  BY <1>2, <2>3, <4>1 DEF KeptFor
        <4>3. latest[<<m, c>>] = Slot(deployment[m], c)
          BY <2>1, <3>2, <4>2 DEF Backed
        <4> QED  BY <1>1, <2>2, <4>1, <4>3 DEF Backed
      <3> QED  BY <3>1, <3>2
    <2> QED  BY <1>1, <1>3, <2>1, <2>3, OwnKept
  <1> QED  BY <1>4, <1>5

LEMMA InitDeploys == Init => DeployTyped /\ Kept
  BY StoreAssumption
  DEF Init, AwsInit, DeployTyped, Kept, KeptFor, Works, JobShape, Job, Idle, Targets

LEMMA NextDeploys == DeployTyped /\ Kept /\ [Next]_vars => DeployTyped' /\ Kept'
  <1> SUFFICES ASSUME DeployTyped, Kept, [Next]_vars PROVE DeployTyped' /\ Kept'  OBVIOUS
  <1>1. CASE UNCHANGED deployVars
    BY <1>1
    DEF deployVars, DeployTyped, Kept, KeptFor, JobInStep, Current, Backed
  <1>2. ASSUME NEW d \in Deployers, Deploy(d) PROVE DeployTyped' /\ Kept'
    <2>1. DeployTyped'  BY <1>2, DeployStepTyped
    <2>2. Kept'  BY <1>2, BeginKept, ReadKept, WriteKept, InvalidateKept DEF Deploy
    <2> QED  BY <2>1, <2>2
  <1> QED  BY <1>1, <1>2
       DEF Next, FromCache, OriginRequest, OriginResponse, GetVersion, List, StartList, ReadForList,
           AnswerList, Drop, UploadBundle, vars, awsVars

(***************************************************************************)
(* A deploy that has ended stays in effect until another one to the same   *)
(* channel, unless two deploys of that bundle have overlapped.             *)
(***************************************************************************)
THEOREM EndedDeploysKept == Spec => []DeploysKept
  <1>1. DeployTyped /\ Kept => DeploysKept
    <2> SUFFICES ASSUME DeployTyped, Kept, NEW n \in Names, NEW c \in Targets,
                        ~ Deploying(n), n \notin contended, latest[<<n, c>>] # None
                 PROVE  deployment[n] # None /\ latest[<<n, c>>] = Slot(deployment[n], c)
      BY DEF DeploysKept, Slot
    <2>1. deployment[n] # None /\ Backed(n, c)
      BY DEF Kept, KeptFor
    <2> QED  BY <2>1 DEF Backed, Deploying, Works
  <1> QED  BY <1>1, InitDeploys, NextDeploys, PTL DEF Spec

(***************************************************************************)
(* AWS: what CloudFront keeps                                              *)
(***************************************************************************)

Listings == [on : BOOLEAN, read : SUBSET Names, version : [Names -> Versions \cup {None}]]

OriginTyped ==
    /\ DOMAIN cache = Names \X Targets
    /\ DOMAIN listCache = Targets
    /\ fetching \in [Names \X Targets -> Versions \cup {None}]
    /\ gathering \in [Targets -> Listings]

\* No job is about to invalidate the answers of a bundle in a channel.
Settled(n, c) ==
    \A d \in Deployers :
        ~ (Works(deployer[d], n) /\ deployer[d].pc = "invalidate" /\ deployer[d].channel = c)

\* The answers that are being made say what the documents say.
InFlight(n, c) ==
    /\ fetching[<<n, c>>] \in {None, Effective(n, c)}
    /\ gathering[c].version[n] \in {None, Effective(n, c)}

\* So do those that are kept, unless they are about to be dropped.
Agrees(n, c) ==
    /\ BundleUrl(n, c) \notin invalidating /\ cache[<<n, c>>] # None =>
          cache[<<n, c>>].version = Effective(n, c)
    /\ ListUrl(c) \notin invalidating /\ listCache[c] # None =>
          listCache[c][n] \in {None, Effective(n, c)}

FreshFor(n, c) == OwnVersion(n, c) /\ Settled(n, c) /\ <<n, c>> \notin overtaken => Agrees(n, c)

InFlightFresh == \A n \in Names, c \in Targets : <<n, c>> \notin overtaken => InFlight(n, c)

Fresh == Invalidates => \A n \in Names \ contended, c \in Targets : FreshFor(n, c)

CacheInv == OriginTyped /\ InFlightFresh /\ Fresh

LEMMA EffectiveVersion ==
    ASSUME DeployTyped, NEW n \in Names, NEW c \in Targets
    PROVE  Effective(n, c) \in Versions \cup {None}
  BY DEF DeployTyped, Documents, Effective, VersionIn, Targets

(* A step that does not touch the document of a bundle, drops answers or     *)
(* keeps them, and settles no channel of it.                                 *)
LEMMA FreshUnlessWritten ==
    ASSUME NEW n \in Names, NEW c \in Targets, FreshFor(n, c),
           deployment'[n] = deployment[n], Settled(n, c)' => Settled(n, c), overtaken \subseteq overtaken',
           BundleUrl(n, c) \notin invalidating' /\ cache'[<<n, c>>] # None =>
               BundleUrl(n, c) \notin invalidating /\ cache'[<<n, c>>] = cache[<<n, c>>],
           ListUrl(c) \notin invalidating' /\ listCache'[c] # None =>
               ListUrl(c) \notin invalidating /\ listCache'[c] = listCache[c]
    PROVE  FreshFor(n, c)'
  BY DEF FreshFor, OwnVersion, Agrees, Effective, BundleUrl, ListUrl

(* Only the end of a deploy settles the channel it was for. *)
LEMMA SettledBefore ==
    ASSUME DeployTyped, NEW d \in Deployers, NEW r \in Job, deployer' = [deployer EXCEPT ![d] = r],
           NEW n \in Names, NEW c \in Targets, Settled(n, c)',
           ~ (Works(deployer[d], n) /\ deployer[d].pc = "invalidate" /\ deployer[d].channel = c)
    PROVE  Settled(n, c)
  <1>1. \A e \in Deployers \ {d} : deployer'[e] = deployer[e]  BY DEF DeployTyped
  <1> QED  BY <1>1 DEF Settled

(* A job that begins or reads. *)
LEMMA QuietFresh ==
    ASSUME DeployTyped, CacheInv, NEW d \in Deployers, NEW r \in Job,
           deployer' = [deployer EXCEPT ![d] = r], deployer[d].pc # "invalidate",
           contended \subseteq contended', UNCHANGED <<deployment, overtaken, answering>>
    PROVE  CacheInv'
  <1>1. OriginTyped' /\ InFlightFresh'
    BY DEF CacheInv, OriginTyped, InFlightFresh, InFlight, Effective, answering
  <1>2. ASSUME Invalidates, NEW m \in Names \ contended', NEW x \in Targets PROVE FreshFor(m, x)'
    <2>1. FreshFor(m, x)  BY <1>2 DEF CacheInv, Fresh
    <2>2. Settled(m, x)' => Settled(m, x)  BY SettledBefore
    <2> QED  BY <2>1, <2>2, FreshUnlessWritten DEF answering
  <1> QED  BY <1>1, <1>2 DEF CacheInv, Fresh

LEMMA WriteFresh ==
    ASSUME DeployTyped, Kept, CacheInv, NEW d \in Deployers, WriteDocument(d)
    PROVE  CacheInv'
  <1> PICK r \in Job, doc \in Documents :
        /\ deployer' = [deployer EXCEPT ![d] = r]
        /\ deployer[d].pc = "write" /\ r.name \in Names /\ r.version \in Versions
        /\ r.pc = "invalidate" /\ r.name = deployer[d].name /\ doc = deployer[d].doc
        /\ deployment' = [deployment EXCEPT ![r.name] = SetVersion(doc, r.channel, r.version)]
        /\ overtaken' = overtaken \cup
               ({r.name} \X Outdated(r.name, SetVersion(doc, r.channel, r.version)))
        /\ UNCHANGED <<contended, answering>>
    BY WriteStep
  <1> DEFINE new == SetVersion(doc, r.channel, r.version)
  <1>1. r.channel \in Targets /\ new \in Documents /\ new # None
    <2>1. r.channel \in Targets  BY DEF Job
    <2> QED  BY <2>1, SetVersionSlot, AwsAssumption
  <1>2. /\ deployment'[r.name] = new
        /\ \A m \in Names : m # r.name => deployment'[m] = deployment[m]
    BY DEF DeployTyped
  <1>3. OriginTyped'  BY DEF CacheInv, OriginTyped, answering
  <1>4. ASSUME NEW m \in Names, NEW x \in Targets, <<m, x>> \notin overtaken' PROVE InFlight(m, x)'
    <2>1. InFlight(m, x)  BY <1>4 DEF CacheInv, InFlightFresh
    <2>2. CASE m # r.name
      BY <1>2, <2>1, <2>2 DEF InFlight, Effective, answering
    <2>3. CASE m = r.name
      <3>1. x \notin Outdated(m, new)  BY <1>4, <2>3
      <3>2. Effective(m, x)' = VersionIn(new, x)  BY <1>1, <1>2, <2>3 DEF Effective
      <3> HIDE DEF new
      <3>3. \A v \in {fetching[<<m, x>>], gathering[x].version[m]} : v \in {None, VersionIn(new, x)}
        BY <3>1 DEF Outdated
      <3> QED  BY <3>2, <3>3 DEF InFlight, answering
    <2> QED  BY <2>2, <2>3
  <1>5. ASSUME Invalidates, NEW m \in Names \ contended', NEW x \in Targets PROVE FreshFor(m, x)'
    <2>1. FreshFor(m, x)  BY <1>5 DEF CacheInv, Fresh
    <2>2. Settled(m, x)' => Settled(m, x)  BY SettledBefore
    <2>3. CASE m # r.name
      BY <1>2, <2>1, <2>2, <2>3, FreshUnlessWritten DEF answering
    <2>4. CASE m = r.name /\ x = r.channel
      <3>1. deployer'[d] = r  BY DEF DeployTyped
      <3>2. ~ Settled(m, x)'  BY <2>4, <3>1 DEF Settled, Works
      <3> QED  BY <3>2 DEF FreshFor
    <2>5. CASE m = r.name /\ x # r.channel
      <3>1. KeptFor(m) /\ Works(deployer[d], m)  BY <2>5 DEF Kept, Works
      <3>2. doc = Current(m)  BY <3>1 DEF KeptFor, JobInStep
      <3>3. Slot(deployment'[m], x) = Slot(Current(m), x)
        BY <1>1, <1>2, <2>5, <3>2, SetVersionSlot
      <3>4. OwnVersion(m, x)' => OwnVersion(m, x) /\ Effective(m, x)' = Effective(m, x)
        BY <1>1, <1>2, <2>5, <3>3, StoreAssumption
        DEF OwnVersion, Effective, VersionIn, Slot, Current, EmptyDocument, Targets
      <3> QED  BY <2>1, <2>2, <3>4 DEF FreshFor, Agrees, answering, BundleUrl, ListUrl
    <2> QED  BY <2>3, <2>4, <2>5
  <1> QED  BY <1>3, <1>4, <1>5 DEF CacheInv, InFlightFresh, Fresh

LEMMA InvalidateFresh ==
    ASSUME DeployTyped, CacheInv, NEW d \in Deployers, Invalidate(d)
    PROVE  CacheInv'
  <1> DEFINE j == deployer[d]
  <1>1. /\ deployer' = [deployer EXCEPT ![d] = Idle] /\ Idle \in Job
        /\ Invalidates => invalidating' = invalidating \cup
                              {BundleUrl(j.name, j.channel), ListUrl(j.channel)}
        /\ UNCHANGED <<deployment, contended, overtaken, cache, listCache, fetching, gathering>>
    BY InvalidateStep
  <1>2. OriginTyped' /\ InFlightFresh'
    BY <1>1 DEF CacheInv, OriginTyped, InFlightFresh, InFlight, Effective
  <1>3. ASSUME Invalidates, NEW m \in Names \ contended', NEW x \in Targets PROVE FreshFor(m, x)'
    <2>1. FreshFor(m, x)  BY <1>1, <1>3 DEF CacheInv, Fresh
    <2>2. CASE m = j.name /\ x = j.channel
      <3>1. BundleUrl(m, x) \in invalidating' /\ ListUrl(x) \in invalidating'
        BY <1>1, <1>3, <2>2
      <3> QED  BY <3>1 DEF FreshFor, Agrees, BundleUrl, ListUrl
    <2>3. CASE ~ (m = j.name /\ x = j.channel)
      <3>1. Settled(m, x)' => Settled(m, x)  BY <1>1, <2>3, SettledBefore DEF Works
      <3>2. invalidating \subseteq invalidating'  BY <1>1, <1>3
      <3> QED  BY <1>1, <2>1, <3>1, <3>2, FreshUnlessWritten
    <2> QED  BY <2>2, <2>3
  <1> QED  BY <1>2, <1>3 DEF CacheInv, Fresh

LEMMA DeployFresh ==
    ASSUME DeployTyped, Kept, CacheInv, NEW d \in Deployers, Deploy(d)
    PROVE  CacheInv'
  <1>1. CASE \E n \in Names, c \in Targets, v \in Versions : BeginDeploy(d, n, c, v)
    BY <1>1, BeginStep, QuietFresh
  <1>2. CASE ReadDocument(d)  BY <1>2, ReadStep, QuietFresh
  <1> QED  BY <1>1, <1>2, WriteFresh, InvalidateFresh DEF Deploy

(* A step that is not one of a deploy. *)
LEMMA ServingFresh ==
    ASSUME CacheInv, UNCHANGED deployVars, OriginTyped',
           \A n \in Names, c \in Targets :
              <<n, c>> \notin overtaken =>
                 /\ fetching'[<<n, c>>] \in {None, Effective(n, c), fetching[<<n, c>>]}
                 /\ gathering'[c].version[n] \in {None, Effective(n, c), gathering[c].version[n]}
                 /\ BundleUrl(n, c) \notin invalidating' /\ cache'[<<n, c>>] # None =>
                       \/ BundleUrl(n, c) \notin invalidating /\ cache'[<<n, c>>] = cache[<<n, c>>]
                       \/ cache'[<<n, c>>].version = Effective(n, c)
                 /\ ListUrl(c) \notin invalidating' /\ listCache'[c] # None =>
                       \/ ListUrl(c) \notin invalidating /\ listCache'[c] = listCache[c]
                       \/ listCache'[c][n] \in {None, Effective(n, c)}
    PROVE  CacheInv'
  <1>1. UNCHANGED <<deployment, deployer, contended, overtaken>>  BY DEF deployVars
  <1>2. \A n \in Names, c \in Targets : /\ OwnVersion(n, c)' <=> OwnVersion(n, c)
                                        /\ Settled(n, c)' <=> Settled(n, c)
                                        /\ Effective(n, c)' = Effective(n, c)
    BY <1>1 DEF OwnVersion, Settled, Effective
  <1>3. InFlightFresh'
    BY <1>1, <1>2 DEF CacheInv, InFlightFresh, InFlight
  <1>4. ASSUME NEW n \in Names, NEW c \in Targets, FreshFor(n, c) PROVE FreshFor(n, c)'
    BY <1>1, <1>2, <1>4 DEF FreshFor, Agrees, BundleUrl, ListUrl
  <1>5. Fresh'  BY <1>1, <1>4 DEF CacheInv, Fresh
  <1> QED  BY <1>3, <1>5 DEF CacheInv

LEMMA DropFresh ==
    ASSUME CacheInv, NEW url \in RemoteUrls, Drop(url)
    PROVE  CacheInv'
  <1>1. OriginTyped'  BY DEF Drop, CacheInv, OriginTyped, originVars
  <1>2. ASSUME NEW n \in Names, NEW c \in Targets
        PROVE  /\ BundleUrl(n, c) \notin invalidating' /\ cache'[<<n, c>>] # None =>
                      BundleUrl(n, c) \notin invalidating /\ cache'[<<n, c>>] = cache[<<n, c>>]
               /\ ListUrl(c) \notin invalidating' /\ listCache'[c] # None =>
                      ListUrl(c) \notin invalidating /\ listCache'[c] = listCache[c]
    BY DEF Drop, BundleUrl
  <1> QED  BY <1>1, <1>2, ServingFresh DEF Drop, originVars

(* The origin reads what the documents say now; what it has read is answered *)
(* and kept.                                                                 *)
LEMMA RequestFresh ==
    ASSUME DeployTyped, CacheInv, NEW n \in Names, NEW c \in Targets, OriginRequest(n, c)
    PROVE  CacheInv'
  <1>1. /\ fetching' = [fetching EXCEPT ![<<n, c>>] = Effective(n, c)]
        /\ UNCHANGED <<deployVars, cache, listCache, invalidating, gathering>>
    BY DEF OriginRequest, cacheVars, BundleUrl
  <1>2. OriginTyped'  BY <1>1, EffectiveVersion DEF CacheInv, OriginTyped
  <1>3. \A m \in Names, x \in Targets : fetching'[<<m, x>>] \in {Effective(m, x), fetching[<<m, x>>]}
    BY <1>1 DEF CacheInv, OriginTyped
  <1> QED  BY <1>1, <1>2, <1>3, ServingFresh

LEMMA ResponseFresh ==
    ASSUME CacheInv, NEW n \in Names, NEW c \in Targets, OriginResponse(n, c)
    PROVE  CacheInv'
  <1> DEFINE u == <<n, c>>
  <1>1. /\ fetching[u] # None /\ answer' = Fetch(n, fetching[u])
        /\ cache' = cache \/ (cache' = [cache EXCEPT ![u] = answer'] /\ answer'.status = 200)
        /\ fetching' = [fetching EXCEPT ![u] = None]
        /\ UNCHANGED <<deployVars, listCache, invalidating, gathering>>
    BY DEF OriginResponse, BundleUrl
  <1>2. answer'.status = 200 => answer'.version = fetching[u]
    BY <1>1 DEF Fetch, Failure
  <1>3. OriginTyped'  BY <1>1 DEF CacheInv, OriginTyped
  <1>4. <<n, c>> \notin overtaken => fetching[u] = Effective(n, c)
    BY <1>1 DEF CacheInv, InFlightFresh, InFlight
  <1>5. ASSUME NEW m \in Names, NEW x \in Targets, <<m, x>> \notin overtaken
        PROVE  cache'[<<m, x>>] = cache[<<m, x>>] \/ cache'[<<m, x>>].version = Effective(m, x)
    BY <1>1, <1>2, <1>4, <1>5 DEF CacheInv, OriginTyped
  <1>6. \A m \in Names, x \in Targets : fetching'[<<m, x>>] \in {None, fetching[<<m, x>>]}
    BY <1>1 DEF CacheInv, OriginTyped
  <1> QED  BY <1>1, <1>3, <1>5, <1>6, ServingFresh

LEMMA ListFresh ==
    ASSUME DeployTyped, CacheInv, NEW c \in Targets, List(c)
    PROVE  CacheInv'
  <1>1. gathering[c] \in Listings /\ gathering \in [Targets -> Listings]
    BY DEF CacheInv, OriginTyped
  <1>2. UNCHANGED <<deployVars, cache, invalidating, fetching>>
    BY DEF List, StartList, ReadForList, AnswerList, cacheVars
  <1>3. ASSUME NEW g \in Listings, gathering' = [gathering EXCEPT ![c] = g],
               \A m \in Names : g.version[m] \in {None, Effective(m, c), gathering[c].version[m]},
               \/ listCache' = listCache
               \/ listCache' = [listCache EXCEPT ![c] = gathering[c].version]
        PROVE  CacheInv'
    <2>1. OriginTyped'  BY <1>2, <1>3 DEF CacheInv, OriginTyped
    <2>2. ASSUME NEW m \in Names, NEW x \in Targets, <<m, x>> \notin overtaken
          PROVE  /\ gathering'[x].version[m] \in {None, Effective(m, x), gathering[x].version[m]}
                 /\ listCache'[x] = listCache[x] \/ listCache'[x][m] \in {None, Effective(m, x)}
      <3>1. gathering[x].version[m] \in {None, Effective(m, x)}
        BY <2>2 DEF CacheInv, InFlightFresh, InFlight
      <3> QED  BY <1>1, <1>3, <3>1 DEF CacheInv, OriginTyped
    <2> QED  BY <1>2, <2>1, <2>2, ServingFresh
  <1>4. CASE StartList(c)
    <2> DEFINE g == [gathering[c] EXCEPT !.on = TRUE]
    <2>1. g \in Listings /\ g.version = gathering[c].version  BY <1>1 DEF Listings
    <2>2. gathering' = [gathering EXCEPT ![c] = g] /\ listCache' = listCache
      BY <1>4 DEF StartList, cacheVars
    <2> HIDE DEF g
    <2> QED  BY <1>3, <2>1, <2>2
  <1>5. ASSUME NEW n \in Names, ReadForList(c, n) PROVE CacheInv'
    <2>1. PICK v \in {Effective(n, c), None} :
             gathering' = [gathering EXCEPT ![c] = [on |-> TRUE, read |-> @.read \cup {n},
                                                    version |-> [@.version EXCEPT ![n] = v]]]
      BY <1>5 DEF ReadForList
    <2> DEFINE g == [on |-> TRUE, read |-> gathering[c].read \cup {n},
                     version |-> [gathering[c].version EXCEPT ![n] = v]]
    <2>2. v \in Versions \cup {None}  BY EffectiveVersion
    <2>3. g \in Listings  BY <1>1, <2>2 DEF Listings
    <2>4. \A m \in Names : g.version[m] \in {None, Effective(m, c), gathering[c].version[m]}
      BY <1>1 DEF Listings
    <2>5. gathering' = [gathering EXCEPT ![c] = g] /\ listCache' = listCache
      BY <1>5, <2>1 DEF ReadForList, cacheVars
    <2> HIDE DEF g
    <2> QED  BY <1>3, <2>3, <2>4, <2>5
  <1>6. CASE AnswerList(c)
    <2>1. NoListing \in Listings /\ \A m \in Names : NoListing.version[m] = None
      BY DEF NoListing, Listings
    <2>2. PICK g \in Listings : g = NoListing  BY <2>1
    <2> QED  BY <1>3, <1>6, <2>1, <2>2 DEF AnswerList
  <1> QED  BY <1>4, <1>5, <1>6 DEF List

LEMMA InitFresh == Init => CacheInv
  <1>1. NoListing \in Listings /\ \A n \in Names : NoListing.version[n] = None
    BY DEF NoListing, Listings
  <1> QED  BY <1>1
           DEF Init, AwsInit, CacheInv, OriginTyped, InFlightFresh, InFlight, Fresh, FreshFor, Agrees

LEMMA NextFresh == DeployTyped /\ Kept /\ CacheInv /\ [Next]_vars => CacheInv'
  <1> SUFFICES ASSUME DeployTyped, Kept, CacheInv, [Next]_vars PROVE CacheInv'
    OBVIOUS
  <1>1. CASE UNCHANGED <<deployVars, cacheVars, invalidating, originVars>>
    BY <1>1, ServingFresh DEF cacheVars, originVars, CacheInv, OriginTyped
  <1>2. ASSUME NEW d \in Deployers, Deploy(d) PROVE CacheInv'
    BY <1>2, DeployFresh
  <1>3. ASSUME NEW n \in Names, NEW c \in AskedChannels, OriginRequest(n, c) \/ OriginResponse(n, c)
        PROVE  CacheInv'
    BY <1>3, RequestFresh, ResponseFresh, AwsAssumption
  <1>4. ASSUME NEW c \in AskedChannels, List(c) PROVE CacheInv'
    BY <1>4, ListFresh, AwsAssumption
  <1>5. ASSUME NEW url \in RemoteUrls, Drop(url) PROVE CacheInv'
    BY <1>5, DropFresh
  <1> QED  BY <1>1, <1>2, <1>3, <1>4, <1>5 DEF Next, FromCache, GetVersion, UploadBundle, vars, awsVars

(***************************************************************************)
(* Between deploys, and when what they have asked to be dropped is, the    *)
(* distribution answers, for the default channel and for channels with a   *)
(* version of their own, what the documents say, unless an answer was      *)
(* being made while its document was written.                              *)
(***************************************************************************)
THEOREM CacheAlwaysFresh == Spec => []CacheFresh
  <1>1. CacheInv => CacheFresh
    BY DEF CacheInv, Fresh, FreshFor, CacheFresh, Settled, Agrees, Deploying, Works
  <1> QED  BY <1>1, InitDeploys, NextDeploys, InitFresh, NextFresh, PTL DEF Spec

(***************************************************************************)
(* AWS: what clients are given                                             *)
(***************************************************************************)

\* A version of a bundle that a deploy is for, or was.
Known(n, v) ==
    \/ \E f \in finished : f.name = n /\ f.version = v
    \/ \E d \in Deployers : Works(deployer[d], n) /\ deployer[d].version = v

\* The versions of a document are those of deploys of its bundle.
OfDeploys(doc, n) == \A c \in Targets : Slot(doc, c) # None => Known(n, Slot(doc, c))

DocumentsKnown ==
    /\ \A n \in Names : deployment[n] # None => OfDeploys(deployment[n], n)
    /\ \A d \in Deployers : deployer[d].pc = "write" => OfDeploys(deployer[d].doc, deployer[d].name)

AnswerKnown(a) == a # None /\ a.status = 200 => Known(a.name, a.version)

AnswersKnown ==
    /\ \A u \in Names \X Targets : AnswerKnown(cache[u])
    /\ \A u \in Names \X Targets : fetching[u] # None => Known(u[1], fetching[u])
    /\ ~ AllowOther => AnswerKnown(answer)

LEMMA KnownStays ==
    ASSUME DeployTyped, NEW d \in Deployers, Deploy(d), NEW n, NEW v, Known(n, v)
    PROVE  Known(n, v)'
  <1>1. ASSUME NEW r \in Job, deployer' = [deployer EXCEPT ![d] = r], finished' = finished,
               deployer[d].pc = "idle" \/ (r.pc # "idle" /\ r.name = deployer[d].name
                                           /\ r.version = deployer[d].version)
        PROVE  Known(n, v)'
    <2>1. deployer'[d] = r /\ \A e \in Deployers \ {d} : deployer'[e] = deployer[e]
      BY <1>1 DEF DeployTyped
    <2>2. ASSUME NEW e \in Deployers, Works(deployer[e], n), deployer[e].version = v
          PROVE  Works(deployer'[e], n) /\ deployer'[e].version = v
      BY <1>1, <2>1, <2>2 DEF Works
    <2> QED  BY <1>1, <2>2 DEF Known
  <1>2. CASE \E m \in Names, c \in Targets, w \in Versions : BeginDeploy(d, m, c, w)
    BY <1>1, <1>2, BeginStep
  <1>3. CASE ReadDocument(d)
    <2> PICK r \in Job : /\ deployer' = [deployer EXCEPT ![d] = r] /\ r.pc = "write"
                         /\ r.name = deployer[d].name /\ r.version = deployer[d].version
                         /\ finished' = finished
      BY <1>3, ReadStep
    <2> QED  BY <1>1
  <1>4. CASE WriteDocument(d)
    <2> PICK r \in Job : /\ deployer' = [deployer EXCEPT ![d] = r] /\ r.pc = "invalidate"
                         /\ r.name = deployer[d].name /\ r.version = deployer[d].version
                         /\ finished' = finished
      BY <1>4, WriteStep
    <2> QED  BY <1>1
  <1>5. CASE Invalidate(d)
    <2> DEFINE j == deployer[d]
               done == [name |-> j.name, channel |-> j.channel, version |-> j.version]
    <2>1. deployer' = [deployer EXCEPT ![d] = Idle] /\ finished' = finished \cup {done}
      BY <1>5, InvalidateStep
    <2>2. \A e \in Deployers \ {d} : deployer'[e] = deployer[e]  BY <2>1 DEF DeployTyped
    <2>3. done.name = j.name /\ done.version = j.version  OBVIOUS
    <2> HIDE DEF done
    <2>4. CASE Works(j, n) /\ j.version = v
      BY <2>1, <2>3, <2>4 DEF Known, Works
    <2>5. CASE ~ (Works(j, n) /\ j.version = v)
      BY <2>1, <2>2, <2>5 DEF Known
    <2> QED  BY <2>4, <2>5
  <1> QED  BY <1>2, <1>3, <1>4, <1>5 DEF Deploy

LEMMA DeployKnown ==
    ASSUME DeployTyped, DocumentsKnown, NEW d \in Deployers, Deploy(d)
    PROVE  DocumentsKnown'
  <1>1. ASSUME NEW n \in Names, NEW doc, OfDeploys(doc, n) PROVE OfDeploys(doc, n)'
    BY <1>1, KnownStays DEF OfDeploys
  <1>2. \A e \in Deployers : deployer[e].pc = "write" => deployer[e].name \in Names
    BY DEF DeployTyped, JobShape
  <1>3. ASSUME NEW r \in Job, deployer' = [deployer EXCEPT ![d] = r], deployment' = deployment,
               r.pc = "write" => OfDeploys(r.doc, r.name)'
        PROVE  DocumentsKnown'
    <2>1. deployer'[d] = r /\ \A e \in Deployers \ {d} : deployer'[e] = deployer[e]
      BY <1>3 DEF DeployTyped
    <2> QED  BY <1>1, <1>2, <1>3, <2>1 DEF DocumentsKnown
  <1>4. CASE \E m \in Names, c \in Targets, w \in Versions : BeginDeploy(d, m, c, w)
    <2> PICK r \in Job : /\ deployer' = [deployer EXCEPT ![d] = r] /\ r.pc = "read"
                         /\ deployment' = deployment
      BY <1>4, BeginStep
    <2> QED  BY <1>3
  <1>5. CASE ReadDocument(d)
    <2> PICK r \in Job : /\ deployer' = [deployer EXCEPT ![d] = r] /\ r.name \in Names
                         /\ r.doc = Current(r.name) /\ deployment' = deployment
      BY <1>5, ReadStep
    <2>1. OfDeploys(r.doc, r.name)
      <3>1. \A c \in Targets : Slot(EmptyDocument, c) = None
        BY DEF Slot, EmptyDocument, Targets
      <3>2. OfDeploys(EmptyDocument, r.name)  BY <3>1 DEF OfDeploys
      <3>3. deployment[r.name] # None => OfDeploys(deployment[r.name], r.name)  BY DEF DocumentsKnown
      <3> QED  BY <3>2, <3>3 DEF Current
    <2> QED  BY <1>1, <1>3, <2>1
  <1>6. CASE WriteDocument(d)
    <2> PICK r \in Job, doc \in Documents :
                /\ deployer' = [deployer EXCEPT ![d] = r]
                /\ deployer[d].pc = "write" /\ r.name \in Names /\ r.version \in Versions
                /\ r.pc = "invalidate" /\ r.name = deployer[d].name /\ doc = deployer[d].doc
                /\ deployment' = [deployment EXCEPT ![r.name] = SetVersion(doc, r.channel, r.version)]
      BY <1>6, WriteStep
    <2>1. deployer'[d] = r /\ \A e \in Deployers \ {d} : deployer'[e] = deployer[e]
      BY DEF DeployTyped
    <2>2. r.channel \in Targets  BY DEF Job
    <2>3. OfDeploys(doc, r.name)'  BY <1>1 DEF DocumentsKnown
    <2>4. Known(r.name, r.version)'  BY <2>1 DEF Known, Works
    <2>5. OfDeploys(SetVersion(doc, r.channel, r.version), r.name)'
      BY <2>2, <2>3, <2>4, SetVersionSlot DEF OfDeploys
    <2>6. \A n \in Names : deployment'[n] = IF n = r.name THEN SetVersion(doc, r.channel, r.version)
                                            ELSE deployment[n]
      BY DEF DeployTyped
    <2>7. ASSUME NEW n \in Names, NEW x, x = deployment'[n], x # None PROVE OfDeploys(x, n)'
      BY <1>1, <2>5, <2>6, <2>7 DEF DocumentsKnown
    <2>8. ASSUME NEW e \in Deployers, NEW x, NEW n, x = deployer'[e].doc, n = deployer'[e].name,
                 deployer'[e].pc = "write"
          PROVE  OfDeploys(x, n)'
      BY <1>1, <1>2, <2>1, <2>8 DEF DocumentsKnown
    <2> QED  BY <2>7, <2>8 DEF DocumentsKnown, OfDeploys, Known
  <1>7. CASE Invalidate(d)
    <2>1. /\ deployer' = [deployer EXCEPT ![d] = Idle] /\ Idle \in Job /\ Idle.pc = "idle"
          /\ deployment' = deployment
      BY <1>7, InvalidateStep
    <2>2. PICK r \in Job : r = Idle  BY <2>1
    <2> QED  BY <1>3, <2>1, <2>2
  <1> QED  BY <1>4, <1>5, <1>6, <1>7 DEF Deploy

LEMMA InitKnown == Init => DocumentsKnown /\ AnswersKnown
  BY DEF Init, AwsInit, DocumentsKnown, AnswersKnown, AnswerKnown, Idle

(* The version of a channel, or the one it follows, is of a deploy. *)
LEMMA EffectiveKnown ==
    ASSUME DocumentsKnown, NEW n \in Names, NEW c \in Targets, Effective(n, c) # None
    PROVE  Known(n, Effective(n, c))
  <1>1. OfDeploys(deployment[n], n) /\ None \in Targets
    BY DEF DocumentsKnown, Effective, Targets
  <1>2. \E x \in Targets : Effective(n, c) = Slot(deployment[n], x)
    BY <1>1 DEF Effective, VersionIn, Slot
  <1> QED  BY <1>1, <1>2 DEF OfDeploys

LEMMA NextKnown ==
    DeployTyped /\ CacheInv /\ DocumentsKnown /\ AnswersKnown /\ [Next]_vars =>
        DocumentsKnown' /\ AnswersKnown'
  <1> SUFFICES ASSUME DeployTyped, CacheInv, DocumentsKnown, AnswersKnown, [Next]_vars
               PROVE  DocumentsKnown' /\ AnswersKnown'
    OBVIOUS
  <1>0. DOMAIN cache = Names \X Targets /\ DOMAIN fetching = Names \X Targets
    BY DEF CacheInv, OriginTyped
  <1>1. ASSUME UNCHANGED deployVars,
               \A u \in Names \X Targets : AnswerKnown(cache'[u]),
               \A u \in Names \X Targets : fetching'[u] # None => Known(u[1], fetching'[u]),
               ~ AllowOther => AnswerKnown(answer')
        PROVE  DocumentsKnown' /\ AnswersKnown'
    BY <1>1
    DEF deployVars, DocumentsKnown, OfDeploys, AnswersKnown, AnswerKnown, Known
  <1>2. ASSUME UNCHANGED <<deployVars, fetching>>,
               \A u \in Names \X Targets : cache'[u] \in {None, cache[u]},
               answer' = answer \/ answer' = None \/ (~ AllowOther => answer'.status # 200)
        PROVE  DocumentsKnown' /\ AnswersKnown'
    BY <1>1, <1>2 DEF AnswersKnown, AnswerKnown
  <1>3. ASSUME NEW n \in Names, NEW c \in AskedChannels, FromCache(n, c)
        PROVE  DocumentsKnown' /\ AnswersKnown'
    <2>1. <<n, c>> \in Names \X Targets  BY AwsAssumption
    <2> QED  BY <1>1, <1>3, <2>1 DEF FromCache, BundleUrl, AnswersKnown, cacheVars, originVars
  <1>4. ASSUME NEW n \in Names, NEW c \in AskedChannels, OriginRequest(n, c)
        PROVE  DocumentsKnown' /\ AnswersKnown'
    <2> DEFINE u == <<n, c>>
    <2>1. u \in Names \X Targets /\ u[1] = n /\ c \in Targets  BY AwsAssumption
    <2>2. /\ fetching' = [fetching EXCEPT ![u] = Effective(n, c)] /\ UNCHANGED <<deployVars, cache>>
          /\ answer' = None \/ answer' = Failure(404)
      BY <1>4 DEF OriginRequest, BundleUrl, cacheVars
    <2>3. Effective(n, c) # None => Known(n, Effective(n, c))  BY <2>1, EffectiveKnown
    <2> HIDE DEF u
    <2>4. \A x \in Names \X Targets : fetching'[x] # None => Known(x[1], fetching'[x])
      BY <1>0, <2>1, <2>2, <2>3 DEF AnswersKnown
    <2> QED  BY <1>1, <2>2, <2>4 DEF AnswersKnown, AnswerKnown, Failure
  <1>5. ASSUME NEW n \in Names, NEW c \in AskedChannels, OriginResponse(n, c)
        PROVE  DocumentsKnown' /\ AnswersKnown'
    <2> DEFINE u == <<n, c>>
    <2>1. u \in Names \X Targets /\ u[1] = n  BY AwsAssumption
    <2>2. /\ fetching[u] # None /\ answer' = Fetch(n, fetching[u])
          /\ cache' = cache \/ cache' = [cache EXCEPT ![u] = answer']
          /\ fetching' = [fetching EXCEPT ![u] = None] /\ UNCHANGED deployVars
      BY <1>5 DEF OriginResponse, BundleUrl
    <2> HIDE DEF u
    <2>3. PICK a : a = answer'  OBVIOUS
    <2>4. a.status = 200 => a.name = n /\ a.version = fetching[u]
      BY <2>2, <2>3 DEF Fetch, Failure
    <2>5. AnswerKnown(a)  BY <2>1, <2>2, <2>4 DEF AnswersKnown, AnswerKnown
    <2>6. \A x \in Names \X Targets : /\ cache'[x] \in {cache[x], a}
                                      /\ fetching'[x] \in {None, fetching[x]}
      BY <1>0, <2>1, <2>2, <2>3
    <2>7. \A x \in Names \X Targets : /\ AnswerKnown(cache'[x])
                                      /\ fetching'[x] # None => Known(x[1], fetching'[x])
      BY <2>5, <2>6 DEF AnswersKnown
    <2>8. AnswerKnown(answer')  BY <2>3, <2>5 DEF AnswerKnown
    <2> QED  BY <1>1, <2>2, <2>7, <2>8
  <1>6. ASSUME NEW n \in Names, NEW v \in Versions, GetVersion(n, v)
        PROVE  DocumentsKnown' /\ AnswersKnown'
    BY <1>2, <1>6 DEF GetVersion, Failure, cacheVars, originVars
  <1>7. ASSUME NEW d \in Deployers, Deploy(d), answer' = None
        PROVE  DocumentsKnown' /\ AnswersKnown'
    <2>1. UNCHANGED <<cache, fetching>>
      BY <1>7 DEF Deploy, BeginDeploy, ReadDocument, WriteDocument, Invalidate, cacheVars, originVars
    <2>2. ASSUME NEW u \in Names \X Targets, NEW a, a = cache'[u], a # None, a.status = 200,
                 NEW n, NEW v, n = a.name, v = a.version
          PROVE  Known(n, v)'
      <3>1. Known(n, v)  BY <2>1, <2>2 DEF AnswersKnown, AnswerKnown
      <3> QED  BY <1>7, <3>1, KnownStays
    <2>3. ASSUME NEW u \in Names \X Targets, NEW n, NEW v, n = u[1], v = fetching'[u], v # None
          PROVE  Known(n, v)'
      <3>1. Known(n, v)  BY <2>1, <2>3 DEF AnswersKnown
      <3> QED  BY <1>7, <3>1, KnownStays
    <2> QED  BY <1>7, <2>2, <2>3, DeployKnown DEF AnswersKnown, AnswerKnown, Known
  <1>8. ASSUME NEW url \in RemoteUrls, Drop(url), answer' = None
        PROVE  DocumentsKnown' /\ AnswersKnown'
    BY <1>2, <1>8 DEF Drop, originVars
  <1>9. ASSUME UNCHANGED <<deployVars, cache, fetching>>, answer' = answer \/ answer' = None
        PROVE  DocumentsKnown' /\ AnswersKnown'
    BY <1>2, <1>9
  <1> QED  BY <1>3, <1>4, <1>5, <1>6, <1>7, <1>8, <1>9
           DEF Next, List, StartList, ReadForList, AnswerList, UploadBundle, vars, awsVars, cacheVars,
               originVars

(* Unless it may ask for any version, a client is given what was deployed. *)
THEOREM ServesOnlyDeployed == Spec => []OnlyDeployedServed
  <1>1. AnswersKnown => OnlyDeployedServed
    <2> DEFINE Jobs == {[name |-> deployer[d].name, channel |-> deployer[d].channel,
                         version |-> deployer[d].version] : d \in Deployers}
    <2> SUFFICES ASSUME AnswersKnown, answer # None, answer.status = 200, ~ AllowOther
                 PROVE  \E f \in finished \cup Jobs : f.name = answer.name /\ f.version = answer.version
      BY DEF OnlyDeployedServed
    <2>1. Known(answer.name, answer.version)  BY DEF AnswersKnown, AnswerKnown
    <2>2. ASSUME NEW d \in Deployers, Works(deployer[d], answer.name),
                 deployer[d].version = answer.version
          PROVE  \E f \in Jobs : f.name = answer.name /\ f.version = answer.version
      <3> DEFINE f == [name |-> deployer[d].name, channel |-> deployer[d].channel,
                       version |-> deployer[d].version]
      <3>1. f \in Jobs /\ f.name = answer.name /\ f.version = answer.version  BY <2>2 DEF Works
      <3> HIDE DEF f, Jobs
      <3> QED  BY <3>1
    <2> HIDE DEF Jobs
    <2> QED  BY <2>1, <2>2 DEF Known
  <1> QED  BY <1>1, InitDeploys, NextDeploys, InitFresh, NextFresh, InitKnown, NextKnown, PTL DEF Spec

(***************************************************************************)
(* The bucket: what is there was uploaded, with the metadata it has        *)
(***************************************************************************)

StoreTyped ==
    /\ objects \in [Keys -> Metadata \cup {None}]
    /\ \A u \in uploads : u.name \in Names /\ u.version \in Versions

\* An upload of this version with these metadata.
Uploaded(n, v, metadata) ==
    \E u \in uploads : u.name = n /\ u.version = v /\ u.metadata = metadata

ObjectsUploaded ==
    \A n \in Names, v \in Versions : Stored(n, v) # None => Uploaded(n, v, Stored(n, v))

\* For a key function that follows the provider: every upload is found again.
UploadsStored == \A u \in uploads : Stored(u.name, u.version) # None

StoreInv == StoreTyped /\ ObjectsUploaded /\ (UploadLayout = "nested" => UploadsStored)

LEMMA KeysOfVersion ==
    ASSUME NEW n \in Names, NEW v \in Versions
    PROVE  /\ DownloadKey(n, v) \in Keys /\ UploadKey(n, v) \in Keys
           /\ \A m \in Names, w \in Versions : UploadKey(n, v) = DownloadKey(m, w) => m = n /\ w = v
           /\ UploadLayout = "nested" => UploadKey(n, v) = DownloadKey(n, v)
  BY StoreAssumption DEF DownloadKey, UploadKey, Keys

LEMMA InitStore == StoreInit => StoreInv
  <1>1. ASSUME StoreInit, NEW n \in Names, NEW v \in Versions PROVE Stored(n, v) = None
    BY <1>1, KeysOfVersion DEF StoreInit, Stored
  <1> QED  BY <1>1 DEF StoreInit, StoreInv, StoreTyped, ObjectsUploaded, UploadsStored

LEMMA UploadStore ==
    ASSUME StoreInv, NEW n \in Names, NEW v \in Versions, NEW metadata \in Metadata,
           Upload(n, v, metadata)
    PROVE  StoreInv' /\ uploads \subseteq uploads'
  <1> DEFINE u == [name |-> n, version |-> v, metadata |-> metadata,
                   number |-> Cardinality(uploads) + 1]
  <1>1. /\ uploads' = uploads \cup {u} /\ u.name = n /\ u.version = v /\ u.metadata = metadata
        /\ objects' = [objects EXCEPT ![UploadKey(n, v)] = metadata]
    BY DEF Upload
  <1> HIDE DEF u
  <1>2. StoreTyped'  BY <1>1 DEF StoreInv, StoreTyped
  <1>3. ASSUME NEW m \in Names, NEW w \in Versions
        PROVE  \/ objects'[DownloadKey(m, w)] = objects[DownloadKey(m, w)]
               \/ objects'[DownloadKey(m, w)] = metadata /\ m = n /\ w = v
    BY <1>1, KeysOfVersion DEF StoreInv, StoreTyped
  <1>4. ObjectsUploaded'
    <2> SUFFICES ASSUME NEW m \in Names, NEW w \in Versions, objects'[DownloadKey(m, w)] # None
                 PROVE  \E x \in uploads' : /\ x.name = m /\ x.version = w
                                            /\ x.metadata = objects'[DownloadKey(m, w)]
      BY DEF ObjectsUploaded, Uploaded, Stored
    <2>1. CASE objects'[DownloadKey(m, w)] = objects[DownloadKey(m, w)]
      BY <1>1, <2>1 DEF StoreInv, ObjectsUploaded, Uploaded, Stored
    <2>2. CASE objects'[DownloadKey(m, w)] = metadata /\ m = n /\ w = v
      BY <1>1, <2>2
    <2> QED  BY <1>3, <2>1, <2>2
  <1>5. UploadLayout = "nested" => UploadsStored'
    <2> SUFFICES ASSUME UploadLayout = "nested", NEW x \in uploads'
                 PROVE  objects'[DownloadKey(x.name, x.version)] # None
      BY DEF UploadsStored, Stored
    <2>1. metadata # None  BY StoreAssumption
    <2>2. CASE x = u
      BY <1>1, <2>1, <2>2, KeysOfVersion DEF StoreInv, StoreTyped
    <2>3. CASE x \in uploads
      BY <1>3, <2>1, <2>3 DEF StoreInv, StoreTyped, UploadsStored, Stored
    <2> QED  BY <1>1, <2>2, <2>3
  <1> QED  BY <1>1, <1>2, <1>4, <1>5 DEF StoreInv

LEMMA SameStore == StoreInv /\ UNCHANGED storeVars => StoreInv'
  BY DEF storeVars, StoreInv, StoreTyped, ObjectsUploaded, Uploaded, UploadsStored, Stored

(***************************************************************************)
(* AWS: the headers of an answer                                           *)
(***************************************************************************)

Carries(a) ==
    a # None /\ a.status = 200 =>
        \E u \in uploads : /\ u.name = a.name /\ u.version = a.version
                           /\ a.headers = Identity \cup u.metadata

AnswersCarry == Carries(answer) /\ \A u \in Names \X Targets : Carries(cache[u])

LEMMA InitCarry == Init => StoreInv /\ AnswersCarry
  BY InitStore DEF Init, AwsInit, AnswersCarry, Carries

LEMMA FetchCarries ==
    ASSUME StoreInv, NEW n \in Names, NEW v \in Versions
    PROVE  Carries(Fetch(n, v))
  <1>1. CASE Stored(n, v) = None  BY <1>1 DEF Fetch, Failure, Carries
  <1>2. CASE Stored(n, v) # None
    <2>1. PICK u \in uploads : u.name = n /\ u.version = v /\ u.metadata = Stored(n, v)
      BY <1>2 DEF StoreInv, ObjectsUploaded, Uploaded
    <2>2. /\ Fetch(n, v).name = n /\ Fetch(n, v).version = v
          /\ Fetch(n, v).headers = Identity \cup Stored(n, v)
      BY <1>2 DEF Fetch, ResponseHeaders
    <2> QED  BY <2>1, <2>2 DEF Carries
  <1> QED  BY <1>1, <1>2

LEMMA NextCarry ==
    CacheInv /\ StoreInv /\ AnswersCarry /\ [Next]_vars => StoreInv' /\ AnswersCarry'
  <1> SUFFICES ASSUME CacheInv, StoreInv, AnswersCarry, [Next]_vars
               PROVE  StoreInv' /\ AnswersCarry'
    OBVIOUS
  <1>1. ASSUME StoreInv', uploads \subseteq uploads', Carries(answer'),
               \A u \in Names \X Targets : Carries(cache'[u])
        PROVE  StoreInv' /\ AnswersCarry'
    BY <1>1 DEF AnswersCarry, Carries
  <1>2. ASSUME NEW n \in Names, NEW c \in AskedChannels, FromCache(n, c)
        PROVE  StoreInv' /\ AnswersCarry'
    <2>1. <<n, c>> \in Names \X Targets  BY AwsAssumption
    <2> QED  BY <1>1, <1>2, <2>1, SameStore DEF FromCache, BundleUrl, AnswersCarry, storeVars, cacheVars
  <1>3. ASSUME NEW n \in Names, NEW c \in AskedChannels, OriginRequest(n, c)
        PROVE  StoreInv' /\ AnswersCarry'
    <2>1. Carries(answer')  BY <1>3 DEF OriginRequest, Failure, Carries
    <2> QED  BY <1>1, <1>3, <2>1, SameStore DEF OriginRequest, AnswersCarry, storeVars, cacheVars
  <1>4. ASSUME NEW n \in Names, NEW c \in AskedChannels, OriginResponse(n, c)
        PROVE  StoreInv' /\ AnswersCarry'
    <2> DEFINE u == <<n, c>>
    <2>1. /\ u \in Names \X Targets /\ DOMAIN cache = Names \X Targets
          /\ fetching[u] \in Versions \cup {None}
      BY AwsAssumption DEF CacheInv, OriginTyped
    <2>2. /\ fetching[u] # None /\ answer' = Fetch(n, fetching[u])
          /\ cache' = cache \/ cache' = [cache EXCEPT ![u] = answer']
          /\ UNCHANGED storeVars
      BY <1>4 DEF OriginResponse, BundleUrl
    <2> HIDE DEF u
    <2>3. PICK a : a = answer'  OBVIOUS
    <2>4. Carries(a)  BY <2>1, <2>2, <2>3, FetchCarries
    <2>5. \A x \in Names \X Targets : cache'[x] \in {cache[x], a}
      BY <2>1, <2>2, <2>3
    <2>6. \A x \in Names \X Targets : Carries(cache'[x])
      BY <2>4, <2>5 DEF AnswersCarry
    <2> QED  BY <1>1, <2>2, <2>3, <2>4, <2>6, SameStore DEF storeVars
  <1>5. ASSUME NEW n \in Names, NEW v \in Versions, GetVersion(n, v)
        PROVE  StoreInv' /\ AnswersCarry'
    <2>1. answer' = Fetch(n, v) \/ answer' = Failure(403)  BY <1>5 DEF GetVersion
    <2>2. Carries(answer')  BY <2>1, FetchCarries DEF Failure, Carries
    <2> QED  BY <1>1, <1>5, <2>2, SameStore DEF GetVersion, storeVars, cacheVars, AnswersCarry
  <1>6. ASSUME NEW url \in RemoteUrls, Drop(url), answer' = None
        PROVE  StoreInv' /\ AnswersCarry'
    <2>1. \A u \in Names \X Targets : cache'[u] \in {None, cache[u]}
      BY <1>6 DEF Drop
    <2>2. Carries(answer') /\ \A u \in Names \X Targets : Carries(cache'[u])
      BY <1>6, <2>1 DEF AnswersCarry, Carries
    <2> QED  BY <1>1, <1>6, <2>2, SameStore DEF Drop, storeVars
  <1>7. ASSUME NEW n \in Names, NEW v \in Versions, NEW metadata \in Metadata,
               Upload(n, v, metadata), cache' = cache, answer' = None
        PROVE  StoreInv' /\ AnswersCarry'
    BY <1>1, <1>7, UploadStore DEF AnswersCarry, Carries
  <1>8. ASSUME UNCHANGED <<storeVars, cache>>, answer' = answer \/ answer' = None
        PROVE  StoreInv' /\ AnswersCarry'
    BY <1>1, <1>8, SameStore DEF storeVars, AnswersCarry, Carries
  <1>9. ASSUME NEW d \in Deployers, Deploy(d), answer' = None
        PROVE  StoreInv' /\ AnswersCarry'
    <2>1. UNCHANGED <<storeVars, cache>>
      BY <1>9 DEF Deploy, BeginDeploy, ReadDocument, WriteDocument, Invalidate, cacheVars
    <2> QED  BY <1>8, <1>9, <2>1
  <1> QED  BY <1>2, <1>3, <1>4, <1>5, <1>6, <1>7, <1>8, <1>9
           DEF Next, List, StartList, ReadForList, AnswerList, UploadBundle, vars, awsVars, cacheVars

(* An answer has the integrity and the signature of an upload of its version. *)
THEOREM AnswersAlwaysCarryMetadata == Spec => []AnswersCarryMetadata
  <1>1. AnswersCarry => AnswersCarryMetadata
    BY DEF AnswersCarry, Carries, AnswersCarryMetadata
  <1> QED  BY <1>1, InitDeploys, NextDeploys, InitFresh, NextFresh, InitCarry, NextCarry, PTL DEF Spec

(* With a key function that follows the provider, what is deployed downloads. *)
THEOREM DeployedAlwaysDownload ==
    ASSUME UploadLayout = "nested" PROVE Spec => []DeployedDownloads
  <1>1. StoreInv => DeployedDownloads
    <2> SUFFICES ASSUME StoreInv, NEW u \in uploads, NEW c \in Targets,
                        Effective(u.name, c) = u.version
                 PROVE  Fetch(u.name, u.version).status = 200
      BY DEF DeployedDownloads
    <2>1. Stored(u.name, u.version) # None  BY DEF StoreInv, UploadsStored
    <2> QED  BY <2>1 DEF Fetch
  <1> QED  BY <1>1, InitDeploys, NextDeploys, InitFresh, NextFresh, InitCarry, NextCarry, PTL DEF Spec

(***************************************************************************)
(* Cloudflare: a channel serves what was deployed to it                    *)
(***************************************************************************)

\* A version under a key was deployed under that key.
OfItsKey(v, k) ==
    v \notin {None, "expired"} => [name |-> k[1], channel |-> k[2], version |-> v] \in deployed

KvTyped ==
    /\ kv \in [KvKeys -> Versions \cup {None, "expired"}]
    /\ local \in [KvKeys -> Versions \cup {None, "expired"}]

KeysInv ==
    /\ KvTyped
    /\ \A k \in KvKeys : OfItsKey(kv[k], k) /\ OfItsKey(local[k], k)

CfInv == StoreInv /\ KeysInv /\ ChannelServesItsOwn

LEMMA InitChannels == StoreInit /\ CfInit => CfInv
  BY InitStore DEF CfInit, CfInv, KeysInv, KvTyped, OfItsKey, ChannelServesItsOwn

LEMMA NextChannels == CfInv /\ [CfNext]_<<storeVars, cfVars>> => CfInv'
  <1> SUFFICES ASSUME CfInv, [CfNext]_<<storeVars, cfVars>> PROVE CfInv'  OBVIOUS
  <1>1. CASE UNCHANGED <<storeVars, cfVars>>
    BY <1>1, SameStore DEF cfVars, CfInv, KeysInv, KvTyped, OfItsKey, ChannelServesItsOwn
  <1>2. CASE CfUpload
    <2>1. StoreInv'  BY <1>2, UploadStore DEF CfUpload, CfInv, Metadata
    <2> QED  BY <1>2, <2>1 DEF CfUpload, cfVars, CfInv, KeysInv, KvTyped, OfItsKey, ChannelServesItsOwn
  <1>3. ASSUME NEW n \in Names, NEW c \in Targets, NEW v \in Versions, CfDeploy(n, c, v)
        PROVE  CfInv'
    <2> DEFINE key == <<n, c>>
    <2>1. /\ UNCHANGED <<storeVars, local, response>>
          /\ kv' = [kv EXCEPT ![key] = v] /\ key \in KvKeys /\ key[1] = n /\ key[2] = c
          /\ deployed' = deployed \cup {[name |-> n, channel |-> c, version |-> v]}
      BY <1>3 DEF CfDeploy, KvKey, KvKeys
    <2> HIDE DEF key
    <2>2. KeysInv'  BY <2>1 DEF CfInv, KeysInv, KvTyped, OfItsKey
    <2>3. ChannelServesItsOwn'  BY <2>1 DEF CfInv, ChannelServesItsOwn
    <2> QED  BY <2>1, <2>2, <2>3, SameStore DEF CfInv
  <1>4. ASSUME NEW k \in KvKeys, Expire(k) \/ Propagate(k)
        PROVE  CfInv'
    <2>1. UNCHANGED <<storeVars, deployed, response>>  BY <1>4 DEF Expire, Propagate
    <2>2. KeysInv'  BY <1>4 DEF Expire, Propagate, CfInv, KeysInv, KvTyped, OfItsKey
    <2> QED  BY <2>1, <2>2, SameStore DEF CfInv, ChannelServesItsOwn
  <1>5. ASSUME NEW n \in Names, NEW c \in Targets, CfGet(n, c)
        PROVE  CfInv'
    <2> DEFINE key == <<n, c>>
    <2>1. UNCHANGED <<storeVars, kv, local, deployed>>  BY <1>5 DEF CfGet
    <2>2. KeysInv'  BY <2>1 DEF CfInv, KeysInv, KvTyped, OfItsKey
    <2>3. key \in KvKeys /\ key[1] = n /\ key[2] = c  BY DEF KvKeys
    <2>4. response'.status = 200 =>
             /\ ValueAt(key) # None
             /\ response' = CfAnswer(200, n, c, ValueAt(key))
      BY <1>5 DEF CfGet, VersionKey, DataResponse, CfAnswer
    <2> HIDE DEF key
    <2>5. ValueAt(key) # None =>
             [name |-> n, channel |-> c, version |-> local[key]] \in deployed /\ JsonOf[local[key]] = ValueAt(key)
      BY <2>3, StoreAssumption, CloudflareAssumption DEF ValueAt, CfInv, KeysInv, OfItsKey
    <2>6. ChannelServesItsOwn'
      BY <2>1, <2>4, <2>5 DEF ChannelServesItsOwn, CfAnswer
    <2> QED  BY <2>1, <2>2, <2>6, SameStore DEF CfInv
  <1>6. ASSUME NEW n \in Names, NEW v \in Versions, CfGetVersion(n, v)
        PROVE  CfInv'
    <2>1. UNCHANGED <<storeVars, kv, local, deployed>>  BY <1>6 DEF CfGetVersion
    <2>2. ~ AllowOther => response'.status # 200  BY <1>6 DEF CfGetVersion, CfAnswer
    <2> QED  BY <2>1, <2>2, SameStore DEF CfInv, KeysInv, KvTyped, OfItsKey, ChannelServesItsOwn
  <1>7. CASE (\E c \in Targets : BeginList(c)) \/ ListPage
    <2>1. UNCHANGED <<storeVars, kv, local, deployed>> /\ (response' = response \/ response' = None)
      BY <1>7 DEF BeginList, ListPage
    <2> QED  BY <2>1, SameStore DEF CfInv, KeysInv, KvTyped, OfItsKey, ChannelServesItsOwn
  <1> QED  BY <1>1, <1>2, <1>3, <1>4, <1>5, <1>6, <1>7 DEF CfNext

(* However copies lag behind, no channel serves what another one's version *)
(* reads as.                                                               *)
THEOREM ChannelsServeTheirOwn == CfSpec => []ChannelServesItsOwn
  <1>1. CfInv => ChannelServesItsOwn  BY DEF CfInv
  <1> QED  BY <1>1, InitChannels, NextChannels, PTL DEF CfSpec

(***************************************************************************)
(* Lists.  For each bundle one key decides which version a list shows: the *)
(* key of the channel, or the default one if there is no other.  Wherever  *)
(* the pages split the keys of a bundle, the page with the deciding key    *)
(* has the entry; so what is shown for all keys before the cursor stays    *)
(* shown, and pages leave out no key.                                      *)
(***************************************************************************)
Decides(j) ==
    LET k == KeyOrder[j]
    IN  /\ local[k] # None
        /\ k[2] = listing.channel \/ (k[2] = None /\ local[<<k[1], listing.channel>>] = None)

ShownBefore(i) ==
    \A j \in DOMAIN KeyOrder :
        j < i /\ Decides(j) => CfEntry(KeyOrder[j][1], listing.channel) \in listing.entries

NothingElse ==
    listing.channel = None =>
        \A e \in listing.entries : \E n \in Names : e = CfEntry(n, None) /\ VersionFor(n, None) # None

NoneExpired == \A k \in KvKeys : local[k] # "expired"

ListTyped ==
    /\ listing = [cursor |-> listing.cursor, channel |-> listing.channel, entries |-> listing.entries,
                  undisturbed |-> listing.undisturbed]
    /\ listing.cursor \in Nat /\ listing.channel \in Targets

ListInv ==
    /\ ListTyped
    /\ listing.undisturbed /\ NoneExpired =>
          /\ NothingElse
          /\ listing.cursor # 0 => ShownBefore(listing.cursor)
          /\ listing.cursor = 0 => ShownBefore(Len(KeyOrder) + 1)

(* A key without a version is one that reads as nothing. *)
LEMMA NothingRead ==
    ASSUME KvTyped, NoneExpired, NEW k \in KvKeys
    PROVE  ValueAt(k) = None <=> local[k] = None
  BY StoreAssumption, CloudflareAssumption DEF KvTyped, NoneExpired, ValueAt

(* A set of positions that is not empty has a first and a last. *)
LEMMA FirstAndLast ==
    ASSUME NEW length \in Nat, NEW S \in SUBSET (1..length), S # {}
    PROVE  /\ \E x \in S : \A y \in S : x <= y
           /\ \E x \in S : \A y \in S : y <= x
  <1>1. ASSUME NEW T \in SUBSET Nat, T # {} PROVE \E x \in T : \A y \in T : x <= y
    <2>1. PICK x \in T : \A y \in T : ~ (<<y, x>> \in OpToRel(<, Nat))
      BY <1>1, WFMin, NatLessThanWellFounded
    <2>2. \A y \in T : ~ (y < x)  BY <2>1 DEF OpToRel
    <2>3. QED  BY <2>2
  <1> DEFINE back == {length - x : x \in S}
  <1>2. back \in SUBSET Nat /\ back # {}
    <2>1. \A x \in S : length - x \in Nat  OBVIOUS
    <2>2. PICK x \in S : TRUE  OBVIOUS
    <2>3. length - x \in back  OBVIOUS
    <2>4. QED  BY <2>1, <2>3
  <1>3. PICK b \in back : \A y \in back : b <= y  BY <1>1, <1>2
  <1>4. PICK z \in S : b = length - z  OBVIOUS
  <1>5. \A y \in S : length - z <= length - y  BY <1>3, <1>4
  <1>6. \A y \in S : y <= z  BY <1>5
  <1>7. QED  BY <1>1, <1>6

(* A page has the first keys behind the cursor: with none left it is the   *)
(* last one, and else the next one starts where it ends.                   *)
LEMMA PagesLeaveOutNone ==
    ASSUME KvTyped, NEW i \in Nat \ {0}, NoneExpired
    PROVE  LET page == PageFrom(i)
               after == AfterPage(page)
           IN  /\ after \in Nat
               /\ \A j \in DOMAIN KeyOrder :
                     i <= j /\ (after = 0 \/ j < after) /\ local[KeyOrder[j]] # None => j \in page
  <1> DEFINE length == Len(KeyOrder)
             page == PageFrom(i)
             upTo(j) == {x \in Present(i) : x <= j}
  <1>1. KeyOrder \in Seq(KvKeys) /\ length \in Nat /\ DOMAIN KeyOrder = 1..length
    BY CloudflareAssumption
  <1>2. Present(i) \subseteq 1..length /\ page \subseteq Present(i)
    BY <1>1 DEF Present, PageFrom
  <1>3. IsFiniteSet(Present(i)) /\ \A j : IsFiniteSet(upTo(j)) /\ Cardinality(upTo(j)) \in Nat
    <2>1. IsFiniteSet(1..length)  BY <1>1, FS_Interval
    <2>2. IsFiniteSet(Present(i))  BY <1>2, <2>1, FS_Subset
    <2>3. \A j : IsFiniteSet(upTo(j))  BY <2>2, FS_Subset
    <2>4. QED  BY <2>2, <2>3, FS_CardinalityType
  <1>4. \A j : j \in page <=> j \in Present(i) /\ Cardinality(upTo(j)) <= MAX_LIMIT
    BY DEF PageFrom
  <1>5. Present(i) # {} => page # {}
    <2>1. SUFFICES ASSUME Present(i) # {} PROVE page # {}  OBVIOUS
    <2>2. PICK x \in Present(i) : \A y \in Present(i) : x <= y  BY <1>1, <1>2, <2>1, FirstAndLast
    <2>3. upTo(x) = {x}  BY <1>1, <1>2, <2>2
    <2>4. Cardinality(upTo(x)) = 1  BY <2>3, FS_Singleton
    <2>5. QED  BY <1>4, <2>4, CloudflareAssumption
  <1>6. Returned(page) = {} <=> page = {}
    <2>1. ASSUME NEW j \in page PROVE KeyOrder[j] \in Returned(page)
      <3>1. j \in DOMAIN KeyOrder /\ local[KeyOrder[j]] # None  BY <1>1, <1>2 DEF Present
      <3>2. KeyOrder[j] \in KvKeys  BY <1>1, <3>1
      <3>3. ValueAt(KeyOrder[j]) # None  BY <3>1, <3>2, NothingRead
      <3>4. QED  BY <3>3 DEF Returned
    <2>2. QED  BY <2>1 DEF Returned
  <1>7. CASE page = {}
    <2>1. AfterPage(page) = 0  BY <1>6, <1>7 DEF AfterPage
    <2>2. Present(i) = {}  BY <1>5, <1>7
    <2>3. QED  BY <1>1, <2>1, <2>2 DEF Present
  <1>8. CASE page # {}
    <2> DEFINE last == CHOOSE j \in page : \A x \in page : x <= j
    <2>1. last \in page /\ \A x \in page : x <= last
      <3>1. \E j \in page : \A x \in page : x <= j  BY <1>1, <1>2, <1>8, FirstAndLast
      <3>2. QED  BY <3>1
    <2>2. AfterPage(page) = IF Present(1 + last) = {} THEN 0 ELSE 1 + last
      BY <1>6, <1>8 DEF AfterPage
    <2> HIDE DEF last
    <2>3. last \in 1..length  BY <1>2, <2>1
    <2>4. ASSUME NEW j \in Present(i), j <= last PROVE j \in page
      <3>1. upTo(j) \subseteq upTo(last)  BY <1>1, <1>2, <2>3, <2>4
      <3>2. Cardinality(upTo(j)) <= Cardinality(upTo(last))  BY <1>3, <3>1, FS_Subset
      <3>3. Cardinality(upTo(last)) <= MAX_LIMIT  BY <1>4, <2>1
      <3>4. /\ Cardinality(upTo(j)) \in Nat /\ Cardinality(upTo(last)) \in Nat
            /\ MAX_LIMIT \in Nat
        BY <1>3, CloudflareAssumption
      <3> HIDE DEF upTo
      <3>5. Cardinality(upTo(j)) <= MAX_LIMIT  BY <3>2, <3>3, <3>4
      <3>6. QED  BY <1>4, <2>4, <3>5
    <2>5. ASSUME NEW j \in DOMAIN KeyOrder, i <= j, local[KeyOrder[j]] # None
          PROVE  j \in Present(i) /\ (last < j => j \in Present(1 + last))
      BY <1>1, <2>3, <2>5 DEF Present
    <2>6. ASSUME NEW j \in DOMAIN KeyOrder, i <= j, AfterPage(page) = 0 \/ j < AfterPage(page),
                 local[KeyOrder[j]] # None
          PROVE  j \in page
      <3>1. j \in Present(i)  BY <2>5, <2>6
      <3>2. j <= last  BY <1>1, <2>2, <2>3, <2>5, <2>6
      <3>3. QED  BY <2>4, <3>1, <3>2
    <2>7. AfterPage(page) \in Nat  BY <2>2, <2>3
    <2>8. QED  BY <2>6, <2>7
  <1>9. QED  BY <1>7, <1>8

(* The page with the key that decides has the entry of the bundle. *)
LEMMA PageShows ==
    ASSUME KvTyped, ListTyped, NoneExpired, NEW page \in SUBSET DOMAIN KeyOrder, NEW j \in page, Decides(j)
    PROVE  CfEntry(KeyOrder[j][1], listing.channel) \in EntriesOf(page)
  <1> DEFINE c == listing.channel
             n == KeyOrder[j][1]
  <1>1. KeyOrder[j] \in KvKeys  BY CloudflareAssumption
  <1>2. n \in Names /\ KeyOrder[j] = <<n, KeyOrder[j][2]>> /\ c \in Targets
    BY <1>1 DEF KvKeys, ListTyped
  <1>3. \A t \in Targets : ValueAt(<<n, t>>) = None <=> local[<<n, t>>] = None
    BY <1>2, NothingRead DEF KvKeys
  <1>4. None \in Targets  BY DEF Targets
  <1>5. KeyOrder[j] \in Returned(page) /\ ValueAt(KeyOrder[j]) # None
    BY <1>1, NothingRead DEF Returned, Decides
  <1>6. \A k \in Returned(page) : ValueAt(k) # None  BY DEF Returned
  <1> DEFINE own == KeyOrder[j][2]
  <1>7. own = c \/ (own = None /\ ValueAt(<<n, c>>) = None)
    BY <1>2, <1>3 DEF Decides
  <1>8. <<n, own>> \in Returned(page) /\ ValueAt(<<n, own>>) # None  BY <1>2, <1>5
  <1> HIDE DEF n, own, c
  <1>9. VersionOn(page, n, c) = VersionFor(n, c) /\ VersionOn(page, n, c) # None
    <2>1. CASE own = c  BY <1>8, <2>1 DEF VersionOn, VersionFor
    <2>2. CASE own = None /\ ValueAt(<<n, c>>) = None
      <3>1. <<n, c>> \notin Returned(page)  BY <1>6, <2>2
      <3>2. QED  BY <1>8, <2>2, <3>1 DEF VersionOn, VersionFor
    <2>3. QED  BY <1>7, <2>1, <2>2
  <1>10. [name |-> n, version |-> VersionOn(page, n, c)] \in EntriesOf(page)
    BY <1>2, <1>9 DEF EntriesOf, c
  <1>11. QED  BY <1>9, <1>10 DEF CfEntry, n, c

LEMMA PageShowsNothingElse ==
    ASSUME listing.channel = None, NEW page, NEW e \in EntriesOf(page)
    PROVE  \E n \in Names : e = CfEntry(n, None) /\ VersionFor(n, None) # None
  <1>1. PICK n \in Names : e = [name |-> n, version |-> VersionOn(page, n, None)]
                           /\ VersionOn(page, n, None) # None
    BY DEF EntriesOf
  <1>2. VersionOn(page, n, None) = VersionFor(n, None)
    BY <1>1 DEF VersionOn, VersionFor
  <1>3. QED  BY <1>1, <1>2 DEF CfEntry

LEMMA InitList == CfInit => ListInv
  BY DEF CfInit, NoList, ListInv, ListTyped, Targets

LEMMA DroppedList == listing' = NoList => ListInv'
  BY DEF NoList, ListInv, ListTyped, Targets

LEMMA SameList == ListInv /\ UNCHANGED <<local, listing>> => ListInv'
  <1> SUFFICES ASSUME ListInv, UNCHANGED <<local, listing>> PROVE ListInv'  OBVIOUS
  <1>1. /\ NoneExpired' <=> NoneExpired
        /\ \A j : Decides(j)' <=> Decides(j)
        /\ \A n, c : CfEntry(n, c)' = CfEntry(n, c) /\ VersionFor(n, c)' = VersionFor(n, c)
    BY DEF NoneExpired, Decides, CfEntry, VersionFor, ValueAt
  <1>2. ListTyped'  BY DEF ListInv, ListTyped
  <1>3. NothingElse => NothingElse'  BY <1>1 DEF NothingElse
  <1>4. /\ ShownBefore(listing.cursor) => ShownBefore(listing.cursor)'
        /\ ShownBefore(Len(KeyOrder) + 1) => ShownBefore(Len(KeyOrder) + 1)'
    BY <1>1 DEF ShownBefore
  <1>5. QED  BY <1>1, <1>2, <1>3, <1>4 DEF ListInv

LEMMA PageList ==
    ASSUME KvTyped, ListInv, ListPage
    PROVE  ListInv'
  <1> DEFINE i == listing.cursor
             page == PageFrom(i)
             after == AfterPage(page)
  <1>1. UNCHANGED local /\ i # 0  BY DEF ListPage
  <1>2. CASE listing' = NoList  BY <1>2, DroppedList
  <1>3. CASE listing' = [listing EXCEPT !.cursor = after, !.entries = listing.entries \cup EntriesOf(page)]
    <2>1. i \in Nat \ {0}  BY <1>1 DEF ListInv, ListTyped
    <2>2. NoneExpired =>
              /\ after \in Nat
              /\ \A j \in DOMAIN KeyOrder :
                    i <= j /\ (after = 0 \/ j < after) /\ local[KeyOrder[j]] # None => j \in page
      BY <2>1, PagesLeaveOutNone
    <2>3. page \in SUBSET DOMAIN KeyOrder
      BY <2>1, CloudflareAssumption DEF PageFrom, Present
    <2>4. after \in Nat
      <3>1. CASE Returned(page) = {}  BY <3>1 DEF AfterPage
      <3>2. CASE Returned(page) # {}
        <4>1. page # {} /\ page \in SUBSET (1..Len(KeyOrder)) /\ Len(KeyOrder) \in Nat
          BY <2>3, <3>2, CloudflareAssumption DEF Returned
        <4>2. \E j \in page : \A x \in page : x <= j  BY <4>1, FirstAndLast
        <4> DEFINE last == CHOOSE j \in page : \A x \in page : x <= j
        <4>3. last \in page  BY <4>2
        <4>4. last \in Nat  BY <4>1, <4>3
        <4>5. after = 0 \/ after = 1 + last  BY DEF AfterPage
        <4> HIDE DEF last
        <4>6. QED  BY <4>4, <4>5
      <3>3. QED  BY <3>1, <3>2
    <2> HIDE DEF i, page, after
    <2>5. /\ listing'.cursor = after /\ listing'.channel = listing.channel
          /\ listing'.entries = listing.entries \cup EntriesOf(page)
          /\ listing'.undisturbed = listing.undisturbed
          /\ ListTyped'
      BY <1>3, <2>4 DEF ListInv, ListTyped
    <2>6. /\ NoneExpired' <=> NoneExpired
          /\ \A j : Decides(j)' <=> Decides(j)
          /\ \A n, c : CfEntry(n, c)' = CfEntry(n, c) /\ VersionFor(n, c)' = VersionFor(n, c)
      BY <1>1, <2>5 DEF NoneExpired, Decides, CfEntry, VersionFor, ValueAt
    <2>7. ASSUME listing.undisturbed, NoneExpired
          PROVE  /\ NothingElse'
                 /\ \A j \in DOMAIN KeyOrder :
                       (after = 0 \/ j < after) /\ Decides(j)
                           => CfEntry(KeyOrder[j][1], listing.channel) \in listing'.entries
      <3>1. NothingElse /\ ShownBefore(i)  BY <1>1, <2>7 DEF ListInv, i
      <3>2. NothingElse'  BY <2>5, <2>6, <3>1, PageShowsNothingElse DEF NothingElse
      <3>3. ASSUME NEW j \in DOMAIN KeyOrder, after = 0 \/ j < after, Decides(j)
            PROVE  CfEntry(KeyOrder[j][1], listing.channel) \in listing'.entries
        <4>1. CASE j < i  BY <2>5, <3>1, <3>3, <4>1 DEF ShownBefore
        <4>2. CASE i <= j
          <5>1. j \in page  BY <2>2, <2>7, <3>3, <4>2 DEF Decides
          <5>2. CfEntry(KeyOrder[j][1], listing.channel) \in EntriesOf(page)
            BY <2>3, <2>7, <3>3, <5>1, PageShows DEF ListInv
          <5>3. QED  BY <2>5, <5>2
        <4>3. j \in Nat  BY CloudflareAssumption
        <4>4. QED  BY <2>1, <4>1, <4>2, <4>3
      <3>4. QED  BY <3>2, <3>3
    <2>8. listing.undisturbed /\ NoneExpired =>
              /\ listing'.cursor # 0 => ShownBefore(listing.cursor)'
              /\ listing'.cursor = 0 => ShownBefore(Len(KeyOrder) + 1)'
      BY <2>5, <2>6, <2>7 DEF ShownBefore
    <2>9. QED  BY <2>5, <2>6, <2>7, <2>8 DEF ListInv
  <1>4. QED  BY <1>2, <1>3 DEF ListPage

LEMMA NextList == KvTyped /\ ListInv /\ [CfNext]_<<storeVars, cfVars>> => ListInv'
  <1> SUFFICES ASSUME KvTyped, ListInv, [CfNext]_<<storeVars, cfVars>> PROVE ListInv'  OBVIOUS
  <1>1. ASSUME NEW c \in Targets, BeginList(c) PROVE ListInv'
    <2>1. listing' = [cursor |-> 1, channel |-> c, entries |-> {}, undisturbed |-> TRUE]
      BY <1>1 DEF BeginList
    <2>2. ListTyped' /\ NothingElse'  BY <2>1 DEF ListTyped, NothingElse
    <2>3. listing'.cursor = 1  BY <2>1
    <2>4. ShownBefore(listing.cursor)'  BY <2>3, CloudflareAssumption DEF ShownBefore
    <2>5. QED  BY <2>2, <2>3, <2>4 DEF ListInv
  <1>2. ASSUME NEW k \in KvKeys, Propagate(k) PROVE ListInv'
    <2>1. listing' = [listing EXCEPT !.undisturbed = FALSE]  BY <1>2 DEF Propagate
    <2>2. ~ listing'.undisturbed /\ ListTyped'  BY <2>1 DEF ListInv, ListTyped
    <2>3. QED  BY <2>2 DEF ListInv
  <1>3. ASSUME UNCHANGED <<local, listing>> PROVE ListInv'  BY <1>3, SameList
  <1>4. ASSUME Quiet PROVE ListInv'  BY <1>4, DroppedList DEF Quiet
  <1>5. QED
    BY <1>1, <1>2, <1>3, <1>4, PageList
    DEF CfNext, CfUpload, CfDeploy, Expire, CfGet, CfGetVersion, cfVars, storeVars

LEMMA ListedIsDue ==
    ASSUME KvTyped, ListInv
    PROVE  ListShowsDeployed
  <1> DEFINE c == listing.channel
             due == {CfEntry(n, c) : n \in {x \in Names : VersionFor(x, c) # None}}
  <1> SUFFICES ASSUME listing.cursor = 0, listing.undisturbed, NoneExpired
               PROVE  due \subseteq listing.entries /\ (c = None => listing.entries = due)
    BY DEF ListShowsDeployed, NoneExpired
  <1>1. NothingElse /\ ShownBefore(Len(KeyOrder) + 1) /\ c \in Targets
    BY DEF ListInv, ListTyped
  <1>2. ASSUME NEW n \in Names, VersionFor(n, c) # None
        PROVE  CfEntry(n, c) \in listing.entries
    <2> DEFINE k == IF ValueAt(<<n, c>>) # None THEN <<n, c>> ELSE <<n, None>>
    <2>1. k \in KvKeys /\ <<n, c>> \in KvKeys /\ k[1] = n  BY <1>1 DEF KvKeys, Targets
    <2>2. local[k] # None /\ (k[2] = c \/ (k[2] = None /\ local[<<n, c>>] = None))
      BY <1>2, <2>1, NothingRead DEF VersionFor
    <2> HIDE DEF k
    <2>3. PICK j \in DOMAIN KeyOrder : KeyOrder[j] = k  BY <2>1, CloudflareAssumption
    <2>4. Decides(j)  BY <2>1, <2>2, <2>3 DEF Decides
    <2>5. j < Len(KeyOrder) + 1  BY CloudflareAssumption
    <2>6. QED  BY <1>1, <2>1, <2>3, <2>4, <2>5 DEF ShownBefore
  <1>3. c = None => listing.entries \subseteq due  BY <1>1 DEF NothingElse
  <1>4. QED  BY <1>2, <1>3

(* The Cloudflare provider: a list that no change has come between shows   *)
(* every deployed bundle at what its version reads as, for every number of *)
(* keys on a page and every order of the keys.                             *)
THEOREM ListsShowDeployed == CfSpec => []ListShowsDeployed
  <1>1. CfInv => KvTyped  BY DEF CfInv, KeysInv
  <1>2. KvTyped /\ ListInv => ListShowsDeployed  BY ListedIsDue
  <1>3. StoreInit /\ CfInit => ListInv  BY InitList
  <1>4. QED  BY <1>1, <1>2, <1>3, InitChannels, NextChannels, NextList, PTL DEF CfSpec

(***************************************************************************)
(* Provisioning: what is reachable is never ahead of what it relies on     *)
(***************************************************************************)


\* No resource is ahead of what it waits for: the order of the declarations.
Ordered == \A r, d \in Resources : <<r, d>> \in Edges => built[r] <= built[d]

\* No resource is newer than the configuration.
NotAhead == \A r \in Resources : built[r] <= edition

\* The resources of the other component are not made.
OthersAbsent == \A r \in Resources : r \notin Mine => built[r] = 0

\* After a command that came to its end, all resources are of one edition.
Together == command = "none" /\ ~stopped => \A r, d \in Mine : built[r] = built[d]

Provisioned == PTypeOK /\ Ordered /\ NotAhead /\ OthersAbsent /\ Together

(* Every edge joins two resources of the component it belongs to. *)
LEMMA EdgesJoin == stack \in {"aws", "cloudflare"} => Mine \subseteq Resources
  BY DEF Mine, Edges, Resources

LEMMA InitProvisioned == PInit => Provisioned
  <1> SUFFICES ASSUME PInit PROVE Provisioned  OBVIOUS
  <1>1. Mine \subseteq Resources  BY EdgesJoin DEF PInit
  <1>2. built = [r \in Resources |-> 0] /\ edition = 1  BY DEF PInit
  <1>3. PTypeOK
    <2>1. stopped \in BOOLEAN  BY Zenon DEF PInit
    <2>2. built \in [Resources -> 0..(MaxEdits + 1)]  BY <1>2, ProvisioningAssumption
    <2> QED  BY <1>2, <2>1, <2>2, ProvisioningAssumption DEF PInit, PTypeOK
  <1>4. Ordered /\ NotAhead /\ OthersAbsent  BY <1>2 DEF Ordered, NotAhead, OthersAbsent
  <1>5. Together  BY <1>1, <1>2 DEF Together
  <1> QED  BY <1>3, <1>4, <1>5 DEF Provisioned

(* Making a resource, or changing it, when what it waits for is up to date. *)
LEMMA MakeProvisioned ==
    ASSUME Provisioned, NEW r \in Mine, Make(r)
    PROVE  Provisioned'
  <1>1. r \in Resources  BY EdgesJoin DEF Provisioned, PTypeOK
  <1>2. /\ built \in [Resources -> 0..(MaxEdits + 1)]
        /\ edition \in 1..(MaxEdits + 1)
        /\ built' = [built EXCEPT ![r] = edition]
        /\ UNCHANGED <<stack, edition, command, failures, stopped>>
    BY DEF Provisioned, PTypeOK, Make
  <1>3. Edges' = Edges /\ Mine' = Mine  BY <1>2 DEF Edges, Mine
  <1>4. built' \in [Resources -> 0..(MaxEdits + 1)]
    BY <1>1, <1>2, ProvisioningAssumption
  <1>5. PTypeOK'  BY <1>2, <1>4 DEF Provisioned, PTypeOK
  <1>6. ASSUME NEW a \in Resources, NEW d \in Resources, <<a, d>> \in Edges
        PROVE  built'[a] <= built'[d]
    <2>1. built[a] <= built[d] /\ built[a] <= edition
      BY <1>6 DEF Provisioned, Ordered, NotAhead
    <2>2. a = r => built[d] = edition  BY <1>6 DEF Make, WaitsFor
    <2> QED  BY <1>1, <1>2, <2>1, <2>2
  <1>7. NotAhead'  BY <1>1, <1>2, ProvisioningAssumption DEF Provisioned, NotAhead
  <1>8. OthersAbsent'  BY <1>1, <1>2, <1>3 DEF Provisioned, OthersAbsent
  <1>9. Together'  BY <1>2 DEF Make, Together
  <1> QED  BY <1>3, <1>5, <1>6, <1>7, <1>8, <1>9 DEF Provisioned, Ordered

(* Deleting a resource when nothing that uses it is left. *)
LEMMA DeleteProvisioned ==
    ASSUME Provisioned, NEW r \in Mine, Delete(r)
    PROVE  Provisioned'
  <1>1. r \in Resources  BY EdgesJoin DEF Provisioned, PTypeOK
  <1>2. /\ built \in [Resources -> 0..(MaxEdits + 1)]
        /\ edition \in 1..(MaxEdits + 1)
        /\ built' = [built EXCEPT ![r] = 0]
        /\ UNCHANGED <<stack, edition, command, failures, stopped>>
    BY DEF Provisioned, PTypeOK, Delete
  <1>3. Edges' = Edges /\ Mine' = Mine  BY <1>2 DEF Edges, Mine
  <1>4. built' \in [Resources -> 0..(MaxEdits + 1)]
    BY <1>1, <1>2, ProvisioningAssumption
  <1>5. PTypeOK'  BY <1>2, <1>4 DEF Provisioned, PTypeOK
  <1>6. ASSUME NEW a \in Resources, NEW d \in Resources, <<a, d>> \in Edges
        PROVE  built'[a] <= built'[d]
    <2>1. built[a] <= built[d]  BY <1>6 DEF Provisioned, Ordered
    <2>2. d = r => built[a] = 0  BY <1>6 DEF Delete, UsedBy
    <2>3. built[a] \in Nat /\ built[d] \in Nat  BY <1>2, ProvisioningAssumption
    <2> QED  BY <1>1, <1>2, <2>1, <2>2, <2>3
  <1>7. NotAhead'  BY <1>1, <1>2, ProvisioningAssumption DEF Provisioned, NotAhead
  <1>8. OthersAbsent'  BY <1>1, <1>2, <1>3 DEF Provisioned, OthersAbsent
  <1>9. Together'  BY <1>2 DEF Delete, Together
  <1> QED  BY <1>3, <1>5, <1>6, <1>7, <1>8, <1>9 DEF Provisioned, Ordered

LEMMA StepProvisioned == Provisioned /\ [PNext]_pVars => Provisioned'
  <1> SUFFICES ASSUME Provisioned, [PNext]_pVars PROVE Provisioned'  OBVIOUS
  <1>1. ASSUME UNCHANGED <<stack, built>>, edition' \in {edition, edition + 1},
               edition' \in 1..(MaxEdits + 1), command' \in {"none", "up", "destroy"},
               failures' \in 0..MaxFailures, stopped' \in BOOLEAN, Together'
        PROVE  Provisioned'
    <2>1. PTypeOK' /\ Ordered' /\ OthersAbsent'
      BY <1>1 DEF Provisioned, PTypeOK, Ordered, OthersAbsent, Edges, Mine
    <2>2. NotAhead'
      BY <1>1, ProvisioningAssumption DEF Provisioned, PTypeOK, NotAhead
    <2> QED  BY <1>1, <2>1, <2>2 DEF Provisioned
  <1>2. CASE Edit
    <2>1. Together'  BY <1>2 DEF Edit, Provisioned, Together, Mine, Edges
    <2> QED  BY <1>1, <1>2, <2>1, ProvisioningAssumption DEF Edit, Provisioned, PTypeOK
  <1>3. CASE Up \/ Destroy
    BY <1>1, <1>3 DEF Up, Destroy, Provisioned, PTypeOK, Together
  <1>4. CASE UpDone
    <2>1. \A r \in Mine : built'[r] = edition  BY <1>4 DEF UpDone
    <2>2. Mine' = Mine  BY <1>4 DEF UpDone, Mine, Edges
    <2>3. Together'  BY <2>1, <2>2 DEF Together
    <2> QED  BY <1>1, <1>4, <2>3 DEF UpDone, Provisioned, PTypeOK
  <1>5. CASE DestroyDone
    <2>1. \A r \in Mine : built'[r] = 0  BY <1>5 DEF DestroyDone
    <2>2. Mine' = Mine  BY <1>5 DEF DestroyDone, Mine, Edges
    <2>3. Together'  BY <2>1, <2>2 DEF Together
    <2> QED  BY <1>1, <1>5, <2>3 DEF DestroyDone, Provisioned, PTypeOK
  <1>6. CASE Interrupt
    BY <1>1, <1>6 DEF Interrupt, Provisioned, PTypeOK, Together
  <1>7. CASE \E r \in Mine : Refuse(r)
    BY <1>1, <1>7, ProvisioningAssumption DEF Refuse, Provisioned, PTypeOK, Together
  <1>8. CASE \E r \in Mine : Make(r)  BY <1>8, MakeProvisioned
  <1>9. CASE \E r \in Mine : Delete(r)  BY <1>9, DeleteProvisioned
  <1>10. CASE UNCHANGED pVars
    <2>1. Together'  BY <1>10 DEF pVars, Provisioned, Together, Mine, Edges
    <2> QED  BY <1>1, <1>10, <2>1 DEF pVars, Provisioned, PTypeOK
  <1> QED  BY <1>2, <1>3, <1>4, <1>5, <1>6, <1>7, <1>8, <1>9, <1>10 DEF PNext

(* The edges that the routes rest on, read off the declarations. *)
LEMMA AwsRouteEdges ==
    /\ \A r \in {"bucket", "identity", "origin_request", "origin_response"} :
          <<"distribution", r>> \in AwsEdges
    /\ <<"origin_request", "lambda_role_policy">> \in AwsEdges
    /\ <<"bucket_policy", "bucket">> \in AwsEdges
  <1>1. \A r \in {"bucket", "identity", "origin_request", "origin_response"} :
           <<"distribution", r>> \in DistributionEdges
    BY DEF DistributionEdges
  <1>2. <<"origin_request", "lambda_role_policy">> \in LambdaEdges
    BY DEF LambdaEdges
  <1>3. <<"bucket_policy", "bucket">> \in StorageEdges
    BY DEF StorageEdges
  <1> QED  BY <1>1, <1>2, <1>3 DEF AwsEdges

LEMMA CloudflareRouteEdges ==
    /\ <<"worker_deployment", "worker_version">> \in CloudflareEdges
    /\ <<"worker_version", "bucket">> \in CloudflareEdges
    /\ <<"worker_version", "kv">> \in CloudflareEdges
  BY DEF CloudflareEdges

LEMMA EdgeEnds ==
    ASSUME NEW a, NEW d, <<a, d>> \in AwsEdges \cup CloudflareEdges
    PROVE  a \in Resources /\ d \in Resources
  <1> DEFINE e == <<a, d>>
  <1>1. e \in AwsEdges \cup CloudflareEdges /\ e[1] = a /\ e[2] = d  OBVIOUS
  <1> HIDE DEF e
  <1>2. e[1] \in Resources /\ e[2] \in Resources  BY <1>1 DEF Resources
  <1> QED  BY <1>1, <1>2

(* Neither component has the entry point of the other. *)
LEMMA NoForeignEntry ==
    /\ stack = "aws" => "worker_deployment" \notin Mine
    /\ stack = "cloudflare" => "distribution" \notin Mine
  <1>1. \A e \in AwsEdges : e[1] # "worker_deployment" /\ e[2] # "worker_deployment"
    <2>1. \A e \in StorageEdges : e[1] # "worker_deployment" /\ e[2] # "worker_deployment"
      BY DEF StorageEdges
    <2>2. \A e \in RoleEdges : e[1] # "worker_deployment" /\ e[2] # "worker_deployment"
      BY DEF RoleEdges
    <2>3. \A e \in CodeEdges : e[1] # "worker_deployment" /\ e[2] # "worker_deployment"
      BY DEF CodeEdges
    <2>4. \A e \in LambdaEdges : e[1] # "worker_deployment" /\ e[2] # "worker_deployment"
      BY <2>3 DEF LambdaEdges
    <2>5. \A e \in DistributionEdges : e[1] # "worker_deployment" /\ e[2] # "worker_deployment"
      BY DEF DistributionEdges
    <2> QED  BY <2>1, <2>2, <2>4, <2>5 DEF AwsEdges
  <1>2. \A e \in CloudflareEdges : e[1] # "distribution" /\ e[2] # "distribution"
    BY DEF CloudflareEdges
  <1> QED  BY <1>1, <1>2 DEF Mine, Edges

LEMMA PolicyIsMine ==
    ASSUME stack = "aws"
    PROVE  "bucket_policy" \in Mine /\ "distribution" \in Mine
  <1> DEFINE e == <<"bucket_policy", "bucket">>
             f == <<"distribution", "bucket">>
  <1>1. e \in AwsEdges /\ e[1] = "bucket_policy" /\ f \in AwsEdges /\ f[1] = "distribution"
    BY AwsRouteEdges
  <1> HIDE DEF e, f
  <1> QED  BY <1>1 DEF Mine, Edges

(* The functions are one step between the distribution and the role policy. *)
LEMMA OrderedRoute == Provisioned => RouteIsReady
  <1> SUFFICES ASSUME Provisioned PROVE RouteIsReady  OBVIOUS
  <1> DEFINE InFront == {"bucket", "identity", "origin_request", "origin_response"}
             Bound == {"worker_version", "bucket", "kv"}
  <1>1. built \in [Resources -> Nat]
    BY ProvisioningAssumption DEF Provisioned, PTypeOK
  <1>2. /\ "distribution" \in Resources /\ "lambda_role_policy" \in Resources
        /\ \A r \in InFront : r \in Resources
    BY AwsRouteEdges, EdgeEnds
  <1>3. "worker_deployment" \in Resources /\ \A r \in Bound : r \in Resources
    BY CloudflareRouteEdges, EdgeEnds
  <1>4. CASE stack = "aws"
    <2>1. Edges = AwsEdges  BY <1>4 DEF Edges
    <2>2. \A r \in InFront : built["distribution"] <= built[r]
      BY <1>2, <2>1, AwsRouteEdges DEF Provisioned, Ordered
    <2>3. built["origin_request"] <= built["lambda_role_policy"]
      BY <1>2, <2>1, AwsRouteEdges DEF Provisioned, Ordered
    <2>4. built["distribution"] <= built["lambda_role_policy"]
      BY <1>1, <1>2, <2>2, <2>3
    <2>5. built["worker_deployment"] = 0
      BY <1>3, <1>4, NoForeignEntry DEF Provisioned, OthersAbsent
    <2>6. \A r \in Bound : built["worker_deployment"] <= built[r]
      BY <1>1, <1>3, <2>5
    <2>7. command = "none" /\ ~stopped => built["distribution"] <= built["bucket_policy"]
      BY <1>1, <1>2, <1>4, PolicyIsMine DEF Provisioned, Together
    <2> QED  BY <2>2, <2>4, <2>6, <2>7 DEF RouteIsReady, Route
  <1>5. CASE stack = "cloudflare"
    <2>1. Edges = CloudflareEdges  BY <1>5 DEF Edges
    <2>2. /\ built["worker_deployment"] <= built["worker_version"]
          /\ built["worker_version"] <= built["bucket"] /\ built["worker_version"] <= built["kv"]
      BY <1>3, <2>1, CloudflareRouteEdges DEF Provisioned, Ordered
    <2>3. \A r \in Bound : built["worker_deployment"] <= built[r]
      BY <1>1, <1>3, <2>2
    <2>4. built["distribution"] = 0
      BY <1>2, <1>5, NoForeignEntry DEF Provisioned, OthersAbsent
    <2>5. \A r \in InFront \cup {"lambda_role_policy"} : built["distribution"] <= built[r]
      BY <1>1, <1>2, <2>4
    <2>6. built["distribution"] <= built["bucket_policy"]
      BY <1>1, <1>2, <2>4, AwsRouteEdges, EdgeEnds
    <2> QED  BY <2>3, <2>5, <2>6 DEF RouteIsReady, Route
  <1> QED  BY <1>4, <1>5 DEF Provisioned, PTypeOK

(* The types of a provisioning: what the engine can leave of a component. *)
THEOREM ProvisioningType == PSpec => []PTypeOK
  <1>1. Provisioned => PTypeOK  BY DEF Provisioned
  <1> QED  BY <1>1, InitProvisioned, StepProvisioned, PTL DEF PSpec

(***************************************************************************)
(* A distribution is never ahead of its functions, their role policy and   *)
(* the bucket they read, and a deployed worker never ahead of its version  *)
(* and bindings: through failures, interruptions, edits and deletions, the *)
(* dependsOn and outputs of the declarations are enough.  The policy of    *)
(* the bucket is there too once a command has come to its end.             *)
(***************************************************************************)
THEOREM RouteAlwaysReady == PSpec => []RouteIsReady
  <1> QED  BY OrderedRoute, InitProvisioned, StepProvisioned, PTL DEF PSpec
=============================================================================
