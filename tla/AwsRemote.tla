----------------------------- MODULE AwsRemote -----------------------------
(***************************************************************************)
(* A remote kept in AWS: the deployer that the CLI runs                    *)
(* (packages/remote/aws/src), and the provider that answers clients from a *)
(* CloudFront distribution (packages/remote/aws-provider/src).  They share *)
(* the bucket of RemoteStore, with one deployment.json for each bundle     *)
(* name, and the cache of the distribution.                                *)
(*                                                                         *)
(* CloudFront is external.  A URL is a path with its query.  Requests for  *)
(* one that is not in the cache wait for one request to the origin, whose  *)
(* answer is kept when it is there.  An invalidation is only requested by  *)
(* the deployer: some time later it removes the entries of the URLs it     *)
(* names, and does nothing to an answer that is still being made.          *)
(***************************************************************************)
EXTENDS RemoteStore

CONSTANTS
    Deployers,       \* runs of `wvb remote deploy` that may overlap
    AskedChannels,   \* the channels clients ask for
    Invalidates,     \* the deployer's invalidation is configured
    MaxAnswers       \* bound: answers that CloudFront keeps or that are being made

\* deployment.json: a version for the default channel, and one for each other.
Documents == [version : Versions \cup {None}, channels : [Channels -> Versions \cup {None}]]

ASSUME AwsAssumption ==
    /\ AskedChannels \subseteq Targets /\ None \notin Documents \cup Names
    /\ Invalidates \in BOOLEAN /\ MaxAnswers \in Nat

VARIABLES
    deployment,   \* name -> the content of deployment.json, or None
    deployer,     \* the runs of the deploy command
    finished,     \* history: the deploys that have ended
    latest,       \* history: name and channel -> the version of the last of them, or None
    contended,    \* history: bundles that two runs have deployed at a time
    cache,        \* CloudFront, /bundles/:name: what it would answer, or None
    listCache,    \* CloudFront, /bundles
    invalidating, \* CloudFront: URLs of invalidations under way
    fetching,     \* /bundles/:name at the origin: the version it has read, or None
    gathering,    \* /bundles at the origin: the documents it has read
    overtaken,    \* history: bundles and channels for which an answer was being
                  \* made while another version was written
    answer        \* the last answer to a client

deployVars == <<deployment, deployer, finished, latest, contended, overtaken>>
originVars == <<fetching, gathering>>
cacheVars == <<cache, listCache>>
awsVars == <<deployVars, cacheVars, invalidating, originVars, answer>>
vars == <<storeVars, awsVars>>

-----------------------------------------------------------------------------
(* Documents                                                               *)

EmptyDocument == [version |-> None, channels |-> [c \in Channels |-> None]]

\* getRemoteBundleDeploymentVersion: a channel without a version of its own
\* follows the default one.
VersionIn(doc, c) == IF c # None /\ doc.channels[c] # None THEN doc.channels[c] ELSE doc.version

Effective(n, c) == IF deployment[n] = None THEN None ELSE VersionIn(deployment[n], c)

\* Mutated form: a deploy to a channel sets the default version as well.
SetAlways(doc, c, v) ==
    [version |-> v, channels |-> [x \in Channels |-> IF x = c THEN v ELSE doc.channels[x]]]

SetVersion(doc, c, v) ==
    IF c = None THEN [doc EXCEPT !.version = v] ELSE [doc EXCEPT !.channels[c] = v]

\* The URLs that clients ask for; /bundles has no name.
BundleUrl(n, c) == <<n, c>>

ListUrl(c) == <<None, c>>

RemoteUrls == (Names \cup {None}) \X Targets

NoListing == [on |-> FALSE, read |-> {}, version |-> [n \in Names |-> None]]

Idle == [pc |-> "idle", name |-> None, channel |-> None, version |-> None, doc |-> None]

AwsInit ==
    /\ deployment = [n \in Names |-> None]
    /\ deployer = [d \in Deployers |-> Idle]
    /\ finished = {}
    /\ latest = [u \in Names \X Targets |-> None]
    /\ contended = {}
    /\ cache = [u \in Names \X Targets |-> None]
    /\ listCache = [c \in Targets |-> None]
    /\ invalidating = {}
    /\ fetching = [u \in Names \X Targets |-> None]
    /\ gathering = [c \in Targets |-> NoListing]
    /\ overtaken = {}
    /\ answer = None

Init == StoreInit /\ AwsInit

-----------------------------------------------------------------------------
(* wvb remote deploy                                                       *)

\* Whether some deploy of this bundle is under way.
Deploying(n) == \E d \in Deployers : deployer[d].pc # "idle" /\ deployer[d].name = n

BeginDeploy(d, n, c, v) ==
    /\ deployer[d].pc = "idle"
    /\ Cardinality(finished) + Cardinality({x \in Deployers : deployer[x].pc # "idle"}) < MaxDeploys
    /\ deployer' = [deployer EXCEPT ![d] = [pc |-> "read", name |-> n, channel |-> c,
                                            version |-> v, doc |-> None]]
    /\ contended' = IF Deploying(n) THEN contended \cup {n} ELSE contended
    /\ UNCHANGED <<storeVars, deployment, finished, latest, overtaken, cacheVars, invalidating, originVars>>

\* getDeployment: a missing deployment.json is an empty one.
ReadDocument(d) ==
    /\ deployer[d].pc = "read"
    /\ LET doc == deployment[deployer[d].name]
       IN  deployer' = [deployer EXCEPT ![d].pc = "write",
                                        ![d].doc = IF doc = None THEN EmptyDocument ELSE doc]
    /\ UNCHANGED <<storeVars, deployment, finished, latest, contended, overtaken, cacheVars, invalidating,
                   originVars>>

\* Channels for which the origin is making an answer with another version of a
\* bundle than a document has.
Outdated(n, doc) ==
    {c \in Targets : \E v \in {fetching[<<n, c>>], gathering[c].version[n]} : v \notin {None, VersionIn(doc, c)}}

\* updateDeployment: the document that was read, with the new version in it.
WriteDocument(d) ==
    /\ deployer[d].pc = "write"
    /\ LET job == deployer[d]
           doc == SetVersion(job.doc, job.channel, job.version)
       IN  /\ deployment' = [deployment EXCEPT ![job.name] = doc]
           /\ overtaken' = overtaken \cup ({job.name} \X Outdated(job.name, doc))
    /\ deployer' = [deployer EXCEPT ![d].pc = "invalidate"]
    /\ UNCHANGED <<storeVars, finished, latest, contended, cacheVars, invalidating, originVars>>

\* Mutated form: only the bundle's own URL is invalidated.
InvalidatedUrlsBundleOnly(n, c) == {BundleUrl(n, c)}

\* invalidateCache: /bundles and /bundles/:name, with the query of the channel
\* that was deployed to and no other.
InvalidatedUrls(n, c) == {BundleUrl(n, c), ListUrl(c)}

\* The end of a deploy: the invalidation is requested, if one is configured, and
\* not waited for.
Invalidate(d) ==
    /\ deployer[d].pc = "invalidate"
    /\ LET job == deployer[d]
       IN  /\ invalidating' = invalidating \cup
                  IF Invalidates THEN InvalidatedUrls(job.name, job.channel) ELSE {}
           /\ finished' = finished \cup {[name |-> job.name, channel |-> job.channel, version |-> job.version]}
           /\ latest' = [latest EXCEPT ![<<job.name, job.channel>>] = job.version]
    /\ deployer' = [deployer EXCEPT ![d] = Idle]
    /\ UNCHANGED <<storeVars, deployment, contended, overtaken, cacheVars, originVars>>

(* CloudFront takes a URL of an invalidation out of its cache. *)
Drop(url) ==
    /\ url \in invalidating
    /\ invalidating' = invalidating \ {url}
    /\ cache' = [u \in Names \X Targets |-> IF u = url THEN None ELSE cache[u]]
    /\ listCache' = [c \in Targets |-> IF ListUrl(c) = url THEN None ELSE listCache[c]]
    /\ UNCHANGED <<storeVars, deployVars, originVars>>

-----------------------------------------------------------------------------
(* The provider                                                            *)

Failure(status) == [status |-> status, name |-> None, version |-> None, headers |-> {}]

\* Mutated form: origin-response copies the headers that were always there.
ResponseHeadersOfIdentity(metadata) == Identity

\* originResponse: the metadata of the object, for requests that origin-request
\* has rewritten, as headers the client reads.
ResponseHeaders(metadata) == Identity \cup metadata

\* What the bucket answers for a version: the origin's error for a bundle that
\* is not there is passed on, here as 502.
Fetch(n, v) ==
    IF Stored(n, v) = None THEN Failure(502)
    ELSE [status |-> 200, name |-> n, version |-> v, headers |-> ResponseHeaders(Stored(n, v))]

\* GET or HEAD /bundles/:name?channel= is answered from the cache ...
FromCache(n, c) ==
    /\ cache[BundleUrl(n, c)] # None
    /\ answer' = cache[BundleUrl(n, c)]
    /\ UNCHANGED <<storeVars, deployVars, cacheVars, invalidating, originVars>>

Answers ==
    {u \in DOMAIN cache : cache[u] # None \/ fetching[u] # None}
        \cup {ListUrl(c) : c \in {x \in Targets : listCache[x] # None \/ gathering[x].on}}

\* ... or origin-request reads the deployment, and has the request sent on to
\* the bundle of the version it says ...
OriginRequest(n, c) ==
    /\ cache[BundleUrl(n, c)] = None /\ fetching[BundleUrl(n, c)] = None /\ Cardinality(Answers) < MaxAnswers
    /\ answer' = IF Effective(n, c) = None THEN Failure(404) ELSE None
    /\ fetching' = [fetching EXCEPT ![BundleUrl(n, c)] = Effective(n, c)]
    /\ UNCHANGED <<storeVars, deployVars, cacheVars, invalidating, gathering>>

\* ... and what the bucket then has under it is answered.  An answer 200 is kept.
OriginResponse(n, c) ==
    /\ fetching[BundleUrl(n, c)] # None
    /\ answer' = Fetch(n, fetching[BundleUrl(n, c)])
    /\ cache' = IF answer'.status = 200 THEN [cache EXCEPT ![BundleUrl(n, c)] = answer'] ELSE cache
    /\ fetching' = [fetching EXCEPT ![BundleUrl(n, c)] = None]
    /\ UNCHANGED <<storeVars, deployVars, listCache, invalidating, gathering>>

\* Mutated form: any version may be had.
GetVersionUnguarded(n, v) ==
    /\ answer' = Fetch(n, v)
    /\ UNCHANGED <<storeVars, deployVars, cacheVars, invalidating, originVars>>

\* GET /bundles/:name/:version.
GetVersion(n, v) ==
    /\ answer' = IF AllowOther THEN Fetch(n, v) ELSE Failure(403)
    /\ UNCHANGED <<storeVars, deployVars, cacheVars, invalidating, originVars>>

\* GET /bundles?channel= reads the documents of all prefixes, page after page and
\* those of a page side by side.
StartList(c) ==
    /\ listCache[c] = None /\ ~gathering[c].on /\ Cardinality(Answers) < MaxAnswers
    /\ gathering' = [gathering EXCEPT ![c].on = TRUE]
    /\ UNCHANGED <<storeVars, deployVars, cacheVars, invalidating, fetching>>

\* A document that can not be read, or whose prefix is not there yet, is left out.
ReadForList(c, n) ==
    /\ gathering[c].on /\ n \notin gathering[c].read
    /\ \E v \in {Effective(n, c), None} :
          gathering' = [gathering EXCEPT ![c] = [on |-> TRUE, read |-> @.read \cup {n},
                                                 version |-> [@.version EXCEPT ![n] = v]]]
    /\ UNCHANGED <<storeVars, deployVars, cacheVars, invalidating, fetching>>

\* The bundles with a version in the channel; the answer is kept.
AnswerList(c) ==
    /\ gathering[c].on /\ gathering[c].read = Names
    /\ listCache' = [listCache EXCEPT ![c] = gathering[c].version]
    /\ gathering' = [gathering EXCEPT ![c] = NoListing]
    /\ UNCHANGED <<storeVars, deployVars, cache, invalidating, fetching>>

List(c) == StartList(c) \/ (\E n \in Names : ReadForList(c, n)) \/ AnswerList(c)

-----------------------------------------------------------------------------
UploadBundle ==
    /\ \E n \in Names, v \in Versions, metadata \in Metadata : Upload(n, v, metadata)
    /\ UNCHANGED <<deployVars, cacheVars, invalidating, originVars>>

Deploy(d) ==
    \/ \E n \in Names, c \in Targets, v \in Versions : BeginDeploy(d, n, c, v)
    \/ ReadDocument(d) \/ WriteDocument(d) \/ Invalidate(d)

\* An answer is looked at when it is given.
Next ==
    \/ \E n \in Names, c \in AskedChannels : FromCache(n, c) \/ OriginRequest(n, c) \/ OriginResponse(n, c)
    \/ \E n \in Names, v \in Versions : GetVersion(n, v)
    \/ /\ \/ UploadBundle
          \/ \E d \in Deployers : Deploy(d)
          \/ \E url \in RemoteUrls : Drop(url)
          \/ \E c \in AskedChannels : List(c)
       /\ answer' = None

Spec == Init /\ [][Next]_vars

-----------------------------------------------------------------------------
(* Properties                                                              *)

\* A deploy that has ended stays in effect until another one to the same
\* channel, whatever deploys of other bundles do at the same time
\* (deployer.ts:37-51).  Two deploys of one bundle that overlap may undo each
\* other, also when they are to different channels.
DeploysKept ==
    \A n \in Names, c \in Targets :
        ~ Deploying(n) /\ n \notin contended /\ latest[<<n, c>>] # None =>
            /\ deployment[n] # None
            /\ latest[<<n, c>>] = IF c = None THEN deployment[n].version ELSE deployment[n].channels[c]

\* When no deploy of a bundle is under way, and the invalidations that the last
\* ones have requested are through, what CloudFront keeps for the default channel
\* and for a channel with a version of its own is what the deployments say
\* (deployer.ts:51-66, 115-140).  Three kinds of answers are excepted.  Those for
\* a channel that follows the default one are not invalidated by a deploy to the
\* default channel.  Nothing holds an answer back that was being made while the
\* document was written: it may be kept when the invalidation is through already
\* (overtaken).  And without a configured invalidation nothing is removed.
OwnVersion(n, c) == c = None \/ (deployment[n] # None /\ deployment[n].channels[c] # None)

CacheFresh ==
    Invalidates =>
        \A n \in Names, c \in Targets :
            ~Deploying(n) /\ n \notin contended /\ OwnVersion(n, c) /\ <<n, c>> \notin overtaken =>
                /\ BundleUrl(n, c) \notin invalidating /\ cache[<<n, c>>] # None =>
                      cache[<<n, c>>].version = Effective(n, c)
                /\ ListUrl(c) \notin invalidating /\ listCache[c] # None =>
                      listCache[c][n] \in {None, Effective(n, c)}

\* A version that was uploaded and is deployed can be downloaded
\* (uploader.ts:72-81, getBundleDownloadPath.ts:1-3).
DeployedDownloads ==
    \A u \in uploads, c \in Targets :
        Effective(u.name, c) = u.version => Fetch(u.name, u.version).status = 200

\* Unless other versions are allowed, a client is only given versions that were
\* deployed (remote.ts:49-76).
OnlyDeployedServed ==
    answer # None /\ answer.status = 200 /\ ~ AllowOther =>
        \E f \in finished \cup {[name |-> deployer[d].name, channel |-> deployer[d].channel,
                                 version |-> deployer[d].version] : d \in Deployers} :
            f.name = answer.name /\ f.version = answer.version

\* An answer carries the integrity and the signature of an upload of its version:
\* the uploader, origin-request and origin-response each name these headers on
\* their own (uploader.ts:36-46, remote.ts:62, origin-response/handler.ts:27-42).
AnswersCarryMetadata ==
    answer # None /\ answer.status = 200 =>
        \E u \in uploads : /\ u.name = answer.name /\ u.version = answer.version
                           /\ answer.headers = Identity \cup u.metadata
=============================================================================
