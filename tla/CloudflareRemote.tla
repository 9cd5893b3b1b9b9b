-------------------------- MODULE CloudflareRemote --------------------------
(***************************************************************************)
(* A remote kept in Cloudflare: the deployer writes the version of a       *)
(* bundle, or of a bundle in a channel, under a key of its own in KV       *)
(* (packages/remote/cloudflare/src), a Worker answers clients from KV and  *)
(* R2 (packages/remote/cloudflare-provider/src).                           *)
(*                                                                         *)
(* KV is external: a location serves a key from its own copy, which        *)
(* follows the store some time later; keys are listed in their order, a    *)
(* page at a time; and a page counts the keys that have expired, which it  *)
(* does not return.                                                        *)
(***************************************************************************)
EXTENDS RemoteStore, Sequences

CONSTANTS
    JsonOf,          \* what reading a version as JSON gives: of 7 it is 7, of 1.10
                     \* it is 1.1, and 1.2.0 is Malformed
    Malformed,
    KeyOrder,        \* the keys NAME and NAME/CHANNEL, in the order of their text
    MAX_LIMIT,       \* keys on a page
    Expiring,        \* the deployer's expiration or expirationTtl is set
    MaxChanges       \* bound: deploys and expirations

KvKeys == Names \X Targets

ASSUME CloudflareAssumption ==
    /\ JsonOf \in [Versions -> Versions \cup {Malformed}]
    /\ Malformed \notin Versions \cup {None} /\ "expired" \notin Versions
    /\ KeyOrder \in Seq(KvKeys) /\ \A k \in KvKeys : \E i \in DOMAIN KeyOrder : KeyOrder[i] = k
    /\ MAX_LIMIT \in Nat \ {0}
    /\ Expiring \in BOOLEAN /\ MaxChanges \in Nat

VARIABLES
    kv,           \* the store: key -> version, None or "expired"
    local,        \* the copy of the location that answers
    deployed,     \* history: what was deployed
    changes,      \* history: number of deploys and expirations
    listing,      \* a GET /bundles: under way, or answered when its cursor is 0
    response      \* the answer to a GET of a bundle

cfVars == <<kv, local, deployed, changes, listing, response>>

-----------------------------------------------------------------------------
(* wvb remote deploy                                                       *)

\* Mutated form: one key for all channels.
KvKeyOfName(n, c) == <<n, None>>

\* getKey: one key for each channel, so that deploys that overlap are kept.
KvKey(n, c) == <<n, c>>

\* deploy: the bare text of the version.
CfDeploy(n, c, v) ==
    /\ changes < MaxChanges
    /\ kv' = [kv EXCEPT ![KvKey(n, c)] = v]
    /\ deployed' = deployed \cup {[name |-> n, channel |-> c, version |-> v]}
    /\ changes' = changes + 1
    /\ UNCHANGED <<storeVars, local, listing, response>>

Expire(k) ==
    /\ Expiring /\ changes < MaxChanges
    /\ kv[k] \in Versions
    /\ kv' = [kv EXCEPT ![k] = "expired"]
    /\ changes' = changes + 1
    /\ UNCHANGED <<storeVars, local, deployed, listing, response>>

\* The location's copy of a key follows the store.
Propagate(k) ==
    /\ local[k] # kv[k]
    /\ local' = [local EXCEPT ![k] = kv[k]]
    /\ listing' = [listing EXCEPT !.undisturbed = FALSE]
    /\ UNCHANGED <<storeVars, kv, deployed, changes, response>>

-----------------------------------------------------------------------------
(* The provider: GET /bundles/:name and GET /bundles/:name/:version        *)

\* kv.get of type "json".  Malformed stands for the error it throws.
ValueAt(k) == IF local[k] \in Versions THEN JsonOf[local[k]] ELSE None

CfAnswer(status, n, c, v) == [status |-> status, name |-> n, channel |-> c, version |-> v]

NoList == [cursor |-> 0, channel |-> None, entries |-> {}, undisturbed |-> FALSE]

\* The Worker keeps nothing between requests: one client at a time is enough.
Quiet == listing.cursor = 0 /\ listing' = NoList

\* getBundleDataResponse: name and version are headers, but the metadata of the
\* upload lose their prefix, so that a client finds no integrity or signature.
DataResponse(n, c, v) ==
    IF Stored(n, v) = None THEN CfAnswer(404, n, c, None) ELSE CfAnswer(200, n, c, v)

\* getBundleVersion: the key of the channel alone; a channel without a version
\* of its own does not follow the default one here.
VersionKey(n, c) == <<n, c>>

CfGet(n, c) ==
    /\ Quiet
    /\ response' = IF ValueAt(VersionKey(n, c)) = Malformed THEN CfAnswer(500, n, c, None)
                   ELSE IF ValueAt(VersionKey(n, c)) = None THEN CfAnswer(404, n, c, None)
                   ELSE DataResponse(n, c, ValueAt(VersionKey(n, c)))
    /\ UNCHANGED <<storeVars, kv, local, deployed, changes>>

CfGetVersion(n, v) ==
    /\ Quiet
    /\ response' = IF AllowOther THEN DataResponse(n, None, v) ELSE CfAnswer(403, n, None, None)
    /\ UNCHANGED <<storeVars, kv, local, deployed, changes>>

-----------------------------------------------------------------------------
(* The provider: GET /bundles                                              *)

\* Keys that the next page covers, in their order, from position i on.
Present(i) == {j \in i..Len(KeyOrder) : local[KeyOrder[j]] # None}

PageFrom(i) == {j \in Present(i) : Cardinality({x \in Present(i) : x <= j}) <= MAX_LIMIT}

\* Keys a page returns, as a set of key-value pairs.
Returned(page) == {KeyOrder[j] : j \in {x \in page : ValueAt(KeyOrder[x]) # None}}

\* getRemoteBundleDeploymentVersion over the bundles of one page: what the keys
\* of the page alone say.
VersionOn(page, n, c) ==
    IF c # None /\ <<n, c>> \in Returned(page) THEN ValueAt(<<n, c>>)
    ELSE IF <<n, None>> \in Returned(page) THEN ValueAt(<<n, None>>)
    ELSE None

BeginList(c) ==
    /\ listing.cursor = 0
    /\ listing' = [cursor |-> 1, channel |-> c, entries |-> {}, undisturbed |-> TRUE]
    /\ response' = None
    /\ UNCHANGED <<storeVars, kv, local, deployed, changes>>

\* listBundleDeployments for one page: the bundles of different pages are not
\* put together.  One value that is not JSON fails the request.
EntriesOf(page) ==
    {[name |-> n, version |-> VersionOn(page, n, listing.channel)] :
        n \in {x \in Names : VersionOn(page, x, listing.channel) # None}}

\* Mutated form: the cursor of the next page is not handed on.
AfterFirstPage(page) == 0

\* The next page starts behind the last key of this one; a page without any
\* returned key is taken for the end of the list.
AfterPage(page) ==
    LET next == 1 + CHOOSE j \in page : \A x \in page : x <= j
    IN  IF Returned(page) = {} \/ Present(next) = {} THEN 0 ELSE next

ListPage ==
    /\ listing.cursor # 0
    /\ LET page == PageFrom(listing.cursor)
           entries == listing.entries \cup EntriesOf(page)
       IN  IF \E k \in Returned(page) : ValueAt(k) = Malformed
           THEN listing' = NoList
           ELSE listing' = [listing EXCEPT !.cursor = AfterPage(page), !.entries = entries]
    /\ UNCHANGED <<storeVars, kv, local, deployed, changes, response>>

-----------------------------------------------------------------------------
CfInit ==
    /\ kv = [k \in KvKeys |-> None]
    /\ local = [k \in KvKeys |-> None]
    /\ deployed = {}
    /\ changes = 0
    /\ listing = NoList
    /\ response = None

CfUpload ==
    /\ \E n \in Names, v \in Versions : Upload(n, v, {})
    /\ UNCHANGED cfVars

CfNext ==
    \/ CfUpload
    \/ \E n \in Names, c \in Targets, v \in Versions : CfDeploy(n, c, v)
    \/ \E k \in KvKeys : Expire(k) \/ Propagate(k)
    \/ \E n \in Names, c \in Targets : CfGet(n, c)
    \/ \E n \in Names, v \in Versions : CfGetVersion(n, v)
    \/ \E c \in Targets : BeginList(c)
    \/ ListPage

CfSpec == StoreInit /\ CfInit /\ [][CfNext]_<<storeVars, cfVars>>

-----------------------------------------------------------------------------
(* Properties                                                              *)

\* What a list should say of a bundle: its version in the channel, else the
\* default one.
VersionFor(n, c) ==
    IF ValueAt(<<n, c>>) # None THEN ValueAt(<<n, c>>) ELSE ValueAt(<<n, None>>)

CfEntry(n, c) == [name |-> n, version |-> VersionFor(n, c)]

\* A list that is answered, and that no change has come between, shows every
\* deployed bundle at what its version reads as, although it is put together
\* from pages that split the keys of a bundle; the list of the default channel
\* shows nothing else (listBundleDeployments.ts:37-61,
\* listAllBundleDeployments.ts:15-19).  For another channel a bundle may be there
\* twice, the second time at its default version.  A page whose keys have all
\* expired ends the list early.
ListShowsDeployed ==
    LET due == {CfEntry(n, listing.channel) : n \in {x \in Names : VersionFor(x, listing.channel) # None}}
    IN  listing.cursor = 0 /\ listing.undisturbed /\ (\A k \in KvKeys : local[k] # "expired") =>
            /\ due \subseteq listing.entries
            /\ listing.channel = None => listing.entries = due

\* A client of a channel is only given what reading, as JSON, a version that was
\* deployed to that very channel gives, whatever the deploys to other channels and
\* bundles (deployer.ts:29-41, getBundleVersion.ts:3-10).  It need not be that
\* version: after a deploy of 1.10 it is 1.1, and after one of 1.2.0 nothing.
ChannelServesItsOwn ==
    response # None /\ response.status = 200 /\ ~ AllowOther =>
        \E f \in deployed : /\ f.name = response.name /\ f.channel = response.channel
                            /\ JsonOf[f.version] = response.version

\* A bundle that was uploaded and is deployed can be downloaded
\* (deployer.ts:22, getBundleVersion.ts:9, getBundleDataResponse.ts:8).
CfDeployedDownloads ==
    \A u \in uploads, k \in KvKeys :
        k[1] = u.name /\ local[k] = u.version => ValueAt(k) = u.version /\ Stored(u.name, u.version) # None
=============================================================================
