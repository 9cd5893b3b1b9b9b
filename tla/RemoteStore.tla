---------------------------- MODULE RemoteStore ----------------------------
(***************************************************************************)
(* The bucket of a remote, S3 or R2: `wvb remote upload` puts a bundle     *)
(* under a key with its metadata, a provider looks it up under a key of    *)
(* its own.  AwsRemote and CloudflareRemote share it: the Cloudflare       *)
(* uploader is the one of AWS with another endpoint.                       *)
(*                                                                         *)
(* S3 and R2 are external: a put or a get of an object is one step.        *)
(***************************************************************************)
EXTENDS Naturals, FiniteSets

CONSTANTS
    Names, Versions, Channels,
    None,            \* no version, no object; as a channel, the default one
    UploadLayout,    \* where the uploader puts a bundle: "flat", its default, or
                     \* "nested", a key function that follows the provider
    AllowOther,      \* the provider's allowOtherVersions
    MaxUploads, MaxDeploys   \* bounds

Targets == Channels \cup {None}

\* What remote.integrity and remote.signature add to an upload; a signature is
\* one of the integrity text and needs it.
Metadata == {{}, {"integrity"}, {"integrity", "signature"}}

ASSUME StoreAssumption ==
    /\ None \notin Versions \cup Channels \cup Metadata
    /\ UploadLayout \in {"flat", "nested"}
    /\ AllowOther \in BOOLEAN
    /\ MaxUploads \in Nat /\ MaxDeploys \in Nat

VARIABLES
    objects,      \* key -> metadata of the bundle there, or None
    uploads       \* history: the uploads so far

storeVars == <<objects, uploads>>

\* The metadata that every upload has.
Identity == {"name", "version"}

Keys == {"flat", "nested"} \X Names \X Versions

\* buildKey of the uploader, without and with a key function.
UploadKey(n, v) == <<UploadLayout, n, v>>

\* Mutated form: the provider looks where the uploader's default layout puts it.
DownloadKeyFlat(n, v) == <<"flat", n, v>>

\* getBundleDownloadPath of the AWS provider, and the key of the Cloudflare one.
DownloadKey(n, v) == <<"nested", n, v>>

Stored(n, v) == objects[DownloadKey(n, v)]

StoreInit ==
    /\ objects = [k \in Keys |-> None]
    /\ uploads = {}

\* remoteUpload and the uploader: a bundle that is there is replaced, --force
\* or not; the checks and the signature come before the put.
Upload(n, v, metadata) ==
    /\ Cardinality(uploads) < MaxUploads
    /\ objects' = [objects EXCEPT ![UploadKey(n, v)] = metadata]
    /\ uploads' = uploads \cup {[name |-> n, version |-> v, metadata |-> metadata,
                                 number |-> Cardinality(uploads) + 1]}
=============================================================================
