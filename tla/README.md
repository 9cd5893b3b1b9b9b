# webview-bundle: specifications

webview-bundle ships web resources in `.wvb` files, serves them to a webview from inside the
application, and replaces them over the air. This directory holds TLA+ models of the parts of it
that keep state, their model-checking configurations, and machine-checked proofs.

All paths below are relative to `src/`; `core/` stands for `packages/core/src/`.
`PROJECT.json` lists components, runs, mutants, the line map, findings, hazards and theorems.

1. [The system](#1-the-system)
2. [The modules](#2-the-modules)
3. [Runs](#3-runs)
4. [Fairness](#4-fairness)
5. [Proofs](#5-proofs)
6. [Findings and observations](#6-findings-and-observations)
7. [What is not modelled](#7-what-is-not-modelled)
8. [Plan](#8-plan)

How to check it, in this directory:

    tlc -workers 2 -config manifest.cfg MCBundleManifest     # likewise for the other runs
    tlapm BundleSourceProofs.tla                             # likewise for the other *Proofs

## 1. The system

### 1.1 Inventory

| Part | State it keeps | Operations | Meets |
|---|---|---|---|
| Bundle manifest, `core/source/manifest.rs` | `manifest.json`; its copy in memory, in `OnceCell<RwLock<..>>`, loaded on first use | list, contains, current version, metadata, `update_current_version`, `insert_entry`, `remove_entry`, `save` | the bundle source, concurrently |
| Bundle source, `core/source/source.rs` | a builtin (read-only) and a remote manifest, the `.wvb` files of the remote directory, the map from bundle to descriptor (`DashMap<_, Arc<OnceCell<..>>>`) | `load_version`, `resolve_filepath`, `reader`, `fetch`, `load_descriptor`, `unload_descriptor`, `update_version`, `write_remote_bundle` | protocol, updater, IPC of the bindings |
| Bundle protocol, `core/protocol/bundle.rs` | none of its own | GET and HEAD of a path in a bundle, `Range` requests | descriptor from the source's cache, body from the bundle file, opened anew |
| Local protocol, `core/protocol/local.rs` | map from URL to the last response, never emptied | proxy a request to a development server, answer its 304 from the map | the development server (external) |
| Bundle format, `core/builder.rs`, `writer.rs`, `reader.rs`, `bundle.rs`, `header.rs`, `index.rs`, `checksum.rs` | the entries of a builder; the bytes of a file; a descriptor or bundle in memory | build, write, read, `get_data`, `get_data_checksum` | written by CLI and source, read by source and protocol |
| Updater, `core/updater/updater.rs` | configuration only; the rest is the source's | `list_remotes`, `get_update`, `download_update` | remote client, integrity, signature, `write_remote_bundle` |
| Integrity and signature, `core/integrity`, `core/signature` | none | digest of a body, policy, verification | updater; the texts are made by `packages/config/src/remote` |
| Remote client, `core/remote` | none | `list_bundles`, `get_current_info`, `download`, `download_version` | the provider over HTTP |
| Node bindings, `packages/node` | queued calls into JavaScript (`js.rs`), threads of the runtime | the core's operations as promises, progress callbacks | Electron, CLI |
| Electron, `packages/electron` | which schemes have a handler, whether registration has settled | protocol registration, IPC for source, remote, updater | node bindings |
| Tauri plugin, `packages/tauri` | the same | the same | core |
| CLI, `packages/cli` | files: source directory, bundles, extracted directory, builtin directory | create, extract, serve, builtin, `remote upload/deploy/list/current/download` | config; uploader and deployer of a remote; node bindings |
| Config, `packages/config` | none | defaults, `makeIntegrity`, `signSignature` | CLI |
| AWS remote, `packages/remote/aws` | bundles and one `deployment.json` per name in a bucket | upload; deploy: read, change, write, invalidate | S3, CloudFront |
| AWS provider, `packages/remote/aws-provider` | none; CloudFront caches its answers | the four HTTP routes the remote client uses | S3, the client |
| Cloudflare remote and provider, `packages/remote/cloudflare*` | bundles in R2, one KV key per name and channel | the same | KV, R2, the client |
| Pulumi components, `packages/remote/*-pulumi` | the cloud resources of a remote | up, destroy | the Pulumi engine (external) |
| Release tooling, `xtask`, `.github/workflows/release.yaml` | main, its tags and `.changelog` files; npm, crates.io | prepare-release, release, prerelease, artifacts | registries, the remote repository |
| Benches, examples, website | none | | |

### 1.2 How the parts interact

    xtask ──> registries, main, tags                                        (Release)

    wvb create/extract/serve  ── .wvb ── wvb remote upload/deploy ──> bucket + deployments <── provider <── cache
       (CliBundles, BundleFormat)         (CliBundles)               (RemoteStore, AwsRemote, CloudflareRemote)  │
    wvb builtin ──> builtin directory of the application   (BuiltinInstall)                                 remote client
                          pulumi up/destroy ──> bucket, functions, distribution (Provisioning)                   │
                                                                                                             updater
     application: getUpdate, downloadUpdate, updateVersion ────────────────────────────────────────────────> (Updater)
                                                                                              │ write_remote_bundle,
     window ── IPC ──> main process ── call ──> thread of the runtime ── callback ──> main    │ update_version
                       (ElectronApp)            (NodeCallbacks)                               │
     window ── app://bundle/path ──> BundleProtocol ── load_descriptor, reader ──> BundleSource
                (RangeAnswer, AssetStream)                                     (BundleSource)
                                                                                 │         │
                                                                        BundleManifest   .wvb file
                                                                      (BundleManifest)  (BundleFormat)
     window ── local protocol ──> development server        (LocalProxy)

Everything in the core is asynchronous and runs on a multi-threaded tokio runtime: requests of a
webview, IPC calls and downloads of several windows share one `BundleSource`. No lock is held from
one operation of the manifest to the next, nor across two of its lock acquisitions. The CLI and the
release tooling are processes that act on files and servers and may be killed; nothing rolls back.

### 1.3 What is hard, and what correctness means

* **Manifest.** It is loaded lazily by whichever caller is first, while others wait; a load may fail
  and must then be taken over. `update_current_version` and `load_current_metadata` each take the lock
  twice. Correct: what is current is listed; only a removal delists; every call returns.
* **Source.** Installs, version switches, requests and unloads overlap at every `await`; the descriptor
  cache is filled single flight, and unloading may come in the middle of a fill. Files are written in
  place. Correct: what is resolved exists; the cache holds what was current since the last unload, one
  fetch at a time; headers and body of an answer are of one version; it is, in all, a store of versions.
* **Ranges.** Inclusive ends, u64 arithmetic, cutting off at `MAX_LEN`. Correct: every byte lands at
  its own offset, lengths agree with headers, a reader that asks on and on gets the whole asset.
* **Electron and node.** Schemes are registered one after the other once Electron is ready, while windows
  load and IPC calls arrive; a progress callback blocks a thread of the runtime until the main thread has
  run it. Correct: what is registered is served; every call settles.
* **Local protocol.** A response is put in the map and taken out again in two steps. Correct: an answer
  is of the URL that was asked for, and not older than the request.
* **Format.** Offsets are computed in one loop and bytes laid out in another; a file may be cut short
  at any byte, or be read while it is written. Correct: a path is answered with its own entry or an
  error; verified means as written.
* **Updater.** Three separate calls, several windows, a deployment in between, a server that answers
  anything. Correct: nothing unchecked is installed or run; in the end what is deployed runs.
* **Remotes.** On AWS a read-change-write without a condition and a cache that is invalidated by URL; on
  Cloudflare a store whose copies lag behind and lists that come in pages; in both, packages that build the
  same keys and headers on their own. Correct: a deploy stays in effect; caches agree with the deployments;
  what is deployed can be downloaded with its metadata, and nothing else is given out.
* **Provisioning.** The engine makes, changes and deletes resources in any order that dependencies
  allow, and stops when one fails. Correct: what is reachable is never ahead of what it relies on.
* **CLI.** Settings come from the command line, a config that may be a function, and defaults; files change
  while they are packed, and a process may be killed between two files. Correct: the command line decides; what
  says it is done is whole.
* **Releases.** Registries cannot be undone, main moves while a job runs, any step may fail. Correct: what main
  and tags name is published; every change is released, and once.

The hazards, each with its line and the properties aimed at it, are in `PROJECT.json`.

## 2. The modules

| Module | Models | Uses |
|---|---|---|
| `ManifestData` | the value of a manifest and the effect of its operations | |
| `BundleManifest` | `BundleManifest<ReadWrite>`: file, lazy load, locks, save, crash | extends `ManifestData` |
| `VersionStore` | abstract: installed and current versions of bundles | |
| `BundleSource` | `BundleSource` and the GET/HEAD job of `BundleProtocol` | extends `ManifestData`; implements `VersionStore` |
| `RangeAnswer` | the answer to a `Range` header, as operators | |
| `AssetStream` | a webview that reads an asset in pieces | extends `RangeAnswer` |
| `NodeCallbacks` | calls of the native library and callbacks that block its threads | |
| `ElectronApp` | registration, requests and IPC of the Electron package | extends `NodeCallbacks` |
| `LocalProxy` | `LocalProtocol` and a development server | |
| `BundleFormat` | builder, writer, readers, bytes of a file | |
| `Updater` | updater, remote client, integrity and signature policy | extends `ManifestData` |
| `RemoteStore` | the bucket of a remote: keys, metadata, uploads | |
| `AwsRemote` | deployer, provider, CloudFront | extends `RemoteStore` |
| `CloudflareRemote` | deployer and provider over KV and R2 | extends `RemoteStore` |
| `Provisioning` | resources of the Pulumi components and what they wait for | |
| `CliConfig` | where settings come from, which files and bundles a matcher selects | |
| `CliBundles` | create, extract, serve, remote upload/deploy/download | extends `CliConfig` |
| `BuiltinInstall` | `wvb builtin` | extends `CliConfig` |
| `Release` | prepare-release, release and prerelease jobs | |
| `MCBundleManifest`, `MCBundleSource`, `MCUpdater` | their instances for TLC | |
| `MCWebview` | `AssetStream`, `ElectronApp` | |
| `MCTools` | `BundleFormat`, `BuiltinInstall`, `CliBundles`, `Release` | |
| `MCRemotes` | `AwsRemote`, `CloudflareRemote`, `Provisioning`, `LocalProxy` | |
| `*Proofs` | theorems, see [section 5](#5-proofs) | |

`MCWebview`, `MCTools` and `MCRemotes` each check systems that share no state. A variable `studied`, chosen in
the initial state, says which one moves; the state of the others stays as it is. So a run is one question about
what an application sees, is built with, or gets its bundles from, and nothing is multiplied.

Conventions: `None` (or `Unset`, `Nothing`) is the absence of a value. A definition whose comment begins
"Mutated form" is not part of a model: it is what a plausible mistake in the definition that follows it would
be, and `PROJECT.json` says which property finds it. Variables marked "history" are read by properties
only (and by the guards that bound a run). A type invariant stands in each core module; those of the proved modules
are theorems and are not repeated in the runs.

**ManifestData.** `Data` maps a bundle to its current version and to the metadata of each version
(`None`: not listed). An entry of the code always has a current version, so one without stands for no
entry. `InsertEntry`, `SetCurrent`, `RemoveEntry`, `CanRemove` are the bodies of the operations under
their guards.

**BundleManifest.** `disk` is `manifest.json` (absent, empty, torn or whole), `loaded`/`mem` the
`OnceCell` and its value, `loader` the holder of its permit; `pc` and `call` say where each caller is. A
step ends where the code awaits or releases a guard, so that `CheckUpdate` and `SetVersion` are two
steps (`manifest.rs:160-176`), so are `ReadVersion` and `ReadMetadata`; `save` is snapshot, truncation
and write. `Restart` loses everything but `disk`.

**BundleSource.** The state is `remote` (the manifest in memory), `saved` (what `manifest.json` says),
`file` and `mix` (the files, and which editions have bytes in each), `cellOf`/`value`/`initBy` (the
descriptor map, its cells, and who initialises them), and for each task its place and locals. A *cell*
is the identity of an `Arc<OnceCell<..>>`: a task keeps its clone after `unload_descriptor` has taken
the cell out of the map, and fills it all the same; a cell without a user is freed (`FreeCells`).
An *edition* is one publication of a version, as a version may be published twice with other bytes.
A GET is `lookup → cell → resolve → open → read → entry → resolve → open → read → answer`: the second
`resolve` is the code's (`protocol/bundle.rs:315` opens the bundle anew), and is what
`AnswerOfOneVersion` is about. A download is `create → write → insert`: `File::create` truncates in place,
writers that overlap write one file. The manifest's lazy load is left to `BundleManifest`; here each of
its lock acquisitions is one step.

**RangeAnswer, AssetStream.** `RangeAnswerTo(header, len)` follows `handle_inner` from the parsing of the
header (the crate `http_range`, by what it does) over `satisfiable` and the cut at `MAX_LEN` to status, parts
and Content-Length, in arithmetic modulo `WORD`. In `AssetStream` each byte of an asset is named by its
offset; the webview asks for the rest (`AskRest`) or for anything (`AskRanges`) and stores what comes
where `Content-Range` says it belongs.

**NodeCallbacks, ElectronApp.** A call of the library waits for a thread of the runtime; a download reports
`MaxChunks` times. `Report` queues the function (`js.rs:40-45`), `Wait` takes the lock and waits
(`js.rs:46-50`), `RunCallback` is the main thread, and a callback that runs between the two leaves a
notification nobody gets: `lost`. In `ElectronApp` the main process builds a handler for each scheme and registers it;
`whenProtocolRegistered` resolves when all are, or rejects with the first that fails while the others go on. Without
`protocol.handle` a request may be `dropped`: nothing calls back when its `Request` or the app's `onError` throws.
A window fetches from a scheme or calls over IPC; `app` says whether there is an updater, a preload script, and
`protocol.handle`.

**LocalProxy.** `cached` is the map; a task sends, gets a status, reads the body, inserts, and takes out
(`local.rs:223-240`). `LocalhostUri` takes the host to its server and the path to what it decodes to (`Server`,
`Resource`), so that several URIs are one URL at the server, and share an entry. The server may answer 304 to a GET
when the resource is as it last sent it in full.

**BundleFormat.** A byte is `<<part, content, position>>`, so that a text decodes exactly when all its
bytes are there in order. The loops of `build_index` and `build_data` are one iteration a step, over one
`order` of the map; `WritePiece` writes header, index, data one after the other, `FailWrite` stops in any of
them after any number of bytes, `Damage` makes a byte bad. `Open` reads a descriptor or a whole bundle,
with checksums verified or not; `GetData` and `GetDataChecksum` read one entry.

**Updater.** A window goes `GetCurrentInfo → Decide → Download → CheckIntegrity → VerifySignature → Install → Switch`.
`GetCurrentInfo` and `Decide` are `get_update`; `Download` to `Install` is `download_update`; `Switch` is the
application's own `updateVersion`. What is checked is a text, a content with its index in some order; what is written
is the bundle read from it with its index in the order of another map (`Rewritten`, `updater.rs:181-188`). The server
is external: it answers with any member of `Responses` (an integrity text or none, a signature or none, a body), and
what is deployed changes at any time. The source is the data of its manifest, changed by whole calls, as
`VersionStore` allows.

**RemoteStore, AwsRemote, CloudflareRemote.** `objects` is the bucket: key → metadata. The Cloudflare uploader is the
one of AWS with another endpoint, so both share it. `deployment` holds the documents, `deployer` the runs of the
deploy command, each `read → write → invalidate`; a run may stop before any of them. The last step only requests an
invalidation, if one is configured; CloudFront drops its URLs some time later (`invalidating`, `Drop`). `cache` and
`listCache` are what CloudFront would answer for `/bundles/:name?channel=` and `/bundles?channel=`. An answer is made
in steps: `OriginRequest` reads the deployment, `OriginResponse` fetches from the bucket and keeps what comes
(`fetching`); a list reads one document after the other (`gathering`). `overtaken` has the answers that were being
made while another version was written. `ResponseHeaders` is what origin-request and origin-response make of metadata.
On Cloudflare `kv` is the store and `local` the copy of the location that answers, which follows key by key
(`Propagate`). The deployer writes the text of a version and the provider reads it as JSON: `JsonOf` says what comes
of it, another version or none. A list is read page by page (`ListPage`) in the order of the keys' texts, with expired
keys counted and not returned.

**Provisioning.** `AwsEdges` and `CloudflareEdges` are read off the declarations: `<<a, d>>` when `a` takes an
output of `d` or names it in `dependsOn`. `built` is the edition of the configuration each resource was made with;
`Make`, `Delete` and `Refuse` are the engine's steps, and `stopped` says that the last command did not come to its end.

**CliConfig, CliBundles, BuiltinInstall.** A project is its config files and `package.json` files in the working
directory and above; a config value is unset, an array of patterns, or a function. A command is a process with a place
(`create`: collect, read each file, write; `extract`: check, empty, write each file; and so on) which `Kill` ends
anywhere, leaving torn files; `serve` looks at header and index only, and answers what it can of a torn one.
`BuiltinInstall` empties the directory, lists, downloads `Concurrency` at a time and opens and writes the manifest last;
a run that fails, also at the directory or the manifest, is told from one whose process is lost.

**Release.** `main` is the branch with its versions, staged commits, changelogs; `job` a run of the workflow with
its own checkout; `published` the registries. `PrepareRelease` stages commits; a job bumps, publishes file after
file in order, runs scripts, commits what succeeded, pushes and tags. A changelog is the set of its sections, each with
the conventional ones among the staged commits (`Conventional`). Of the native binaries only what makes the script of a
package fail is there.

## 3. Runs

Seven runs pass; each of the other five checks one property that a document or a test of the
repository states and that the code does not have.

| Run | Module | Checks | Distinct states |
|---|---|---|---|
| `manifest` | `MCBundleManifest` | `ManifestWellFormed` `OnlyRemoveDelists` `CallsReturn` | 117 000 |
| `source_all` | `MCBundleSource` | `ResolvedFileExists` `CachedSinceUnload` `SingleFlight` `CachedDescriptorStable` `ImplementsStore` | 304 000 |
| `source_installed` | `MCBundleSource` | `InstalledFileWhole` `AnswerOfOneVersion` `CallsReturn` | 31 000 |
| `updater` | `MCUpdater` | `StrictContentMatches` `RunsSignedContent` `UpdateSettles` | 214 000 |
| `webview` | `MCWebview` | `BytesInPlace` `PartsMatchHeaders` `StreamCompletes` `RegisteredMeansServed` `CallsSettle` | 35 000 |
| `tools` | `MCTools` | `AnswersOwnEntry` `WholeBundleReads` `VerifiedIsWritten` `BuiltinManifestWhole` `CommandLineDecides` `ExtractedIsBundle` `MainNamesPublished` `EachChangeReleasedOnce` `StagedGetsReleased` | 767 000 |
| `remotes` | `MCRemotes` | `DeploysKept` `CacheFresh` `DeployedDownloads` `OnlyDeployedServed` `AnswersCarryMetadata` `ListShowsDeployed` `ChannelServesItsOwn` `RouteIsReady` `AnswerOfItsUrl` `UnsharedAnswerIsCurrent` | 629 000 |
| `source_switch_answer` | `MCBundleSource` | `AnswerOfOneVersion`, violated | |
| `source_restart` | `MCBundleSource` | `InstalledStaysInstalled`, violated | |
| `updater_uploaded` | `MCUpdater` | `UpdateSettles`, violated | |
| `aws_default_keys` | `MCRemotes` | `DeployedDownloads`, violated | |
| `cloudflare_versions` | `MCRemotes` | `CfDeployedDownloads`, violated | |

What each shows, its bounds, and why they are enough:

* **`manifest`** One bundle, two versions, one metadata value, two callers of any operation, I/O errors and crashes.
  What is current of two versions is listed or was removed, in memory and in the file; only `remove_entry` delists
  (from both follows, and is proved, that the two reads of `load_current_metadata` agree); every call returns, also
  one that waits for a load that fails. Operations on different bundles touch different entries under one lock, so a
  second bundle adds products of what one does; two callers are a check-and-set and its disturber, or an initialiser
  and a waiter.
* **`source_all`** One bundle, two versions, one edition, two tasks with any job, all faults, three cells: one in
  the map and one held by each task, the most that can be in use. `Shipped` gives the application
  version `v1` as builtin. Tasks and cells are interchangeable. No liveness is checked here, so symmetry is sound.
  `ImplementsStore` is the refinement of `VersionStore`; it says among other things that what is current is
  installed (`CurrentInstalled`, which has a theorem of its own).
* **`source_installed`** A process that starts with an installed version, no version switch, fetches that fail.
  With nobody switching, an answer is of one version and an installed file is whole; every call returns,
  also a request that waits for another one's fetch, and that one fails or is unloaded under it.
* **`updater`** One bundle, two versions, two windows; up to two deployments and downloads of a given version; a sound
  answer and one for each way an answer can be wrong (`OneFault`): a header missing, a bad one, another body, and
  headers that go with that other body. Both policies that check, and both kinds of verifier (`Verifying`). Indexes
  have two orders: the one that was signed and another one. What is installed is the content that was checked, in a
  file that need not have the digest. `MaxEvents` bounds disturbances, not the update loop, which runs for ever.
* **`webview`** *Stream*: assets of 0 to 3 bytes, two bytes to an answer: one, two or no cuts; headers of 0 to 2
  specifications with bounds up to two bytes past the end; `WORD` is 64, above every bound as 2^64 is above every
  length. The wrap of an empty asset's suffix happens. *Electron*: two schemes, one of which may fail to be built or
  registered; two calls on a runtime of one thread, so that a callback that is not answered stops the other call too;
  one report of a download, which is enough to lose its notification; both protocol APIs, the older one with the
  requests it drops.
* **`tools`** *Format*: two paths, contents of length 1 and 2, an encoded index of 1 or 3 bytes where the size field
  holds numbers below 3 (so that 3 wraps), one bad byte. Two entries are what it takes to read across a boundary; a
  file is cut at every byte of every part. *Builtin*: three bundles with two downloads at a time, so that one starts
  after another has ended or failed; two versions and one deployment between list and download; with and without
  filters; failures of the directory, a download or the manifest. *Bundles*: two files of a site, two creates, sites
  that change while they are packed, projects with the config in the working directory or above, with ignores and
  headers as functions, patterns or not at all, two sets of options; the remote may hold the result of either create.
  *Release*: two packages, one of them a native one, whose binaries may be for an unknown platform; publish orders
  with a crate and an npm file, one failure, one prerelease, two preparations: what is staged while a job runs is
  released by the next one. A commit that is not conventional is merged first and staged for one package only,
  together with a feature (`ReleaseBound`): it leaves with it and is in no changelog.
* **`remotes`** *AWS*: two names, of which one is deployed and the other only asked for, two versions, one channel
  beside the default one, two runs of the deploy command, one upload, two deploys, `nested` keys, one answer at a time
  in the cache or on its way (`MaxAnswers`), with any deploys, invalidations and requests in between. A deployment
  lost, or an answer left in the cache, takes two deploys; answers meet each other nowhere but in the documents.
  `CacheFresh` and `DeploysKept` leave out bundles that two runs deploy at a time (`contended`), and `CacheFresh` what
  the code does not keep fresh (see section 6). *Cloudflare*: the names `app` and `app-x`, whose keys interleave in
  text order (`app`, `app-x`, `app-x/beta`, `app/beta`), in pages of two keys: the keys of `app` lie on different
  pages; three changes. The versions are 1.1, 1.10, which reads as 1.1, and 1.2.0, which does not read (`JsonValue`).
  In both remotes the bundle that is uploaded is version 1.1, with all metadata or none (`UploadBound`, `AwsBound`).
  *Provisioning*: both components, one edit, one failure, an interruption anywhere. *Local*: two concurrent requests
  of GET or HEAD, two mapped hosts and an unmapped one, two paths that are one when decoded, one edit of a resource;
  requests share the map only through their URL.
* **`source_switch_answer`** A version is switched between the descriptor and the body of a GET.
* **`source_restart`** One task installs a version, then the process restarts.
* **`updater_uploaded`** The server has what `wvb remote upload` put there with `remote.integrity` set.
* **`aws_default_keys`** Uploader and provider both with their default layout: upload, deploy, get.
* **`cloudflare_versions`** A version such as `1.0.0`, whose text is not JSON: upload with fitting keys, deploy, get.

Every property of a passing run has a mutant: a change of one mapped definition, as a plausible bug
would make it, with which TLC finds the property violated under the run's own configuration.

Bounds in the guards of the models: `MaxContentEdits` (`LocalProxy`), `MaxEvents` (`Updater`), `MaxUploads`,
`MaxDeploys` (`RemoteStore`, `AwsRemote`), `MaxAnswers` (`AwsRemote`), `MaxChanges` (`CloudflareRemote`), `MaxEdits`,
`MaxFailures` (`Provisioning`, `Release`), `MaxPrereleases`, `MaxPrepares` (`Release`), `MaxCreates` (`CliBundles`),
`MaxRemoteDeploys` (`BuiltinInstall`), `MaxDamage` (`BundleFormat`), `MaxSize`, `MaxHeader` (`AssetStream`),
`MaxChunks`, `MaxQueue` (`NodeCallbacks`). `Cells` bounds identities, not behaviour. `UploadBound`, `AwsBound`
(`MCRemotes`) and `ReleaseBound` (`MCTools`) are conjuncts of the instances' next-state relations. `tools` has
deadlock checking off: a repository with nothing staged really stops.

## 4. Fairness

* `BundleManifest`, `BundleSource`: `WF(Progress(t))`, as tokio polls a task again that is ready, and its own step
  stays enabled until it takes it. `SF(BeginLoad(t))`, `SF(Await(t))`: the permit of tokio's `OnceCell` is a
  semaphore that serves its waiters in order, so a waiter is not passed by for ever although the permit is taken
  and given back again and again. Beginning a call, unloading and restarting have no fairness.
* `AssetStream`: `WF(Handle)`, `WF(Receive)`: requests are answered and answers arrive. `SF(AskRest)` is a media
  element's turn among the webview's other requests: an assumption on the webview.
* `NodeCallbacks`, `ElectronApp`: `WF` of `RunCallback` (the main thread's event loop runs what is queued), of `Wait`
  and `ReturnFromCallback` (a thread goes on), of building, registering, settling and answering. `SF(Report(c))`,
  `SF(Finish(c))`: a call on the runtime gets its turn again and again although its thread is taken in between. A call
  that lost its notification has no step: `CallsSettle` excepts it, and the others when as many are lost as there are
  threads. Nor has a request that the older protocol API drops.
* `Updater`: `WF(UpdateLoop(t))`: an application that has begun goes on. `SF(GetCurrentInfo(t, b))`, `SF(Decide(t))` and
  `SF(Download(t, Sound))`: however often requests fail and answers are bad, now and then one succeeds. These
  are assumptions on network and server, without which no client can settle. Nothing is assumed of deployments,
  which end because `MaxEvents` bounds them.
* `Release`: `WF(JobStep)`: a job that has begun goes on or is lost. `SF(StartJob(FALSE, AllPackages))`: a maintainer
  starts the release workflow again while something is staged, which is what the failed job asks for.
* `LocalProxy`, the remotes, `Provisioning`, `BundleFormat`, `CliBundles`, `BuiltinInstall` state safety only: nothing in
  the repository promises that a server answers, or that a command that failed is repeated.

## 5. Proofs

TLAPS proves the following for every value of the constants that satisfies the named assumptions.

| Module | Theorem | Property |
|---|---|---|
| `ManifestProofs` | `ManifestType`, `ManifestAlwaysWellFormed`, `VersionAlwaysListed`, `NothingElseDelists` | `TypeOK`, `ManifestWellFormed`, `VersionStillListed`, `OnlyRemoveDelists` |
| | `WaitsAreForLiveLoads` | `WaitsForLiveLoad` (no run: the safety half of `CallsReturn`) |
| `BundleSourceProofs` | `TypeCorrect`, `CurrentAlwaysInstalled`, `ResolvedFileAlwaysExists`, `SourceImplementsStore` | `TypeOK`, `CurrentInstalled`, `ResolvedFileExists`, `ImplementsStore` |
| | `AlwaysSingleFlight`, `CacheAlwaysSinceUnload`, `DescriptorsAreStable` | `SingleFlight`, `CachedSinceUnload`, `CachedDescriptorStable` |
| | `WaitsAreForLiveFetches` | `WaitsForLiveFetch` (no run: the safety half of `CallsReturn`) |
| | `InstalledFilesAreWhole` | `InstalledFileWhole` |
| | `UnswitchedAnswersAreOfOneVersion`, `AnswersAreOfOneVersion` | `AnswerOfOneVersion`, where no location changes, and where nobody switches |
| `WebviewProofs` | `BytesAlwaysInPlace`, `PartsAlwaysMatchHeaders`, `RegisteredAlwaysServed` | `BytesInPlace`, `PartsMatchHeaders`, `RegisteredMeansServed` |
| | `WaitsAreAlwaysNotified` | `WaitsAreNotified` (no run: the safety half of `CallsSettle`) |
| | `EachAskAlwaysAdvances` | `EachAskAdvances` (no run: the safety half of `StreamCompletes`) |
| `BundleFormatProofs` | `FormatTypeCorrect`, `ReadersAnswerOwnEntry`, `WholeBundlesRead`, `VerifiedDescriptorIsWritten` | `TypeOK`, `AnswersOwnEntry`, `WholeBundleReads`, `VerifiedIsWritten` |
| `UpdaterProofs` | `UpdaterTypeCorrect`, `InstalledContentMatches`, `OnlySignedContentRuns` | `TypeOK`, `StrictContentMatches`, `RunsSignedContent` |
| | `UpdaterImplementsStore` | `ImplementsStore` of `Updater` (no run: `VersionStore` with the updater's manifest) |
| `RemoteProofs` | `EndedDeploysKept`, `CacheAlwaysFresh`, `ServesOnlyDeployed`, `AnswersAlwaysCarryMetadata` | `DeploysKept`, `CacheFresh`, `OnlyDeployedServed`, `AnswersCarryMetadata` |
| | `ChannelsServeTheirOwn`, `ListsShowDeployed`, `RouteAlwaysReady`, `ProvisioningType` | `ChannelServesItsOwn`, `ListShowsDeployed`, `RouteIsReady`, `PTypeOK` |
| | `DeployedAlwaysDownload` | `DeployedDownloads`, when keys are nested |
| `ToolProofs` | `AnswersAreOfTheirUrl`, `UnsharedAnswersAreCurrent` | `AnswerOfItsUrl`, `UnsharedAnswerIsCurrent` |
| | `InstalledManifestIsWhole`, `ExtractedIsAlwaysBundle` | `BuiltinManifestWhole`, `ExtractedIsBundle` |
| | `CommandLineAlwaysDecides` | `CommandLineDecides` |
| | `MainAlwaysNamesPublished`, `ChangesAreReleasedOnce` | `MainNamesPublished`, `EachChangeReleasedOnce` |
| | `ReleasesAlwaysRise` | `ReleasesRise` (no run) |

`ManifestDataProofs` holds the lemmas about `InsertEntry`, `SetCurrent` and `RemoveEntry` the others cite.

Assumptions: `NoneAssumption` (`None` is no version and no metadata), `OpsAssumption`, `SourceAssumption` and
`NoneIsNoRecord` (nor a bundle, task, cell or record; what is shipped is a version or nothing), `FormatAssumption`
(finitely many paths; lengths are positive, as a bincode index and an lz4 block never are empty; the three
outcomes that are no content differ from contents and each other), `UpdaterAssumption` (what the server
answers is of the shape of an answer, and its headers are metadata), `LocalAssumption`, `StoreAssumption`,
`AwsAssumption` (`Nothing` and `None` are no response, metadata or document; requests are GET or HEAD; an unmapped host is
not mapped), `ProvisioningAssumption` (bounds are numbers), `StreamAssumption` (no asset is as long as the numbers
of the code are wide), `CloudflareAssumption` (a list goes through all keys, in some order, in pages of at least one),
`UnsetIsNoDirectory` (the absence of a directory is none), `CreateOptionsAssumption` (the
`-H` options are lists), `ReleaseAssumption` (each package has a file that is
published, and packages share no files, as each has its own directory; and the first versions are no prereleases). They say
what the code's types do.

**Manifest.** `TypeOK` is inductive only with what a caller's place says (`Loading`: one loader, who holds the permit;
a caller past the load finds a value). `Known` says of a caller at `set` or between the two reads that the version it
saw is listed or was removed; `CopiesListed` says the same of every copy of the manifest, in memory, in a snapshot
that is being saved, and in a whole file, so that a crash cannot bring back an ill-formed one. `WaitsForLiveLoad` is
inductive with this: a load ends, in success or failure, only together with giving the permit back.

**Source.** `TypeOK` is not inductive: that a task which reads has a location, or that one which looks up has
a bundle, is known from its place. `Shape` says it, and `Typed == TypeOK /\ Shape` is inductive.

*Installed versions.* `update_version` checks a version in one step and sets it in another. `Manifests`
strengthens `CurrentInstalled` to both manifests, with "a task at `set` has a version that is listed": true as
the source never delists, except in `Restart`, which ends all tasks.

*Files.* `Files` adds to `ResolvedFileExists` that the versions of `saved` have files (for the restart) and that
a task at `write` or `insert` has created its file, since the entry comes after it.

*Cache.* `SingleFlight` is inductive with `Typed`. `CachedSinceUnload` is not: what is cached now was resolved some
steps ago by a task that might have outlived an unload. `Fresh` says why it is so all the same: two bundles
never share a cell (`OneBundlePerCell`); a task's cell, as long as it is in the map, is the one of the task's
bundle (`CellUsedForItsBundle`); what resolves now is in the window (`CurrentInWindow`); and a task that fills a
cell in the map has resolved a location that is in the window (`FillsFromWindow`), since an unload takes the
cell out of the map, and a cell never comes back into it while a task holds it. `CachedDescriptorStable` is a step
property and follows from the same facts: a cell that stays in the map is not given to anyone as a new one, and an
initialiser writes to an empty cell only.

*Waits.* `PermitsHeld` is the converse of `SingleFlight`: a cell names only a task that is fetching for it. It is
inductive with `Typed`, since every way out of a fetch (a bundle that is not there, an I/O error, a file that does not
parse, success) takes the name out, and a cell that is given out anew starts without one. Together with `ReadsFile`
and `FilesHaveEditions` (files stay; one that is whole has content), some guard of the reader's steps always holds.
That leaves to `CallsReturn` what only fairness can give.

*Whole files.* A file is torn while it is being written, so that `InstalledFileWhole` is not inductive. `Written` says
what holds all the time where no write fails: a torn file has a writer or the bytes of two editions, since a writer's
own edition is among those in its file, and writing an edition over itself ends in the whole file.

*One version.* An answer resolves its bundle twice, and the first time may have been in another task. `OneVersion`
says that everything a task holds (location, descriptor, body), what its cell holds and what the map holds is of the
location that the bundle resolves to now. A step keeps this if it keeps the location (`Unswitched`), which is the
condition of `UnswitchedAnswersAreOfOneVersion`: `[][Unswitched]_vars` as a hypothesis on the behaviour.
`AnswersAreOfOneVersion` gets rid of it for a process that starts with a current version of every bundle and runs no
`update_version`: downloads alone, in any number, and restarts then change no location (`Downloading`). That is the
case `source_installed` checks; without either condition the property is false, which is finding 1.

*Refinement.* `Store` maps `remote` and `saved` to their listed and current versions. `InsertVersion` is an
`Install`, `SetVersion` an `Activate` (whose guard is `Manifests`), `Restart` a `Restart`, all else stutters.

**Webview.** *Ranges*: the arithmetic of `RangeAnswer` is proved for all lengths, limits and widths: a satisfiable
range is inside the asset, `AdjustEnd` keeps it there and at most `MAX_LEN` long, nothing wraps, and `ExtractBuf` of
such a range is the slice and does not panic. `InTransit` carries it along the way of an answer, `Placed` to the bytes
that are stored. The data of a stale descriptor, which may be shorter than the entry says, is not part of this model
(finding 1). `EachAskAdvances` says that a request for the rest brings bytes from the offset asked for on, as many as
`MAX_LEN` allows, and that nothing stored is lost; it needs `Waiting` besides (no request before the last one is
answered). *Electron*: `RegisteredMeansServed` says nothing of schemes; `Registration` does: once it has resolved,
every scheme has its handler, and no step takes one away. *Waits*: `Waits` follows a call through `invoke_sync`: its
thread is `calling` or `waiting` exactly as long as its function is in the queue, once and at one place, or its
notification was lost. A wait without either would never end and `CallsSettle` would not excuse it; a function queued
twice would wake a thread that waits for another report.

**Local protocol.** `OfTheirUrl` (responses on their way and in the map are those of their URL, whichever URI it was
made of) is inductive with types and places. Currency needs more: for a URL that is not shared, `InStep` says that the
map keeps what the server has last sent, unless the one request for that URL is just about to insert it, and
`OnItsWay` follows that request: a 304 means the last full response is not older than the request, a 200 carries a
body that is not. A step of a request for another URL leaves both alone (`UnsharedStep`).

**Format.** The argument follows the code: the index has, for the paths done so far, the offset and length
that the layout gives them (`IndexBuilt`); the data section spells those entries (`DataBuilt`); the file is a
prefix of header, index and data, the whole when it is said to be written (`FileWritten`); a reader has the
index that was built and a prefix of the data, all of it when its file was whole (`ReaderHolds`); so it answers
right (`AnswerRight`). All hold until a byte goes bad. `Verified` holds also afterwards: since no two texts of the
same kind share a checksum in the model, what passes it is what was written.

**Updater.** `Typed` has a `Shape` again. `Checked`: an answer beyond a check has passed it. `Trusted`: every
installed file was written from an answer that has passed both checks, in whatever order, every listed version has a
file, and the manifest is well formed; so what is current has a file that has passed both. The signature is over the
integrity text only, so that `RunsSignedContent` needs both: the text is signed and the body has that digest.
*Refinement*: a download that installs is an `Install`, `update_version` an `Activate` of a version that is listed,
all else stutters. The updater's calls on the source are whole here; that the source's own steps implement the same
`VersionStore` is `SourceImplementsStore`.

**Remotes.** *Deploys*: `KeptFor` says of a bundle that was never deployed twice at a time: one job at most; its copy
of the document is the document; a job that is about to invalidate has its version in it; and the version of a channel
comes from the last deploy to it or from that job. *CloudFront*: `InFlightFresh` says that an answer which is being
made has the versions of the documents unless it was overtaken; `Fresh`, that cached answers do, unless a job is about
to request their invalidation (`Settled`), one is under way, or they were overtaken, and only for channels with a
version of their own, as the code invalidates no others. A deploy marks what it overtakes in the step that writes the
document. *What is served*: every version in a document, in a job's copy and in the cache is one of a deploy (`Known`,
which no step takes back); every object is one that was uploaded (`ObjectsUploaded`) and, with nested keys, every
upload is found (`UploadsStored`). *Cloudflare*: a value under a key, in the store or in a copy, was deployed under
that key, so that what is served is what it reads as. *Provisioning*: a resource is never newer than what it waits for
(`Ordered`), because `Make` waits and `Delete` starts from what is used by nothing; the routes follow along the edges.
Nothing waits for the bucket policy: that it is there when a command has come to its end is `Together` (then all
resources are of one edition). *Lists*: `ShownBefore` says that the list has an entry for each key before the cursor
that decides what a client of the channel gets, which is a bundle's own key for the channel if there is one and its
default key otherwise; and `NothingElse`, that a list of the default channel has no other entries. A page adds the
keys up to the next cursor (`PageFrom`; that a page which is not the last ends at its last key takes a lemma on the
least and greatest of a set of positions). Any change in between ends the claim (`undisturbed`).

**CLI.** *Builtin*: `RunInOrder` follows a run: after a clean there is no manifest until the last two steps, and no
whole one before the last, the selection is what is still to do, has been begun or has failed, and each entry that is
neither being written nor failed has a whole file, for any `Concurrency`. *Bundles*: `BundleKept` says that a whole
bundle file or upload, wherever it has been copied to, is one that `create` has packed (`Made`), and that an
extraction in its writing step has exactly the files of its bundle that are done (`Extracting`), as the directory was
removed first. *Settings*: `isFileIgnored` and `getHeaders` are loops; the model says what they compute in closed form
(the first input that decides; per name the last of the layers that count), which TLC has compared with the loops.
`AsTold` says that what is being packed and what is packed has no path that the command line ignores and only the told
values of a told header. It is inductive because `--ignore` comes first among the inputs, where `isFileIgnored` ends,
(`ToldIgnored`), and the `-H` rules come last, where `getHeaders` sets them over everything (`LastInputDecides`, and
`RulesAsTold` for two rules of one input).

**Releases.** `JobInOrder` follows a job: what is done has been published, every file of it; of the package that is
being published, the files that are no longer to do are in their registries unless one failed; its sections have the
conventional ones of the staged commits of its base. `BranchInOrder` says that what the changelogs have is in tags and
no longer staged, so that no commit gets into a second section. Main is only changed by a push from the state the job
began with or a merge or staging of other commits, and a release bumps the files of its targets alone: here the proof
needs that packages share no files. `Rising` says that what a job will write is newer than what it began with and that
no tag is above main; as a push happens only on what the job began with, transitivity gives `ReleasesRise`.

**Only model-checked.** Liveness (`CallsReturn`, `StreamCompletes`, `CallsSettle`, `UpdateSettles`,
`StagedGetsReleased`), which is out of the prover's reach; no invariant or action property of a passing run is left to
TLC alone. Of `CallsReturn`, `CallsSettle` and `StreamCompletes` the part that needs no fairness is proved. The
properties marked "no run" were checked by TLC on the instances of section 3 before they were proved; a theorem covers
these instances. In `AnswerOfOneVersion` and `DeployedDownloads` the conditions under which they hold are hypotheses
of the theorems.

## 6. Findings and observations

Findings (a run violates what the repository says):

1. `source_switch_answer`: a GET after `update_version` takes headers, offsets and lengths from the cached
   descriptor of the old version and reads the file of the new one (`core/protocol/bundle.rs:170`, `:315`).
2. `source_restart`: `BundleManifest::save` has no caller, so installs and switches are forgotten by a restart.
3. `updater_uploaded`: `makeIntegrity` writes hex SHA-2, the core reads Base64 SHA-3: with `remote.integrity` set no
   updater with the default policy accepts what was uploaded.
4. `aws_default_keys`: uploader and provider disagree on the default key of a bundle (so do those of Cloudflare,
   `packages/remote/cloudflare/src/uploader.ts:15-28`).
5. `cloudflare_versions`: the Cloudflare deployer stores the bare text of a version, the provider reads it as JSON:
   1.2.0 can not be downloaded at all, and after a deploy of 1.10 version 1.1 is served (`ChannelServesItsOwn` says
   what is).

Met while modelling, and stated in the models or their comments rather than by a run of their own:

*Core.*

* `remove_entry` between check and set of `update_current_version` leaves a current version that is not listed
  (`core/source/manifest.rs:165`; `ManifestWellFormed` excepts it, the source never removes).
* The updater checks the digest of the bytes it received and writes the bundle it has read from them
  (`core/updater/updater.rs:181-188`), whose index is in the order of a `HashMap` (`core/index.rs:247`): an installed file
  need not have the digest its metadata announce, so that checking it again, or serving it on, may fail.
* Re-downloading a listed version replaces the file and keeps the first metadata (`manifest.rs:185`).
* A response of the local protocol that is overtaken by a newer one, or the response to a HEAD, stays in the map
  and is given for a later 304 (`core/protocol/local.rs:237`). The path is percent-decoded before it is put into the
  server's URL (`:40`), so that `/a%3Fb` asks for `/a` with a query.
* `getUpdate` and `downloadUpdate` alone, as documented in `packages/node/src/updater.rs:181`, install but never
  switch: `UpdateSettles` is for applications that call `updateVersion` as well.
* A multi-part answer carries the Content-Length of the whole asset, and no closing boundary.
* `download_inner` unwraps the Content-Length (`core/remote/remote.rs:248`): an answer without one panics.
  `http.rs:79` leaves out `connect_timeout`, `read_timeout` and `hickory_dns`.
* Readers verify checksums only when told to; nothing in source, protocol, bindings or CLI tells them to. The
  checksum seeds of a builder do not reach the writer. The length of the index is cast to u32
  (`core/builder.rs:166`); `tools` has such indexes, and they are answered with errors.
* The RSA verifiers are fixed to SHA-256; the built-in verifiers take the bytes of the signature's text although it
  is Base64, so that only a verifier of the application's own goes together with `signSignature`. The KMS signer
  (`signature.ts:13-33`) passes the integrity text as a digest.

*Node and Electron.*

* `invoke_sync` (`packages/node/src/js.rs:46-50`) queues the call, then locks and waits without looking whether the
  result is there: a callback that ran in between leaves the thread waiting for ever; a spurious wake-up is an
  `UnknownReturnValue` error.
* A window that loads before its scheme's handler is registered is refused (the example's main process does);
  one failing protocol rejects `whenProtocolRegistered` while others are being registered;
  `registerSchemesAsPrivileged` is called once per protocol; the legacy branch (`protocol.ts:74-90`) leaves its
  callback uncalled when making the `Request` or the app's `onError` throws, and the window waits on.

*CLI.*

* The commands disagree on default file names: `create` writes `<outDir>/<name>.wvb`, `extract` and `serve` read
  `<root>/<name>.wvb`, `remote upload` looks for a name without extension. The option `-V`/positional version of
  `deploy` and `download` is required, so that `wvb remote deploy myapp` takes `myapp` as the version.
* `root` of the config is overridden by an inline root that is undefined (`config.ts:184`); the default `4312` of `serve`'s
  port makes `serve.port` of the config unreachable; `serve` answers `/about` with 404 although the core resolves
  it to its `index.html` (`serve.ts:99`).
* `builtin` empties its directory before it asks the remote, file by file; `remote upload` does not look into the file
  it uploads, so that a torn one can be uploaded. `serve` opens one whose header and index are whole (`api/serve.ts:45`) and
  answers some of its paths with errors.

*Remotes.*

* Of two overlapping deploys of one bundle on AWS one is lost, also when they are to different channels
  (`packages/remote/aws/src/deployer.ts:51`). A deploy to the default channel leaves answers to `?channel=` in
  the cache of channels that follow it (`:131`); a failed invalidation leaves the old answers (`:60`). An invalidation
  is configured or not (`:52`), and is requested but not waited for (`:124`): an answer whose deployment
  was read before the write (`packages/remote/aws-provider/src/remote.ts:52`) can be kept after it. `force` is
  accepted and ignored by upload. CloudFront has a default TTL of 0, so that answers are kept only with the
  uploader's `cacheControl`.
* On Cloudflare metadata lose the prefix `webview-bundle-` on the way, so that integrity and signature never reach a
  client; list and get disagree on channels without a version of their own; a bundle may be listed twice, and a page
  whose keys have all expired ends the list.
* Names of the Pulumi components' children have no prefix, so that two instances collide; the distribution does not
  wait for the bucket policy (`packages/remote/aws-provider-pulumi/src/provider.ts:122-153`, `:294-349`): during
  `pulumi up`, or after one that stopped, it may run without the right to read the bundles.

*Releases.*

* What was published before a failure stays: a retry ends with "already published" for ever, and a push that is
  refused because main has moved (`xtask/commands/release.ts:338`) or a lost runner strands those versions.
  `gitEnsureMainBranch` is asked after publishing (`:241-247`). Root `Cargo.toml` and `CHANGELOG` are committed with the
  versions of failed targets (`:162-204`, `:266-270`).
* A staged commit that is not conventional leaves `staged.json` with the release and is in no changelog
  (`xtask/changes.ts:61-74`). `napi artifacts` ends with `NapiCli.artifacts`
  (`xtask/commands/napi-artifacts.ts:37-38`), which by its use copies every binary into the package's own directory
  too, whose `files` have `*.node` (`packages/node/package.json:27`).
* Commits merged between prepare-release and release are hidden by the tag (`prepare-release.ts:33-35`); a prerelease
  `M.m.p-next.N` sorts below the current `M.m.p` (`version.ts:78`); `extractChanges` returns the whole changelog
  (`changelog.ts:83`), and a title is found by its prefix, so that 1.1 finds 1.10 (`:35`). The workflow builds binaries at
  the tag's commit while the release job checks out main; artifacts without files end with exit code 0.

## 7. What is not modelled

* `core/protocol/uri.rs`, MIME types, error texts, test support: no state and no decision a property is about.
* lz4, xxhash, bincode, HTTP, TLS, the digests and the five signature algorithms: libraries, represented by what they
  keep or whether they succeed. Two different texts have different checksums and digests.
* The Tauri plugin: the same commands and protocol as Electron's, with no callback that blocks a thread.
* AWS KMS: one call.
* Of the node bindings everything that converts values; of Electron the default directories; of the CLI the options
  `--outfile` and `--no-write`, prompts, progress bars and logs, the port of `serve`.
* The pages of the S3 list of the AWS provider (its documents are read one by one); the properties of cloud resources other
  than what they wait for.
* Of the release tooling which package a native binary is copied into, `--dry-run`, `attw` and the layout of
  changelogs; prereleases are started by the workflow only.
* The HTTP client's options; its requests are steps that succeed or fail.
* Benches, examples, website.

## 8. Plan

Done: all modules of section 2, in the order manifest, source, protocol, updater, format, local protocol, AWS; then
Cloudflare, provisioning, CLI, node and Electron, releases; and the proofs of section 5.

Next, the model: `UpdaterWithSource`, the updater over the steps of `BundleSource` instead of whole calls, with `Updater`
as its abstraction; an abstract `Remote` (upload, deploy, get, list) that both remotes implement where they do; the
paging of S3 lists.

Next, the proofs: the refinement of `Updater` by `UpdaterWithSource` once it is there; `AnswerOfOneVersion` for a
single bundle that is not switched while others are; the safety half of `UpdateSettles`.
