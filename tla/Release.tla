------------------------------ MODULE Release ------------------------------
(***************************************************************************)
(* The release tooling of the repository, xtask: a maintainer stages       *)
(* commits for packages (prepare-release); a job of the release workflow   *)
(* bumps the packages that have any, publishes their files to npm and      *)
(* crates.io, commits what was published to main, tags and pushes it.      *)
(* Main may move while a job runs.  Jobs of one kind do not overlap, and a *)
(* prerelease touches no version that a release does: one job at a time.   *)
(*                                                                         *)
(* A changelog is the set of its sections.  npm, crates.io and the server  *)
(* of the repository are external; a version is never published twice.     *)
(* A job starts when all builds of native binaries have succeeded.         *)
(***************************************************************************)
EXTENDS Naturals, FiniteSets, Sequences, SequencesExt

CONSTANTS
    Packages,      \* config.packages, in their order
    FilesOf,       \* package -> its package.json and Cargo.toml files; the first names the version
    Crates,        \* the files that are a Cargo.toml
    Publishable,   \* the files that may be published
    Changes,       \* commit -> [type, breaking]; type "other" is not a conventional one
    Overrides,     \* the bump rules a maintainer prefers to the one that is offered
    FirstVersions, \* file -> version before the first release
    Built,         \* what the builds of the workflow leave in their checkouts: [dir, name]
    ArtifactFiles, \* config.artifacts.files, in order: the files a source matches, and dist
    ScriptDirs,    \* package with a script for its binaries -> the directory it takes them from
    KnownBinaries, \* resolveNodeFilepath: the binaries of a known platform
    MaxFailures, MaxPrereleases, MaxPrepares   \* bounds

AllPackages == ToSet(Packages)

Files == UNION {ToSet(FilesOf[p]) : p \in AllPackages}

Commits == DOMAIN Changes

\* A version is major, minor, patch and the number of a prerelease (0: none).
Version == Nat \X Nat \X Nat \X Nat

ASSUME ReleaseAssumption ==
    /\ FirstVersions \in [Files -> Version] /\ \A f \in Files : FirstVersions[f][4] = 0
    /\ Packages \in Seq(AllPackages)
    /\ \A p \in AllPackages :
          /\ FilesOf[p] \in Seq(Files)
          /\ ToSet(FilesOf[p]) \cap Publishable # {}
          /\ \A q \in AllPackages \ {p} : ToSet(FilesOf[p]) \cap ToSet(FilesOf[q]) = {}
    /\ Crates \subseteq Files /\ Publishable \subseteq Files
    /\ Overrides \subseteq {"major", "minor", "patch"}
    /\ MaxFailures \in Nat /\ MaxPrereleases \in Nat /\ MaxPrepares \in Nat

VARIABLES
    main,        \* branch main of the repository
    tags,        \* its tags: package, version, and the commits they are on top of
    published,   \* <<file, version>> in the registries
    announced,   \* GitHub releases
    job,         \* the job of the workflow
    prereleases, \* history: number of prerelease jobs
    prepares,    \* history: number of merged prepare-release runs
    faults       \* history: number of failures

releaseVars == <<main, tags, published, announced, job, prereleases, prepares, faults>>

-----------------------------------------------------------------------------
(* Versions and changes                                                    *)

\* What semver makes of a version that is not a prerelease, as those of main are.
Bump(v, rule) ==
    CASE rule = "major" -> <<v[1] + 1, 0, 0, 0>>
      [] rule = "minor" -> <<v[1], v[2] + 1, 0, 0>>
      [] rule = "patch" -> <<v[1], v[2], v[3] + 1, 0>>

PrereleaseOf(v, number) == <<v[1], v[2], v[3], number>>

\* What the commits say, without those that are not conventional.
Conventional(commits) == {c \in commits : Changes[c].type # "other"}

\* getBumpRule, of a set of changes that is not empty.
BumpRule(changes) ==
    CASE \E c \in changes : Changes[c].breaking -> "major"
      [] ~ (\E c \in changes : Changes[c].breaking) /\ \E c \in changes : Changes[c].type = "feat" -> "minor"
      [] OTHER -> "patch"

\* A package that staged.json does not name; a file that is not there names none.
NotStaged == [commits |-> {}, rule |-> "none"]

\* A package has the version of its first file.
VersionOf(versions, p) == versions[Head(FilesOf[p])]

\* Targets, and the files of a target, are taken in the order they are listed in.
FirstOf(items, order) ==
    order[CHOOSE i \in DOMAIN order : order[i] \in items /\ \A j \in 1..(i - 1) : order[j] \notin items]

\* The files of a package that a job publishes.
FilesToPublish(p) == ToSet(FilesOf[p]) \cap Publishable

FirstFiles(queue) == IF queue = {} THEN {} ELSE FilesToPublish(FirstOf(queue, Packages))

-----------------------------------------------------------------------------
(* The native binaries                                                     *)

\* artifacts merge, in every build: what matches a source keeps its path.
Merged == {b \in Built : \E i \in DOMAIN ArtifactFiles : b \in ArtifactFiles[i].source}

\* artifacts spread, in the job: to the directory of the first source that matches.
Spread(files) ==
    LET first(b) == Min({i \in DOMAIN ArtifactFiles : b \in ArtifactFiles[i].source})
    IN  {[dir |-> ArtifactFiles[first(b)].dist, name |-> b.name] : b \in files}

BinariesOf(p) ==
    {b.name : b \in {c \in Spread(Merged) : p \in DOMAIN ScriptDirs /\ c.dir = ScriptDirs[p]}}

\* napi artifacts, before a package is published: a binary for an unknown
\* platform fails it, and that there are none at all does not.
NapiArtifactsFails(p) == ~ (BinariesOf(p) \subseteq KnownBinaries)

-----------------------------------------------------------------------------
(* The branch                                                              *)

NoJob == [step |-> "none"]

ReleaseInit ==
    /\ main = [commits |-> {}, versions |-> FirstVersions, root |-> [f \in Crates |-> FirstVersions[f]],
               staged |-> [p \in AllPackages |-> NotStaged], log |-> {}, rootLog |-> {}]
    /\ tags = {} /\ published = {} /\ announced = {}
    /\ job = NoJob
    /\ prereleases = 0 /\ prepares = 0 /\ faults = 0

\* A developer merges a commit.
Merge(c) ==
    /\ c \notin main.commits
    /\ main' = [main EXCEPT !.commits = @ \cup {c}]
    /\ UNCHANGED <<tags, published, announced, job, prereleases, prepares, faults>>

\* VersionedGitTag.findTag: the tag of the package at its version, if there is one.
FindTag(p) == {t \in tags : t.package = p /\ t.version = VersionOf(main.versions, p)}

\* The commits since that tag, all when there is none.
Unreleased(p) == main.commits \ UNION {t.commits : t \in FindTag(p)}

\* prepare-release: for each package with commits a maintainer selects some of
\* them and a rule; the result is merged as staged.json.
PrepareRelease(selected) ==
    LET staged(p, rule) ==
            IF Unreleased(p) = {} THEN main.staged[p]
            ELSE IF Conventional(selected[p]) = {} THEN NotStaged
            ELSE [commits |-> selected[p], rule |-> rule]
        offered(p) == {BumpRule(Conventional(selected[p]))} \cup Overrides
    IN  /\ prepares < MaxPrepares
        /\ prepares' = prepares + 1
        /\ \A p \in AllPackages : selected[p] \subseteq Unreleased(p)
        /\ \E rule \in [AllPackages -> {"major", "minor", "patch"}] :
              /\ \A p \in AllPackages : rule[p] \in offered(p)
              /\ main' = [main EXCEPT !.staged = [p \in AllPackages |-> staged(p, rule[p])]]
        /\ main' # main
        /\ UNCHANGED <<tags, published, announced, job, prereleases, faults>>

-----------------------------------------------------------------------------
(* A job, up to the registries                                             *)

\* Mutated form: only features and fixes are worth a release.
IsTargetFeatOrFix(p) == \E c \in main.staged[p].commits : Changes[c].type \in {"feat", "fix"}

\* prepareTargets: the packages with staged changes.
IsTarget(p) == Conventional(main.staged[p].commits) # {}

Targets == {p \in AllPackages : IsTarget(p)}

\* VersionedFile: the next version of a file, from its own version.
NextVersion(f, p, prerelease) ==
    IF prerelease THEN PrereleaseOf(main.versions[f], prereleases + 1)
                  ELSE Bump(main.versions[f], main.staged[p].rule)

\* Package.bumpVersion of the targets: every file of theirs.
NextVersions(targets, prerelease) ==
    [f \in Files |->
        IF \E p \in targets : f \in ToSet(FilesOf[p])
        THEN NextVersion(f, CHOOSE q \in targets : f \in ToSet(FilesOf[q]), prerelease)
        ELSE main.versions[f]]

\* appendChanges of the targets: what is not conventional is not listed.
Sections(targets, versions) ==
    {[package |-> p, version |-> VersionOf(versions, p),
      commits |-> Conventional(main.staged[p].commits)] : p \in targets}

\* selectTargets: a maintainer at a terminal picks some; the workflow, which
\* alone makes prereleases, takes all.
SelectTargets(selected) == Targets \cap selected

\* Checkout, prepareTargets, and the writing of files, changelogs and the root
\* Cargo.toml, all in the checkout of the job.
StartJob(prerelease, selected) ==
    /\ job = NoJob
    /\ SelectTargets(selected) # {}
    /\ prerelease => prereleases < MaxPrereleases
    /\ prereleases' = IF prerelease THEN prereleases + 1 ELSE prereleases
    /\ LET targets == SelectTargets(selected)
           next == NextVersions(targets, prerelease)
       IN  job' = [step |-> "publish", base |-> main, prerelease |-> prerelease, next |-> next,
                   targets |-> targets, queue |-> targets, files |-> FirstFiles(targets),
                   ok |-> TRUE, done |-> {}, sections |-> Sections(targets, next)]
    /\ UNCHANGED <<main, tags, published, announced, prepares, faults>>

Package == FirstOf(job.queue, Packages)

\* Its script before publishing fails: the target is skipped, the others are not.
SkipPackage ==
    /\ job.step = "publish" /\ job.queue # {}
    /\ job.files = FilesToPublish(Package) /\ job.ok
    /\ IF NapiArtifactsFails(Package) THEN UNCHANGED faults
       ELSE faults < MaxFailures /\ faults' = faults + 1
    /\ job' = [job EXCEPT !.queue = @ \ {Package}, !.files = FirstFiles(job.queue \ {Package})]
    /\ UNCHANGED <<main, tags, published, announced, prereleases, prepares>>

\* Mutated form: the target has succeeded when its last command has.
AllSucceedLast(before, last) == last

\* allSucceed of the target's actions.
AllSucceed(before, last) == before /\ last

\* What the publish command of a file puts into its registry.
PublishedItem == LET f == FirstOf(job.files, FilesOf[Package]) IN <<f, job.next[f]>>

\* runCommandAction, with a publish command: it fails when the version is there,
\* and may fail when it is not.
RunCommandAction(item, succeeds) ==
    IF succeeds
    THEN /\ item \notin published
         /\ published' = published \cup {item}
         /\ UNCHANGED faults
    ELSE /\ item \in published \/ faults < MaxFailures
         /\ faults' = IF item \in published THEN faults ELSE faults + 1
         /\ UNCHANGED published

\* The next command of the target, after its scripts.  When it fails the files
\* that follow are published all the same (failFast is off).  After the last
\* one the target has succeeded, or not.
PublishFile ==
    /\ job.step = "publish" /\ job.queue # {}
    /\ ~ NapiArtifactsFails(Package)
    /\ \E succeeds \in BOOLEAN :
          LET ok == AllSucceed(job.ok, succeeds)
          IN  /\ RunCommandAction(PublishedItem, succeeds)
              /\ job' = IF job.files # {PublishedItem[1]}
                        THEN [job EXCEPT !.files = @ \ {PublishedItem[1]}, !.ok = ok]
                        ELSE [job EXCEPT !.queue = @ \ {Package}, !.files = FirstFiles(job.queue \ {Package}),
                                         !.ok = TRUE,
                                         !.done = IF ok THEN @ \cup {Package} ELSE @]
    /\ UNCHANGED <<main, tags, announced, prereleases, prepares>>

-----------------------------------------------------------------------------
(* A job, after the registries                                             *)

\* Mutated form: all targets leave the staged file, published or not.
UpdateStagedAll(staged) == [p \in AllPackages |-> IF p \in job.targets THEN NotStaged ELSE staged[p]]

\* updateStaged: what was published is no longer staged.
UpdateStaged(staged) == [p \in AllPackages |-> IF p \in job.done THEN NotStaged ELSE staged[p]]

\* editCargoTomlVersion, of a package or a dependency, and the same in a
\* package.json: nothing but the version changes.
EditVersions(versions, packages) ==
    [f \in DOMAIN versions |->
        IF \E p \in packages : f \in ToSet(FilesOf[p]) THEN job.next[f] ELSE versions[f]]

\* Package.write, of what is committed: the files of the published targets.
CommittedVersions(versions) == EditVersions(versions, job.done)

\* writeRootCargoToml: the versions of the crates of all targets, published or not.
RootCargoToml(root) == EditVersions(root, job.targets)

\* writeRootChangelog: their sections, too.
RootChangelog(log) == log \cup job.sections

\* The commit, of what main was and these files.
ReleaseCommit ==
    [job.base EXCEPT !.versions = CommittedVersions(@),
                     !.staged = UpdateStaged(@),
                     !.root = RootCargoToml(@),
                     !.log = @ \cup {s \in job.sections : s.package \in job.done},
                     !.rootLog = RootChangelog(@)]

\* One tag of the commit for each published target.
NewTags ==
    {[package |-> p, version |-> VersionOf(job.next, p), commits |-> job.base.commits] : p \in job.done}

\* All targets are through.  Nothing was published, or prereleases: the job is
\* over and its checkout is gone.
EndJob ==
    /\ job.step = "publish" /\ job.queue = {}
    /\ job.done = {} \/ job.prerelease
    /\ job' = NoJob
    /\ UNCHANGED <<main, tags, published, announced, prereleases, prepares, faults>>

\* Commit, tags and push, which is refused when main has moved: the job ends
\* with what it has published.
Push ==
    /\ job.step = "publish" /\ job.queue = {}
    /\ job.done # {} /\ ~ job.prerelease
    /\ IF main = job.base
       THEN /\ main' = ReleaseCommit
            /\ tags' = tags \cup NewTags
            /\ job' = [job EXCEPT !.step = "announce"]
       ELSE /\ job' = NoJob
            /\ UNCHANGED <<main, tags>>
    /\ UNCHANGED <<published, announced, prereleases, prepares, faults>>

\* createGitHubReleases, for one tag after the other.
Announce ==
    /\ job.step = "announce"
    /\ \E t \in NewTags \ announced :
          /\ announced' = announced \cup {t}
          /\ job' = IF NewTags \subseteq announced' THEN NoJob ELSE job
    /\ UNCHANGED <<main, tags, published, prereleases, prepares, faults>>

\* The runner is lost, a write is rejected, GitHub does not answer.
Abort ==
    /\ job # NoJob /\ faults < MaxFailures
    /\ faults' = faults + 1
    /\ job' = NoJob
    /\ UNCHANGED <<main, tags, published, announced, prereleases, prepares>>

JobStep == PublishFile \/ EndJob \/ Push \/ Announce

ReleaseNext ==
    \/ \E c \in Commits : Merge(c)
    \/ \E selected \in [AllPackages -> SUBSET Commits] : PrepareRelease(selected)
    \/ StartJob(TRUE, AllPackages) \/ \E selected \in SUBSET AllPackages : StartJob(FALSE, selected)
    \/ JobStep \/ SkipPackage \/ Abort

\* A maintainer starts the workflow again while something is staged.
ReleaseFairness == WF_releaseVars(JobStep) /\ SF_releaseVars(StartJob(FALSE, AllPackages))

ReleaseSpec == ReleaseInit /\ [][ReleaseNext]_releaseVars /\ ReleaseFairness

-----------------------------------------------------------------------------
(* Properties                                                              *)

PublishedAt(p, versions) == \A f \in FilesToPublish(p) : <<f, versions[f]>> \in published

\* What main and its tags name as released is in the registries, all files of
\* it and never a prerelease: whatever fails, and wherever a job ends
\* (release.ts:42-92).  Root Cargo.toml is written for failed targets, too: it
\* may name what is not there, but only after a failure.
MainNamesPublished ==
    /\ \A p \in AllPackages :
          (\E f \in ToSet(FilesOf[p]) : main.versions[f] # FirstVersions[f]) =>
              /\ PublishedAt(p, main.versions)
              /\ \E t \in tags : t.package = p /\ t.version = VersionOf(main.versions, p)
    /\ \A t \in tags : t.version[4] = 0
    /\ faults = 0 =>
          \A p \in AllPackages : \A f \in Crates \cap FilesToPublish(p) :
              main.root[f] # FirstVersions[f] /\ ~ NapiArtifactsFails(p) => <<f, main.root[f]>> \in published

\* A staged change leaves the staged file of main only with a release that has
\* it in its changelog, and is in the changelog of one version only
\* (release.ts:386-394, prepare-release.ts:30-78).  A commit that is not
\* conventional is staged with the others and leaves with them, but no changelog
\* lists it (changes.ts:61-74).
EachChangeReleasedOnce ==
    [][/\ tags' # tags =>
            \A p \in AllPackages :
                \A c \in Conventional(main.staged[p].commits) \ main'.staged[p].commits :
                    \E s \in main'.log : s.package = p /\ c \in s.commits
       /\ main'.log \subseteq main'.rootLog
       /\ \A s1, s2 \in main'.log :
            s1.package = s2.package /\ s1 # s2 => s1.commits \cap s2.commits = {}]_releaseVars

Newer(v, w) == \E i \in 1..3 : v[i] > w[i] /\ \A j \in 1..(i - 1) : v[j] = w[j]

\* A file of the package is in a registry with a version main does not know.
Stranded(p) ==
    \E f \in ToSet(FilesOf[p]) : \E item \in published :
        item[1] = f /\ item[2][4] = 0 /\ Newer(item[2], main.versions[f])

\* Main only moves to later versions, never to a prerelease, and a package is
\* tagged at a version later than all it was tagged at before: no name of a tag
\* is used twice, also by a job that another one, a merge or a failure of the
\* one before has overtaken (version.ts:66-87, release.ts:103-119, 294-318).
ReleasesRise ==
    [][/\ \A f \in Files :
            main'.versions[f] # main.versions[f] =>
                Newer(main'.versions[f], main.versions[f]) /\ main'.versions[f][4] = 0
       /\ \A t \in tags' \ tags : \A u \in tags' \ {t} :
            t.package = u.package => u \in tags /\ Newer(t.version, u.version)]_releaseVars

\* What is staged is released in the end, although scripts fail, other packages
\* fail and runners are lost, unless a job published a part of it and ended:
\* that part can never be published again.
StagedGetsReleased ==
    \A p \in AllPackages :
        main.staged[p].commits # {} ~>
            (main.staged[p].commits = {} \/ (job = NoJob /\ Stranded(p)))
=============================================================================
