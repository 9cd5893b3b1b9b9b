\* Bundles of two paths to write and read; a site of two files to pack; three bundles to install;
\* two packages to release, one with a package for a platform.  There may be nothing left to release.
CONSTANTS
    Studied = {"format", "builtin", "bundles", "release"}
    Paths = {html, js}
    c1 = c1
    c2 = c2
    Contents = {c1, c2}
    PackedLen <- Lengths
    IndexLens = {1, 3}
    U32 = 3
    MaxDamage = 1
    None = None
    Err = Err
    Garbage = Garbage
    Unset = Unset
    DefaultConfigFiles <- ConfigFileNames
    Broken = Broken
    WorkingDirs <- Directories
    RemoteNames = {"a", "b", "c"}
    RemoteVersions = {1, 2}
    Concurrency = 2
    Filters <- FilterChoices
    MaxRemoteDeploys = 1
    Torn = Torn
    SitePaths = {"index", "map"}
    IndexPath = "index"
    Projects <- ProjectChoices
    CreateOptions <- OptionChoices
    BundleFiles <- FileNames
    BundleVersions = {1}
    Edits <- EditChoices
    MaxCreates = 2
    Packages <- PackageNames
    FilesOf <- PackageFiles
    Crates = {"core.toml", "node.toml"}
    Publishable = {"core.toml", "node.json", "linux.json"}
    Changes <- CommitChoices
    Overrides = {}
    FirstVersions <- Initially
    Built <- BuiltFiles
    ArtifactFiles <- ArtifactSettings
    ScriptDirs <- NodeScript
    KnownBinaries = {"linux-x64-gnu.node"}
    MaxFailures = 1
    MaxPrereleases = 1
    MaxPrepares = 2
CHECK_DEADLOCK FALSE
SPECIFICATION ToolsSpec
INVARIANTS AnswersOwnEntry WholeBundleReads VerifiedIsWritten BuiltinManifestWhole CommandLineDecides ExtractedIsBundle MainNamesPublished
PROPERTIES EachChangeReleasedOnce StagedGetsReleased
