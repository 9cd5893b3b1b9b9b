------------------------------ MODULE CliConfig ------------------------------
(***************************************************************************)
(* What the commands of the CLI (packages/cli/src) share: where a setting  *)
(* comes from, and which bundles and files a matcher selects.              *)
(*                                                                         *)
(* A file name is its directory, its stem and whether it ends in .wvb.  A  *)
(* pattern is the set of what it matches.  A project is its config files   *)
(* and its package.json files: directory -> name.                          *)
(***************************************************************************)
EXTENDS Sequences

CONSTANTS Unset,               \* undefined
          Torn,                \* a file that was not written to its end
          Broken,              \* a config file that cannot be bundled
          DefaultConfigFiles,  \* DEFAULT_CONFIG_FILES, in their order
          WorkingDirs          \* the working directory and those above it, in this order

\* a ?? b ?? c
FirstSet(values) ==
    LET given == SelectSeq(values, LAMBDA v : v # Unset)
    IN  IF given = << >> THEN Unset ELSE Head(given)

(* loadConfigFile: the file of the option, or the first default one there is *)
ConfigFileOf(option, present) ==
    FirstSet(<<option>> \o SelectSeq(DefaultConfigFiles, LAMBDA f : f \in present))

NoSettings ==
    [srcDir |-> Unset, remote |-> Unset, outDir |-> Unset, outFile |-> Unset, package |-> Unset,
     ignore |-> Unset, headers |-> Unset, overwrite |-> Unset,
     extractFile |-> Unset, clean |-> Unset, serveFile |-> Unset]

\* bundleConfigFile: the file with what it imports, which fails when it is not
\* there or does not compile.
BundleConfigFile(f, project) == f \in DOMAIN project.configs /\ project.configs[f] # Broken

\* There is a config that loads, or none is asked for.
ConfigLoads(option, project) ==
    LET f == ConfigFileOf(option, DOMAIN project.configs)
    IN  f = Unset \/ BundleConfigFile(f, project)

\* findNearestPackageJson: the first one upwards, also when it has no name.
FindNearestPackageJson(packages) ==
    LET found == SelectSeq(WorkingDirs, LAMBDA d : d \in DOMAIN packages)
    IN  IF found = << >> THEN Unset ELSE packages[Head(found)]

\* resolveConfig: the settings of the file, if there is one, and the name of the
\* package.  What the command line adds to them is the working directory, which
\* always goes before "root".
ResolveConfig(option, project) ==
    LET f == ConfigFileOf(option, DOMAIN project.configs)
        settings == IF f = Unset THEN NoSettings ELSE project.configs[f]
    IN  [settings EXCEPT !.package = FindNearestPackageJson(project.packages)]

(* defaultOutFile and defaultOutDir *)
DefaultOutFile(config) == FirstSet(<<config.outFile, config.package>>)
DefaultOutDir(config) == FirstSet(<<config.outDir, ".wvb">>)

WithWVBExtension(name) == [name EXCEPT !.wvb = TRUE]

\* isInMatches: each match is an array of patterns (a function or one pattern
\* is an array of one); arrays without patterns do not count.
IsInMatches(bundle, matches, onEmpty) ==
    LET filtered == {m \in matches : m # << >>}
    IN  IF filtered = {} THEN onEmpty
        ELSE \E m \in filtered : \E i \in DOMAIN m : bundle \in m[i]
=============================================================================
