------------------------------- MODULE MCTools -------------------------------
(***************************************************************************)
(* What is used to build an application, for TLC: the bundle format, the   *)
(* commands of the CLI and the release tooling.  They share no state: one  *)
(* is studied, and the state of the others stays as it is.                 *)
(***************************************************************************)
EXTENDS BundleFormat, BuiltinInstall, CliBundles, Release, TLC

CONSTANTS c1, c2, Studied

VARIABLE studied

\* The lengths of the contents of the bundle format.
Lengths == (c1 :> 1) @@ (c2 :> 2)

\* No filter; patterns of both kinds, and an array without any.
FilterChoices == {[include |-> {}, exclude |-> {}],
                  [include |-> {<<{"a", "b"}>>, << >>}, exclude |-> {<<{"b"}>>}]}

Directories == <<"app", "workspace">>

ConfigFileNames == <<"wvb.config.ts", "wvb.config.json">>

FileNames == {[dir |-> d, stem |-> "app", wvb |-> TRUE] : d \in {".", ".wvb"}}

Named == [NoSettings EXCEPT !.srcDir = "dist", !.remote = "app"]

ByFunction == [Named EXCEPT
    !.ignore = [kind |-> "function", paths |-> {}],
    !.headers = [kind |-> "function", gives |-> ("index" :> [cache |-> {"config"}])]]

\* Here outDir makes the default file names agree.
ByPatterns == [Named EXCEPT
    !.outDir = ".",
    !.ignore = [kind |-> "array", paths |-> {"map"}],
    !.headers = [kind |-> "patterns",
                 rules |-> <<[paths |-> {"index", "map"}, headers |-> [cache |-> {"config"}]]>>]]

\* index.html is built again; map.js comes and goes.
EditChoices == {<<"index", 1>>, <<"map", Unset>>, <<"map", 0>>}

\* Without a config, without a name, and with a config that does not compile.
ProjectChoices ==
    {[configs |-> "wvb.config.ts" :> ByFunction, packages |-> "workspace" :> "app"],
     [configs |-> ("wvb.config.ts" :> ByPatterns) @@ ("wvb.config.json" :> ByFunction),
      packages |-> ("app" :> "app") @@ ("workspace" :> Unset)],
     [configs |-> << >>, packages |-> "app" :> "app"],
     [configs |-> "wvb.config.ts" :> ByFunction, packages |-> ("app" :> Unset) @@ ("workspace" :> "app")],
     [configs |-> "wvb.config.ts" :> Broken, packages |-> "app" :> "app"]}

Header(paths, value) == [paths |-> paths, key |-> "cache", value |-> value]

OptionChoices ==
    {[dir |-> Unset, ignore |-> Unset, headers |-> << >>, overwrite |-> FALSE],
     [dir |-> "dist", ignore |-> [kind |-> "array", paths |-> {"map"}], overwrite |-> Unset,
      headers |-> <<Header({"index"}, "a"), Header({"index", "map"}, "b"), Header({"index"}, "c")>>]}

PackageNames == <<"core", "node">>

\* The binding of node is released as packages of its own; its crate is not published.
PackageFiles == [core |-> <<"core.toml">>, node |-> <<"node.json", "linux.json", "node.toml">>]

\* Every build leaves its binary where the sources of the crate are, and more.
BuiltFiles == {[dir |-> "packages/node", name |-> "linux-x64-gnu.node"],
               [dir |-> "packages/node/src", name |-> "other.node"]}

ArtifactSettings ==
    <<[source |-> {b \in BuiltFiles : b.dir = "packages/node"}, dist |-> "packages/node/artifacts"]>>

NodeScript == "node" :> "packages/node/artifacts"

Initially == [f \in Files |-> <<0, 1, 0, 0>>]

CommitChoices == [feature  |-> [type |-> "feat", breaking |-> FALSE],
                  refactor |-> [type |-> "refactor", breaking |-> FALSE],
                  wip      |-> [type |-> "other", breaking |-> FALSE]]

-----------------------------------------------------------------------------

\* Bound: the commit that is not conventional comes first, and is staged for one
\* package only, with the feature.
ReleaseBound ==
    /\ main'.commits = {} \/ "wip" \in main'.commits
    /\ "wip" \notin main'.staged["node"].commits
    /\ "wip" \in main'.staged["core"].commits => main'.staged["core"].commits = {"wip", "feature"}

toolsVars == <<vars, builtinVars, bundlesVars, releaseVars, studied>>

ToolsInit ==
    /\ studied \in Studied
    /\ Init /\ BuiltinInit /\ BundlesInit /\ ReleaseInit
    /\ deployed = [n \in RemoteNames |-> IF studied = "builtin" THEN 1 ELSE Unset]
    /\ studied # "bundles" => project.configs = << >>

ToolsNext ==
    /\ UNCHANGED studied
    /\ \/ studied = "format" /\ Next /\ UNCHANGED <<builtinVars, bundlesVars, releaseVars>>
       \/ studied = "builtin" /\ BuiltinNext /\ UNCHANGED <<vars, bundlesVars, releaseVars>>
       \/ studied = "bundles" /\ BundlesNext /\ UNCHANGED <<vars, builtinVars, releaseVars>>
       \/ studied = "release" /\ ReleaseNext /\ ReleaseBound /\ UNCHANGED <<vars, builtinVars, bundlesVars>>

ToolsSpec == ToolsInit /\ [][ToolsNext]_toolsVars /\ ReleaseFairness
=============================================================================
