----------------------------- MODULE CliBundles -----------------------------
(***************************************************************************)
(* The commands of the CLI that work on bundle files: create packs a       *)
(* source directory, extract unpacks a file, serve answers requests from   *)
(* one, remote upload, deploy and download take it to a remote and back.   *)
(* Each command is a process that may be killed; the files of the source   *)
(* directory change while it runs, as they do under a build that watches.  *)
(*                                                                         *)
(* A bundle is a function from path to content and headers, the headers a  *)
(* function from name to the set of values given for it.  One directory is *)
(* extracted to, and one bundle name is used on the remote.                *)
(***************************************************************************)
EXTENDS CliConfig, Naturals, SequencesExt

CONSTANTS
    SitePaths,       \* files the source directory may hold
    IndexPath,       \* index.html among them
    Projects,        \* projects to choose from
    CreateOptions,   \* options of create to choose from
    BundleFiles,     \* file names used for bundles
    BundleVersions,  \* versions on the remote
    Edits,           \* changes of the source directory: <<path, content or Unset>>
    MaxCreates       \* bound on create commands

\* The contents a file of the source directory may have.
SiteContents == {0} \cup ({e[2] : e \in Edits} \ {Unset})

\* That there is no directory differs from every directory that is extracted to.
ASSUME UnsetIsNoDirectory ==
    Unset \notin UNION {[paths -> SiteContents \cup {Torn}] : paths \in SUBSET SitePaths}

\* The -H options are a list.
ASSUME CreateOptionsAssumption ==
    \A o \in CreateOptions : o.headers \in Seq(ToSet(o.headers))

VARIABLES
    project,    \* the config files and package.json files there are
    site,       \* the source directory: path -> content, or Unset
    disk,       \* bundle files: name -> bundle, Torn or Unset
    outdir,     \* the extraction directory: path -> content, or Unset
    shell,      \* the command that runs
    exit,       \* exit code of the last that ended
    stored,     \* the remote: version -> bundle
    active,     \* the remote: the deployed version, or Unset
    made,       \* history: what create packed, and its options
    extracted   \* history: the last extract that touched outdir ended with 0

bundlesVars == <<project, site, disk, outdir, shell, exit, stored, active, made, extracted>>

Idling == [command |-> "none"]

BundlesInit ==
    /\ project \in Projects
    /\ site = [p \in SitePaths |-> 0]
    /\ disk = [f \in BundleFiles |-> Unset]
    /\ outdir = Unset /\ shell = Idling /\ exit = 0
    /\ stored = << >> /\ active = Unset /\ made = {} /\ extracted = FALSE

\* A file of the source directory is written or removed.
EditSite(p, content) ==
    /\ Cardinality(made) < MaxCreates /\ site[p] # content
    /\ site' = [site EXCEPT ![p] = content]
    /\ UNCHANGED <<project, disk, outdir, shell, exit, stored, active, made, extracted>>

\* BaseCommand.execute: the exit code; an exception is 1.
ExitWith(code) == shell' = Idling /\ exit' = code

Settings == ResolveConfig(Unset, project)

(* Every command resolves the config first, and ends when that fails. *)
Refused == ~ ConfigLoads(Unset, project)

OutName == DefaultOutFile(Settings)

\* What the commands take when they are given no file.  They do not agree.
CreatedFile == [dir |-> DefaultOutDir(Settings), stem |-> OutName, wvb |-> TRUE]
ReadFile(option, setting) ==
    WithWVBExtension(FirstSet(<<option, setting, [dir |-> ".", stem |-> OutName, wvb |-> FALSE]>>))
UploadedFile(option) ==
    FirstSet(<<option, [dir |-> DefaultOutDir(Settings), stem |-> OutName, wvb |-> FALSE]>>)
DownloadedFile == [dir |-> ".", stem |-> Settings.remote, wvb |-> TRUE]

FileAt(f) == IF f \in BundleFiles THEN disk[f] ELSE Unset

-----------------------------------------------------------------------------
(* create                                                                  *)

\* isFileIgnored: the first input that decides does; a function decides at
\* once, whatever it says.
IsFileIgnored(p, inputs) ==
    LET deciding == {i \in DOMAIN inputs : inputs[i].kind = "function" \/ p \in inputs[i].paths}
    IN  \E i \in deciding : p \in inputs[i].paths /\ \A j \in deciding : i <= j

Overlay(headers, more) ==
    [k \in DOMAIN headers \cup DOMAIN more |-> IF k \in DOMAIN more THEN more[k] ELSE headers[k]]

\* Headers that are set one after the other: the last of each name stays.
LastOfEach(layers) ==
    [k \in UNION {DOMAIN layers[i] : i \in DOMAIN layers} |->
        layers[Max({i \in DOMAIN layers : k \in DOMAIN layers[i]})][k]]

HeadersOfRules(p, rules) ==
    LastOfEach([r \in {r \in DOMAIN rules : p \in rules[r].paths} |-> rules[r].headers])

\* getHeaders: a function starts anew, if it gives any; the headers of each
\* pattern that matches replace those of the same name.
GetHeaders(p, inputs) ==
    LET anew == {i \in DOMAIN inputs : inputs[i].kind = "function" /\ p \in DOMAIN inputs[i].gives}
        counting == {i \in DOMAIN inputs : (inputs[i].kind = "patterns" \/ i \in anew) /\ \A j \in anew : j <= i}
    IN  LastOfEach([i \in counting |->
                        IF i \in anew THEN inputs[i].gives[p] ELSE HeadersOfRules(p, inputs[i].rules)])

\* intoHeaderConfig: options of one pattern become one entry, in the place of
\* the first of them; values given for one name are joined.
IntoHeaderConfig(options) ==
    LET same(i) == {j \in DOMAIN options : options[j].paths = options[i].paths}
        joined(i) == [k \in {options[j].key : j \in same(i)} |->
                        {options[j].value : j \in {l \in same(i) : options[l].key = k}}]
        rule(i) == IF \E j \in same(i) : j < i THEN [paths |-> {}, headers |-> << >>]
                   ELSE [paths |-> options[i].paths, headers |-> joined(i)]
    IN  [kind |-> "patterns", rules |-> [i \in DOMAIN options |-> rule(i)]]

Given(input) == IF input = Unset THEN << >> ELSE <<input>>

ToldHeaders(options) == IF options = << >> THEN << >> ELSE <<IntoHeaderConfig(options)>>

IgnoreInputs(option) == Given(option) \o Given(Settings.ignore)

\* Mutated form: the settings of the file come last.
HeaderInputsConfigLast(options) == ToldHeaders(options) \o Given(Settings.headers)

HeaderInputs(options) == Given(Settings.headers) \o ToldHeaders(options)

Present == {p \in SitePaths : site[p] # Unset}

\* CreateCommand: the settings that create cannot do without.
MayCreate(o) == ~ Refused /\ FirstSet(<<o.dir, Settings.srcDir>>) # Unset /\ OutName # Unset

\* The config is resolved and the directory listed; without a directory, a
\* name, or a file to pack it ends.
StartCreate(o) ==
    /\ shell = Idling /\ Cardinality(made) < MaxCreates
    /\ LET files == {p \in Present : ~ IsFileIgnored(p, IgnoreInputs(o.ignore))}
       IN  IF MayCreate(o) /\ files # {}
           THEN /\ shell' = [command |-> "create", step |-> "read", options |-> o,
                             todo |-> files, packed |-> << >>]
                /\ UNCHANGED exit
           ELSE ExitWith(1)
    /\ UNCHANGED <<project, site, disk, outdir, stored, active, made, extracted>>

\* A file is read and inserted; it may be gone by now.
PackFile(p) ==
    /\ shell.command = "create" /\ shell.step = "read" /\ p \in shell.todo
    /\ IF site[p] = Unset THEN ExitWith(1)
       ELSE LET entry == [content |-> site[p],
                          headers |-> GetHeaders(p, HeaderInputs(shell.options.headers))]
            IN  /\ shell' = [shell EXCEPT !.todo = @ \ {p}, !.packed = Overlay(@, [q \in {p} |-> entry])]
                /\ UNCHANGED exit
    /\ UNCHANGED <<project, site, disk, outdir, stored, active, made, extracted>>

\* The bundle is built; the file is opened unless it is there and to be kept ...
OpenOutFile ==
    /\ shell.command = "create" /\ shell.step = "read" /\ shell.todo = {}
    /\ IF disk[CreatedFile] # Unset /\ FirstSet(<<shell.options.overwrite, Settings.overwrite, TRUE>>) = FALSE
       THEN ExitWith(1) /\ UNCHANGED <<disk, made>>
       ELSE /\ disk' = [disk EXCEPT ![CreatedFile] = Torn]
            /\ shell' = [shell EXCEPT !.step = "write"]
            /\ made' = made \cup {[bundle |-> shell.packed, options |-> shell.options]}
            /\ UNCHANGED exit
    /\ UNCHANGED <<project, site, outdir, stored, active, extracted>>

\* ... and written.
WriteOutFile ==
    /\ shell.command = "create" /\ shell.step = "write"
    /\ disk' = [disk EXCEPT ![CreatedFile] = shell.packed]
    /\ ExitWith(0)
    /\ UNCHANGED <<project, site, outdir, stored, active, made, extracted>>

-----------------------------------------------------------------------------
(* extract                                                                 *)

\* The file is read, and every entry of it before anything is written: a file
\* that was cut short fails here.  A directory that is there is refused, or
\* removed when clean is set.
StartExtract(option, clean) ==
    /\ shell = Idling
    /\ LET bundle == IF Refused THEN Unset ELSE FileAt(ReadFile(option, Settings.extractFile))
       IN  IF bundle \in {Unset, Torn} \/ (outdir # Unset /\ ~ FirstSet(<<clean, Settings.clean, FALSE>>))
           THEN ExitWith(1)
           ELSE /\ shell' = [command |-> "extract", bundle |-> bundle, todo |-> DOMAIN bundle,
                             step |-> IF outdir = Unset THEN "write" ELSE "remove"]
                /\ UNCHANGED exit
    /\ UNCHANGED <<project, site, disk, outdir, stored, active, made, extracted>>

\* Mutated form: the old files are left where they are.
RemoveExtractedNot ==
    /\ extracted' = FALSE
    /\ shell.command = "extract" /\ shell.step = "remove"
    /\ shell' = [shell EXCEPT !.step = "write"] /\ UNCHANGED outdir
    /\ UNCHANGED <<project, site, disk, exit, stored, active, made>>

\* The old directory goes, one file after the other.
RemoveExtracted ==
    /\ extracted' = FALSE
    /\ shell.command = "extract" /\ shell.step = "remove"
    /\ \/ \E p \in DOMAIN outdir :
             outdir' = [q \in DOMAIN outdir \ {p} |-> outdir[q]] /\ UNCHANGED shell
       \/ /\ DOMAIN outdir = {} /\ outdir' = Unset
          /\ shell' = [shell EXCEPT !.step = "write"]
    /\ UNCHANGED <<project, site, disk, exit, stored, active, made>>

WithFile(p, content) == [q \in (IF outdir = Unset THEN {} ELSE DOMAIN outdir) \cup {p} |->
                            IF q = p THEN content ELSE outdir[q]]

ExtractFile(p) ==
    /\ shell.command = "extract" /\ shell.step = "write" /\ p \in shell.todo
    /\ outdir' = WithFile(p, shell.bundle[p].content)
    /\ extracted' = (shell.todo = {p})
    /\ IF shell.todo = {p} THEN ExitWith(0)
       ELSE shell' = [shell EXCEPT !.todo = @ \ {p}] /\ UNCHANGED exit
    /\ UNCHANGED <<project, site, disk, stored, active, made>>

-----------------------------------------------------------------------------
(* serve                                                                   *)

\* The bundle is read once, and requests are answered from it until a signal.
\* Only its header and its index are looked at: a file that was cut short after
\* them is served.
StartServe(option) ==
    /\ shell = Idling
    /\ LET bundle == IF Refused THEN Unset ELSE FileAt(ReadFile(option, Settings.serveFile))
       IN  \/ bundle \in {Unset, Torn} /\ ExitWith(1)
           \/ /\ bundle # Unset
              /\ shell' = [command |-> "serve", bundle |-> bundle, answer |-> Unset]
              /\ UNCHANGED exit
    /\ UNCHANGED <<project, site, disk, outdir, stored, active, made, extracted>>

\* resolvePath: only a path that ends in a slash gets an index.html.
ResolvePath(p) == IF p = "/" THEN IndexPath ELSE p

Respond(status, entry) == [status |-> status, entry |-> entry]

\* Of a file that was cut short a path is there in whole, and answered, or it
\* is not, and the handler throws.
Answers(q) ==
    IF shell.bundle = Torn
    THEN {Respond(404, Unset), Respond(500, Unset)}
            \cup {Respond(200, m.bundle[q]) : m \in {n \in made : q \in DOMAIN n.bundle}}
    ELSE {IF q \in DOMAIN shell.bundle THEN Respond(200, shell.bundle[q]) ELSE Respond(404, Unset)}

AnswerRequest(p) ==
    /\ shell.command = "serve"
    /\ \E answer \in Answers(ResolvePath(p)) : shell' = [shell EXCEPT !.answer = answer]
    /\ UNCHANGED <<project, site, disk, outdir, exit, stored, active, made, extracted>>

StopServe ==
    /\ shell.command = "serve"
    /\ ExitWith(0)
    /\ UNCHANGED <<project, site, disk, outdir, stored, active, made, extracted>>

-----------------------------------------------------------------------------
(* remote upload, deploy, current, list and download                       *)

\* The config of the remote (uploader, deployer, endpoint, the name of the
\* bundle there) is missing.
NoRemote == Refused \/ Settings.remote = Unset

\* Nothing looks at the entries of the bundle before it is uploaded: the file
\* that a killed create left opens, if its header and index are there.
RemoteUpload(option, version, force) ==
    /\ shell = Idling
    /\ LET bundle == IF NoRemote THEN Unset ELSE FileAt(UploadedFile(option))
       IN  \/ /\ bundle = Unset \/ bundle = Torn \/ (version \in DOMAIN stored /\ ~force)
              /\ ExitWith(1) /\ UNCHANGED stored
           \/ /\ bundle # Unset /\ (version \in DOMAIN stored => force)
              /\ stored' = Overlay(stored, [v \in {version} |-> bundle])
              /\ ExitWith(0)
    /\ UNCHANGED <<project, site, disk, outdir, active, made, extracted>>

(* The deployer takes every version, also one that was not uploaded. *)
RemoteDeployCommand(version) ==
    /\ shell = Idling
    /\ IF NoRemote THEN ExitWith(1) /\ UNCHANGED active
                   ELSE ExitWith(0) /\ active' = version
    /\ UNCHANGED <<project, site, disk, outdir, stored, made, extracted>>

\* current: the deployed version, if it is there.
RemoteCurrent ==
    /\ shell = Idling
    /\ ExitWith(IF ~ NoRemote /\ active \in DOMAIN stored THEN 0 ELSE 1)
    /\ UNCHANGED <<project, site, disk, outdir, stored, active, made, extracted>>

\* list: also when nothing is deployed.
RemoteList ==
    /\ shell = Idling
    /\ ExitWith(IF NoRemote THEN 1 ELSE 0)
    /\ UNCHANGED <<project, site, disk, outdir, stored, active, made, extracted>>

\* download: the version is required; a bundle that does not read is refused,
\* and a file that is there unless it may be overwritten.  The write may fail
\* half-way.
RemoteDownload(version, overwrite) ==
    /\ shell = Idling
    /\ IF NoRemote \/ version \notin DOMAIN stored \/ (disk[DownloadedFile] # Unset /\ ~overwrite)
       THEN ExitWith(1) /\ UNCHANGED disk
       ELSE \/ /\ disk' = [disk EXCEPT ![DownloadedFile] = stored[version]]
               /\ ExitWith(0)
            \/ /\ stored[version] = Torn
               /\ ExitWith(1) /\ UNCHANGED disk
            \/ /\ disk' = [disk EXCEPT ![DownloadedFile] = Torn]
               /\ ExitWith(1)
    /\ UNCHANGED <<project, site, outdir, stored, active, made, extracted>>

\* The process of a command is killed: what it wrote remains, and the file it
\* was writing in part.
Kill ==
    /\ shell # Idling
    /\ ExitWith(1)
    /\ \/ UNCHANGED outdir
       \/ shell.command = "extract" /\ shell.step = "write" /\ \E p \in shell.todo : outdir' = WithFile(p, Torn)
    /\ UNCHANGED <<project, site, disk, stored, active, made, extracted>>

BundlesNext ==
    \/ \E e \in Edits : EditSite(e[1], e[2])
    \/ \E p \in SitePaths : PackFile(p) \/ ExtractFile(p)
    \/ \E o \in CreateOptions : StartCreate(o)
    \/ OpenOutFile \/ WriteOutFile \/ RemoveExtracted \/ StopServe \/ RemoteCurrent \/ RemoteList \/ Kill
    \/ \E option \in BundleFiles \cup {Unset} :
          \/ \E clean \in {TRUE, Unset} : StartExtract(option, clean)
          \/ StartServe(option)
          \/ \E v \in BundleVersions, force \in BOOLEAN : RemoteUpload(option, v, force)
    \/ \E v \in BundleVersions : RemoteDeployCommand(v) \/ \E overwrite \in BOOLEAN : RemoteDownload(v, overwrite)
    \/ \E p \in SitePaths \cup {"/"} : AnswerRequest(p)

BundlesSpec == BundlesInit /\ [][BundlesNext]_bundlesVars

-----------------------------------------------------------------------------
(* Properties                                                              *)

\* What create is told on the command line goes before what the config file
\* says: a file that --ignore matches is never packed, and a header given with
\* -H is there with values given so and no other, whether the config has
\* patterns or a function
\* (create.ts:52-158, commands/create.ts:61-108).
CommandLineDecides ==
    \A m \in made : \A p \in DOMAIN m.bundle :
        /\ m.options.ignore # Unset => p \notin m.options.ignore.paths
        /\ LET told == {h \in ToSet(m.options.headers) : p \in h.paths}
               values(k) == {h.value : h \in {g \in told : g.key = k}}
           IN  \A h \in told :
                  /\ h.key \in DOMAIN m.bundle[p].headers
                  /\ m.bundle[p].headers[h.key] \subseteq values(h.key)

\* When extract says it is done, the directory holds the files of one bundle
\* that create has made and nothing else: over the files of another bundle, or
\* of an extraction that was killed, and after a way over the remote; a file
\* that a killed create left is never extracted (extract.ts:22-67).
ExtractedIsBundle ==
    extracted =>
        \E m \in made : outdir = [p \in DOMAIN m.bundle |-> m.bundle[p].content]
=============================================================================
