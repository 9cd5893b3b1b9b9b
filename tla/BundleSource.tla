---------------------------- MODULE BundleSource ----------------------------
(***************************************************************************)
(* BundleSource (packages/core/src/source/source.rs) and its main client,  *)
(* BundleProtocol (packages/core/src/protocol/bundle.rs), in one process:  *)
(* the in-memory remote manifest, the .wvb files of the remote directory,  *)
(* the cache of bundle descriptors, and the tasks that install a version,  *)
(* switch the current version, fetch a bundle or answer a request.         *)
(*                                                                         *)
(* A step ends where the code awaits.  The manifest operations are the     *)
(* ones of ManifestData; how they load and lock is in BundleManifest.      *)
(*                                                                         *)
(* A version may be published more than once: each publication is an       *)
(* edition, and the metadata of a download (its integrity) tells which, so *)
(* Metas is the set of editions.  None stands for the absence of a value.  *)
(***************************************************************************)
EXTENDS ManifestData

CONSTANTS
    Tasks,      \* concurrent callers of the source
    Cells,      \* identities of the cache's Arc<OnceCell<..>> values
    Jobs,       \* what the callers do: "get", "fetch", "write", "update", "unload"
    Faults,     \* what may go wrong: "crash", "read", "write"
    Shipped     \* bundle -> current version of the builtin manifest, or None

ASSUME SourceAssumption ==
    /\ None \notin Bundles \cup Tasks \cup Cells
    /\ Shipped \in [Bundles -> Versions \cup {None}]

VARIABLES
    saved,      \* manifest.json of the remote directory
    remote,     \* the remote manifest in memory
    file,       \* bundle -> version -> the .wvb file of the remote directory
    mix,        \* bundle -> version -> editions whose bytes are in that file
    cellOf,     \* descriptors: bundle -> its cell, or None
    value,      \* cell -> the descriptor in it, or None
    initBy,     \* cell -> the task running its initialiser, or None
    pc, job,    \* each task's place and the call it serves
    cell,       \* load_descriptor: the task's clone of the cell
    loc,        \* reader: the location it resolved
    desc,       \* handle_inner: the descriptor it works with
    body,       \* the bundle the body of the answer was read from
    window      \* history: locations that were current since the last unload

diskVars == <<file, mix>>
cacheVars == <<cellOf, value, initBy>>
taskVars == <<pc, job, cell, loc, desc, body>>
vars == <<saved, remote, diskVars, cacheVars, taskVars, window>>

Location == [kind : {"builtin", "remote"}, v : Versions]

(* The bytes of a bundle, and what a descriptor describes. *)
Content == [kind : {"builtin", "remote"}, v : Versions, e : Metas \cup {None}]

ASSUME NoneIsNoRecord == None \notin Location /\ None \notin Content

File == [state : {"absent", "torn", "whole"}, e : Metas \cup {None}]

AbsentFile == [state |-> "absent", e |-> None]
TornFile == [state |-> "torn", e |-> None]
WholeFile(e) == [state |-> "whole", e |-> e]

Job == [op : {"get", "fetch"}, b : Bundles, v : {None}, e : {None}]
       \cup [op : {"update"}, b : Bundles, v : Versions, e : {None}]
       \cup [op : {"write"}, b : Bundles, v : Versions, e : Metas]

NoJob == [op |-> "none", b |-> None, v |-> None, e |-> None]

PC == {"idle", "lookup", "cell", "resolve", "open", "read", "entry", "answer",
       "check", "set", "create", "write", "insert"}

-----------------------------------------------------------------------------
(* load_version, filepath and what a reader of that path may find          *)

(* The remote manifest's current version, else the builtin one's. *)
Resolved(d, b) ==
    IF HasEntry(d, b) THEN [kind |-> "remote", v |-> CurrentVersion(d, b)]
    ELSE IF Shipped[b] # None THEN [kind |-> "builtin", v |-> Shipped[b]]
    ELSE None

Exists(b, l) == l.kind = "remote" => file[b][l.v].state # "absent"

IsTorn(b, l) == l.kind = "remote" /\ file[b][l.v].state = "torn"

(***************************************************************************)
(* The contents an open file may show.  A torn file shows an error, or     *)
(* what of one of its editions is complete: nothing verifies a checksum.   *)
(***************************************************************************)
Readable(b, l) ==
    IF l.kind = "builtin" THEN {[kind |-> "builtin", v |-> l.v, e |-> None]}
    ELSE LET es == IF IsTorn(b, l) THEN mix[b][l.v] ELSE {file[b][l.v].e} \ {None}
         IN  {[kind |-> "remote", v |-> l.v, e |-> e] : e \in es}

Writing(b, v) == {t \in Tasks : pc[t] = "write" /\ job[t].b = b /\ job[t].v = v}

(* Reading on behalf of a cell's initialiser, not of the response body. *)
Initialising(t) == pc[t] \in {"resolve", "open", "read"} /\ cell[t] # None

-----------------------------------------------------------------------------

Init ==
    /\ saved \in {d \in Data : WellFormed(d)}
    /\ remote = saved
    /\ file = [b \in Bundles |-> [v \in Versions |->
                 IF ContainsEntry(saved, b, v) THEN WholeFile(saved[b].meta[v])
                                               ELSE AbsentFile]]
    /\ mix = [b \in Bundles |-> [v \in Versions |-> {saved[b].meta[v]} \ {None}]]
    /\ cellOf = [b \in Bundles |-> None]
    /\ value = [c \in Cells |-> None]
    /\ initBy = [c \in Cells |-> None]
    /\ pc = [t \in Tasks |-> "idle"]
    /\ job = [t \in Tasks |-> NoJob]
    /\ cell = [t \in Tasks |-> None]
    /\ loc = [t \in Tasks |-> None]
    /\ desc = [t \in Tasks |-> None]
    /\ body = [t \in Tasks |-> None]
    /\ window = [b \in Bundles |-> {Resolved(saved, b)}]

FirstPC(op) == CASE op = "get" -> "lookup"
                 [] op = "fetch" -> "resolve"
                 [] op = "update" -> "check"
                 [] op = "write" -> "create"

Begin(t) ==
    /\ pc[t] = "idle"
    /\ \E j \in Job :
        /\ j.op \in Jobs
        /\ job' = [job EXCEPT ![t] = j]
        /\ pc' = [pc EXCEPT ![t] = FirstPC(j.op)]
    /\ UNCHANGED <<saved, remote, diskVars, cacheVars, cell, loc, desc, body, window>>

Goto(t, p) == pc' = [pc EXCEPT ![t] = p]

(* The call returns, with a result or an error; its locals are dropped. *)
Finish(t) ==
    /\ Goto(t, "idle")
    /\ job' = [job EXCEPT ![t] = NoJob]
    /\ cell' = [cell EXCEPT ![t] = None]
    /\ loc' = [loc EXCEPT ![t] = None]
    /\ desc' = [desc EXCEPT ![t] = None]
    /\ body' = [body EXCEPT ![t] = None]

Unused(c) == (\A b \in Bundles : cellOf[b] # c) /\ (\A t \in Tasks : cell[t] # c)

(* A cell nobody refers to any more is freed, and its descriptor with it. *)
FreeCells(val) == value' = [c \in Cells |-> IF Unused(c)' THEN None ELSE val[c]]

-----------------------------------------------------------------------------
(* load_descriptor                                                         *)

(* Only GET and HEAD are served. *)
RejectMethod(t) ==
    /\ pc[t] = "lookup"
    /\ Finish(t)
    /\ UNCHANGED <<saved, remote, diskVars, cacheVars, window>>

FastPath(t) ==
    /\ pc[t] = "lookup"
    /\ LET c == cellOf[job[t].b] IN
        /\ c # None
        /\ value[c] # None
        /\ desc' = [desc EXCEPT ![t] = value[c]]
    /\ Goto(t, "entry")
    /\ UNCHANGED <<saved, remote, diskVars, cacheVars, job, cell, loc, body, window>>

(* descriptors.entry(..).or_default(), then the guard is dropped *)
EnterCell(t) ==
    /\ pc[t] = "lookup"
    /\ \/ /\ cellOf[job[t].b] # None
          /\ cell' = [cell EXCEPT ![t] = cellOf[job[t].b]]
          /\ UNCHANGED cacheVars
       \/ /\ cellOf[job[t].b] = None
          /\ \E c \in Cells :
              /\ Unused(c)
              /\ cellOf' = [cellOf EXCEPT ![job[t].b] = c]
              /\ value' = [value EXCEPT ![c] = None]
              /\ initBy' = [initBy EXCEPT ![c] = None]
              /\ cell' = [cell EXCEPT ![t] = c]
    /\ Goto(t, "cell")
    /\ UNCHANGED <<saved, remote, diskVars, job, loc, desc, body, window>>

(* get_or_try_init on a cell that has its value *)
TakeValue(t) ==
    /\ pc[t] = "cell"
    /\ value[cell[t]] # None
    /\ desc' = [desc EXCEPT ![t] = value[cell[t]]]
    /\ cell' = [cell EXCEPT ![t] = None]
    /\ Goto(t, "entry")
    /\ UNCHANGED <<saved, remote, diskVars, cellOf, initBy, job, loc, body, window>>
    /\ FreeCells(value)

\* Mutated form: a second caller runs the initialiser too.
BeginInitUnshared(t) ==
    /\ pc[t] = "cell"
    /\ value[cell[t]] = None
    /\ initBy' = [initBy EXCEPT ![cell[t]] = t]
    /\ Goto(t, "resolve")
    /\ UNCHANGED <<saved, remote, diskVars, cellOf, value, job, cell, loc, desc, body, window>>

(* get_or_try_init on an empty cell: one caller at a time fetches *)
BeginInit(t) ==
    /\ pc[t] = "cell"
    /\ value[cell[t]] = None
    /\ initBy[cell[t]] = None
    /\ initBy' = [initBy EXCEPT ![cell[t]] = t]
    /\ Goto(t, "resolve")
    /\ UNCHANGED <<saved, remote, diskVars, cellOf, value, job, cell, loc, desc, body, window>>

\* Mutated form: a failing initialiser keeps the cell's permit.
FailKeepingPermit(t) ==
    /\ Finish(t)
    /\ UNCHANGED <<saved, remote, diskVars, cacheVars, window>>

(* The call fails; a cell it was initialising is left empty for the next. *)
Fail(t) ==
    /\ Finish(t)
    /\ initBy' = IF Initialising(t) THEN [initBy EXCEPT ![cell[t]] = None] ELSE initBy
    /\ UNCHANGED <<saved, remote, diskVars, cellOf, window>>
    /\ FreeCells(value)

-----------------------------------------------------------------------------
(* reader: load_version, filepath, File::open                              *)

Resolve(t) ==
    /\ pc[t] = "resolve"
    /\ LET l == Resolved(remote, job[t].b) IN
        IF l = None
        THEN Fail(t)
        ELSE /\ loc' = [loc EXCEPT ![t] = l]
             /\ Goto(t, "open")
             /\ UNCHANGED <<saved, remote, diskVars, cacheVars, job, cell, desc, body, window>>

Open(t) ==
    /\ pc[t] = "open"
    /\ Exists(job[t].b, loc[t])
    /\ Goto(t, "read")
    /\ UNCHANGED <<saved, remote, diskVars, cacheVars, job, cell, loc, desc, body, window>>

(* No such file, a file that does not parse, or an I/O error. *)
FailRead(t) ==
    /\ \/ pc[t] = "open" /\ ~Exists(job[t].b, loc[t])
       \/ pc[t] = "read" /\ IsTorn(job[t].b, loc[t])
       \/ pc[t] \in {"open", "read"} /\ "read" \in Faults
    /\ Fail(t)

\* Mutated form: the descriptor is stored under the bundle's name, not in
\* the cell that was being initialised.
ReadDescriptorByName(t) ==
    /\ pc[t] = "read"
    /\ Initialising(t)
    /\ \E c \in Readable(job[t].b, loc[t]) :
        /\ value' = [x \in Cells |-> IF x \in {cell[t], cellOf[job[t].b]} THEN c ELSE value[x]]
        /\ desc' = [desc EXCEPT ![t] = c]
    /\ initBy' = [initBy EXCEPT ![cell[t]] = None]
    /\ cell' = [cell EXCEPT ![t] = None]
    /\ loc' = [loc EXCEPT ![t] = None]
    /\ Goto(t, "entry")
    /\ UNCHANGED <<saved, remote, diskVars, cellOf, job, body, window>>

(* fetch_descriptor ends: header and index are parsed, the cell is filled *)
ReadDescriptor(t) ==
    /\ pc[t] = "read"
    /\ Initialising(t)
    /\ initBy' = [initBy EXCEPT ![cell[t]] = None]
    /\ cell' = [cell EXCEPT ![t] = None]
    /\ loc' = [loc EXCEPT ![t] = None]
    /\ Goto(t, "entry")
    /\ UNCHANGED <<saved, remote, diskVars, cellOf, job, body, window>>
    /\ \E c \in Readable(job[t].b, loc[t]) :
        /\ desc' = [desc EXCEPT ![t] = c]
        /\ FreeCells([value EXCEPT ![cell[t]] = c])

(* fetch reads header, index and data from one open file *)
ReadBundle(t) ==
    /\ pc[t] = "read"
    /\ job[t].op = "fetch"
    /\ Readable(job[t].b, loc[t]) # {}
    /\ Finish(t)
    /\ UNCHANGED <<saved, remote, diskVars, cacheVars, window>>

-----------------------------------------------------------------------------
(* BundleProtocol::handle_inner, from the descriptor on                    *)

(* The path is not in the index; or nothing but headers is asked for. *)
AnswerFromIndex(t) ==
    /\ pc[t] = "entry"
    /\ Finish(t)
    /\ UNCHANGED <<saved, remote, diskVars, cacheVars, window>>

(* GET opens the bundle again: the version is resolved anew. *)
OpenForBody(t) ==
    /\ pc[t] = "entry"
    /\ Goto(t, "resolve")
    /\ UNCHANGED <<saved, remote, diskVars, cacheVars, job, cell, loc, desc, body, window>>

(***************************************************************************)
(* async_get_data: the descriptor's offsets are applied to the open file.  *)
(* On another bundle's bytes that fails to decode, or, where the layouts   *)
(* coincide, returns the other bundle's data.                              *)
(***************************************************************************)
ReadBody(t) ==
    /\ pc[t] = "read"
    /\ job[t].op = "get"
    /\ ~Initialising(t)
    /\ \E c \in Readable(job[t].b, loc[t]) :
        \/ /\ body' = [body EXCEPT ![t] = c]
           /\ Goto(t, "answer")
           /\ UNCHANGED <<job, cell, loc, desc>>
        \/ c # desc[t] /\ Finish(t)
    /\ UNCHANGED <<saved, remote, diskVars, cacheVars, window>>

Answer(t) ==
    /\ pc[t] = "answer"
    /\ Finish(t)
    /\ UNCHANGED <<saved, remote, diskVars, cacheVars, window>>

-----------------------------------------------------------------------------
(* update_version                                                          *)

Observe(b) == window' = [window EXCEPT ![b] = @ \cup {Resolved(remote', b)}]

\* Mutated form: any version may be activated.
CheckVersionBlindly(t) ==
    /\ pc[t] = "check"
    /\ Goto(t, "set")
    /\ UNCHANGED <<saved, remote, diskVars, cacheVars, job, cell, loc, desc, body, window>>

CheckVersion(t) ==
    /\ pc[t] = "check"
    /\ IF ContainsEntry(remote, job[t].b, job[t].v)
       THEN Goto(t, "set") /\ UNCHANGED <<job, cell, loc, desc, body>>
       ELSE Finish(t)
    /\ UNCHANGED <<saved, remote, diskVars, cacheVars, window>>

SetVersion(t) ==
    /\ pc[t] = "set"
    /\ remote' = SetCurrent(remote, job[t].b, job[t].v)
    /\ Observe(job[t].b)
    /\ Finish(t)
    /\ UNCHANGED <<saved, diskVars, cacheVars>>

(* unload_descriptor: the map forgets the cell, its users keep it *)
Unload(b) ==
    /\ "unload" \in Jobs
    /\ cellOf' = [cellOf EXCEPT ![b] = None]
    /\ window' = [window EXCEPT ![b] = {Resolved(remote, b)}]
    /\ UNCHANGED <<saved, remote, diskVars, initBy, taskVars>>
    /\ FreeCells(value)

-----------------------------------------------------------------------------
(* write_remote_bundle                                                     *)

PutFile(b, v, f) == file' = [file EXCEPT ![b][v] = f]

\* Mutated form: the manifest is updated before the file is created.
CreateAfterInsert(t) ==
    /\ pc[t] = "create"
    /\ Goto(t, "insert")
    /\ UNCHANGED <<saved, remote, diskVars, cacheVars, job, cell, loc, desc, body, window>>

\* Mutated form: the bundle is never written to the file.
CreateWithoutWrite(t) ==
    /\ pc[t] = "create"
    /\ PutFile(job[t].b, job[t].v, TornFile)
    /\ mix' = [mix EXCEPT ![job[t].b][job[t].v] = {job[t].e}]
    /\ Goto(t, "insert")
    /\ UNCHANGED <<saved, remote, cacheVars, job, cell, loc, desc, body, window>>

(***************************************************************************)
(* File::create truncates the file in place, whoever reads or writes it.   *)
(* Without another writer its earlier bytes are gone.                      *)
(***************************************************************************)
Create(t) ==
    /\ pc[t] = "create"
    /\ LET b == job[t].b
           v == job[t].v
       IN  /\ PutFile(b, v, TornFile)
           /\ mix' = [mix EXCEPT ![b][v] =
                        {job[t].e} \cup IF Writing(b, v) = {} THEN {} ELSE @]
    /\ Goto(t, "write")
    /\ UNCHANGED <<saved, remote, cacheVars, job, cell, loc, desc, body, window>>

(***************************************************************************)
(* AsyncBundleWriter finishes: header, index, data, flush.  Writers that   *)
(* overlapped wrote the same offsets of one file: it is whole if they      *)
(* wrote the same bytes and all are done, otherwise it may be anything.    *)
(***************************************************************************)
Write(t) ==
    /\ pc[t] = "write"
    /\ LET b == job[t].b
           v == job[t].v
           others == Writing(b, v) \ {t}
       IN  \/ PutFile(b, v, WholeFile(job[t].e))
           \/ others # {} /\ PutFile(b, v, TornFile)
           \/ \E e \in mix[b][v] \ {job[t].e} : \E f \in {WholeFile(e), TornFile} : PutFile(b, v, f)
    /\ Goto(t, "insert")
    /\ UNCHANGED <<saved, remote, mix, cacheVars, job, cell, loc, desc, body, window>>

(* The file cannot be created, or the write stops half-way. *)
FailWrite(t) ==
    /\ "write" \in Faults
    /\ \/ pc[t] = "create" /\ UNCHANGED file
       \/ pc[t] = "write" /\ \E f \in {TornFile, file[job[t].b][job[t].v]} :
                                PutFile(job[t].b, job[t].v, f)
    /\ Finish(t)
    /\ UNCHANGED <<saved, remote, mix, cacheVars, window>>

InsertVersion(t) ==
    /\ pc[t] = "insert"
    /\ remote' = InsertEntry(remote, job[t].b, job[t].v, job[t].e)
    /\ Observe(job[t].b)
    /\ Finish(t)
    /\ UNCHANGED <<saved, diskVars, cacheVars>>

-----------------------------------------------------------------------------

(***************************************************************************)
(* The process ends and a new one starts: files stay as they are, and the  *)
(* manifest is what manifest.json says.  Nothing calls its save().         *)
(***************************************************************************)
Restart ==
    /\ "crash" \in Faults
    /\ remote' = saved
    /\ cellOf' = [b \in Bundles |-> None]
    /\ value' = [c \in Cells |-> None]
    /\ initBy' = [c \in Cells |-> None]
    /\ pc' = [t \in Tasks |-> "idle"]
    /\ job' = [t \in Tasks |-> NoJob]
    /\ cell' = [t \in Tasks |-> None]
    /\ loc' = [t \in Tasks |-> None]
    /\ desc' = [t \in Tasks |-> None]
    /\ body' = [t \in Tasks |-> None]
    /\ window' = [b \in Bundles |-> {Resolved(saved, b)}]
    /\ UNCHANGED <<saved, diskVars>>

Await(t) == TakeValue(t) \/ BeginInit(t)

Read(t) == Resolve(t) \/ Open(t) \/ FailRead(t) \/ ReadDescriptor(t) \/ ReadBundle(t)

Serve(t) == RejectMethod(t) \/ FastPath(t) \/ EnterCell(t)
            \/ AnswerFromIndex(t) \/ OpenForBody(t) \/ ReadBody(t) \/ Answer(t)

Switch(t) == CheckVersion(t) \/ SetVersion(t)

Install(t) == Create(t) \/ Write(t) \/ FailWrite(t) \/ InsertVersion(t)

Progress(t) == Read(t) \/ Serve(t) \/ Switch(t) \/ Install(t)

Next ==
    \/ Restart
    \/ \E b \in Bundles : Unload(b)
    \/ \E t \in Tasks : Begin(t) \/ Await(t) \/ Progress(t)

Spec == Init /\ [][Next]_vars

(***************************************************************************)
(* tokio polls a task that is ready, and the OnceCell's semaphore serves   *)
(* the tasks waiting for its permit in the order they came.                *)
(***************************************************************************)
Fairness == \A t \in Tasks : WF_vars(Progress(t)) /\ SF_vars(Await(t))

FairSpec == Spec /\ Fairness

-----------------------------------------------------------------------------
(* Properties                                                              *)

(* Every variable of the source, its files, cache and callers has its type. *)
TypeOK ==
    /\ saved \in Data
    /\ remote \in Data
    /\ file \in [Bundles -> [Versions -> File]]
    /\ mix \in [Bundles -> [Versions -> SUBSET Metas]]
    /\ cellOf \in [Bundles -> Cells \cup {None}]
    /\ value \in [Cells -> Content \cup {None}]
    /\ initBy \in [Cells -> Tasks \cup {None}]
    /\ pc \in [Tasks -> PC]
    /\ job \in [Tasks -> Job \cup {NoJob}]
    /\ cell \in [Tasks -> Cells \cup {None}]
    /\ loc \in [Tasks -> Location \cup {None}]
    /\ desc \in [Tasks -> Content \cup {None}]
    /\ body \in [Tasks -> Content \cup {None}]
    /\ window \in [Bundles -> SUBSET (Location \cup {None})]

(***************************************************************************)
(* update_version checks and sets in two steps; still, the current version *)
(* of the remote manifest is always one that was installed.                *)
(***************************************************************************)
CurrentInstalled == CurrentIsListed(remote)

(***************************************************************************)
(* A version the manifest lists has a file, and a task that resolved a     *)
(* version to a path finds the file when it opens it: write_remote_bundle  *)
(* creates the file before it inserts the entry.                           *)
(***************************************************************************)
ResolvedFileExists ==
    /\ \A b \in Bundles, v \in Versions :
         ContainsEntry(remote, b, v) => file[b][v].state # "absent"
    /\ \A t \in Tasks : pc[t] = "open" => Exists(job[t].b, loc[t])

(***************************************************************************)
(* With no crash and no failing write, a listed version that nobody is writing *)
(* is a whole file, unless two of its editions were written at once: tasks *)
(* that download the same bytes at the same time do each other no harm.    *)
(***************************************************************************)
InstalledFileWhole ==
    Faults \subseteq {"read"} =>
      \A b \in Bundles, v \in Versions :
        /\ ContainsEntry(remote, b, v)
        /\ Writing(b, v) = {}
        /\ \A e1, e2 \in mix[b][v] : e1 = e2
        => file[b][v].state = "whole"

(***************************************************************************)
(* load_descriptor is single flight: only the task a cell records as its   *)
(* initialiser reads a descriptor for it, and only while it is empty.      *)
(***************************************************************************)
SingleFlight ==
    \A t \in Tasks : Initialising(t) => initBy[cell[t]] = t /\ value[cell[t]] = None

(***************************************************************************)
(* Until it is unloaded, a cached descriptor never changes: every request  *)
(* served in between works with the same one.                              *)
(***************************************************************************)
CachedDescriptorStable ==
    [][ \A b \in Bundles :
          LET c == cellOf[b] IN
          c # None /\ cellOf'[b] = c /\ value[c] # None => value'[c] = value[c] ]_vars

(***************************************************************************)
(* A cached descriptor is of a version that has been current since the     *)
(* bundle was last unloaded: a fetch that began before unload_descriptor   *)
(* cannot bring an older version back into the cache.                      *)
(***************************************************************************)
CachedSinceUnload ==
    \A b \in Bundles :
      LET c == cellOf[b] IN
      c # None /\ value[c] # None => [kind |-> value[c].kind, v |-> value[c].v] \in window[b]

(***************************************************************************)
(* The body of an answer and the descriptor that gave its headers and      *)
(* offsets are of the same version.                                        *)
(***************************************************************************)
AnswerOfOneVersion ==
    \A t \in Tasks :
      pc[t] = "answer" => desc[t].kind = body[t].kind /\ desc[t].v = body[t].v

(***************************************************************************)
(* What manifest.json is for: an installed version stays installed, also   *)
(* when the application is restarted.                                      *)
(***************************************************************************)
InstalledStaysInstalled ==
    [][ \A b \in Bundles, v \in Versions :
          ContainsEntry(remote, b, v) => ContainsEntry(remote', b, v) ]_vars

(***************************************************************************)
(* Who waits in load_descriptor for the permit of a cell waits for a task  *)
(* that is fetching a descriptor for that very cell, also after the cell   *)
(* was unloaded; and a task that has opened a bundle finds something       *)
(* there, if only an error.  So nobody waits for what cannot come.         *)
(***************************************************************************)
WaitsForLiveFetch ==
    /\ \A c \in Cells :
          initBy[c] # None => Initialising(initBy[c]) /\ cell[initBy[c]] = c
    /\ \A t \in Tasks :
          pc[t] = "read" => IsTorn(job[t].b, loc[t]) \/ Readable(job[t].b, loc[t]) # {}

(* Every call returns, also the ones that wait for another's fetch to fail. *)
CallsReturn == \A t \in Tasks : pc[t] # "idle" ~> pc[t] = "idle"

(***************************************************************************)
(* The source implements the abstract store of versions.                   *)
(***************************************************************************)
InstalledOf(d) == [b \in Bundles |-> Listed(d, b)]
CurrentOf(d) == [b \in Bundles |-> CurrentVersion(d, b)]

Store == INSTANCE VersionStore WITH
           installed <- InstalledOf(remote),
           current <- CurrentOf(remote),
           saved <- [installed |-> InstalledOf(saved), current |-> CurrentOf(saved)]

ImplementsStore == Store!Spec
=============================================================================
