------------------------- MODULE BundleSourceProofs -------------------------
(***************************************************************************)
(* Theorems about BundleSource, for every set of bundles, versions, tasks, *)
(* cells and jobs, every fault and every shipped application.              *)
(***************************************************************************)
EXTENDS BundleSource, ManifestDataProofs

(* What a task's place says about its call and its locals. *)
Shape ==
    \A t \in Tasks :
        /\ pc[t] = "idle" => cell[t] = None
        /\ pc[t] \in {"lookup", "cell", "entry", "answer"} => job[t].op = "get"
        /\ pc[t] \in {"resolve", "open", "read"} => job[t].op \in {"get", "fetch"}
        /\ pc[t] \in {"check", "set"} => job[t].op = "update"
        /\ pc[t] \in {"create", "write", "insert"} => job[t].op = "write"
        /\ pc[t] = "cell" => cell[t] # None
        /\ pc[t] \in {"open", "read"} => loc[t] # None
        /\ pc[t] = "entry" => desc[t] # None
        /\ cell[t] # None => pc[t] \in {"cell", "resolve", "open", "read"} /\ job[t].op = "get"

Typed == TypeOK /\ Shape

(* The arguments of a call are those of its operation. *)
LEMMA JobArguments ==
    ASSUME NEW j \in Job \cup {NoJob}
    PROVE  /\ j.op \in {"get", "fetch"} => j.b \in Bundles
           /\ j.op = "update" => j.b \in Bundles /\ j.v \in Versions
           /\ j.op = "write" => j.b \in Bundles /\ j.v \in Versions /\ j.e \in Metas
  BY DEF Job, NoJob

(* A resolved location is one; it is the remote one as soon as there is an entry. *)
LEMMA ResolvedType ==
    ASSUME NEW d \in Data, NEW b \in Bundles
    PROVE  Resolved(d, b) \in Location \cup {None}
  BY SourceAssumption DEF Resolved, Location, Data, Entry, HasEntry, CurrentVersion

LEMMA ReadableType ==
    ASSUME TypeOK, NEW b \in Bundles, NEW l \in Location
    PROVE  Readable(b, l) \subseteq Content
  <1>1. CASE l.kind = "builtin"
    BY <1>1 DEF Readable, Location, Content
  <1>2. CASE l.kind # "builtin"
    <2>1. l.v \in Versions  BY DEF Location
    <2>2. file[b][l.v].e \in Metas \cup {None} /\ mix[b][l.v] \subseteq Metas
      BY <2>1 DEF TypeOK, File
    <2>3. QED  BY <1>2, <2>1, <2>2 DEF Readable, Content
  <1>3. QED  BY <1>1, <1>2

LEMMA InitTyped == Init => Typed
  <1> SUFFICES ASSUME Init PROVE Typed  OBVIOUS
  <1>1. saved \in Data /\ remote \in Data  BY DEF Init
  <1>2. file \in [Bundles -> [Versions -> File]]
    BY <1>1, NoneAssumption DEF Init, WholeFile, AbsentFile, File, ContainsEntry, Data, Entry
  <1>3. mix \in [Bundles -> [Versions -> SUBSET Metas]]
    BY <1>1, NoneAssumption DEF Init, Data, Entry
  <1>4. window \in [Bundles -> SUBSET (Location \cup {None})]
    BY <1>1, ResolvedType DEF Init
  <1>5. /\ cellOf \in [Bundles -> Cells \cup {None}]
        /\ value \in [Cells -> Content \cup {None}]
        /\ initBy \in [Cells -> Tasks \cup {None}]
        /\ pc \in [Tasks -> PC]
        /\ job \in [Tasks -> Job \cup {NoJob}]
        /\ cell \in [Tasks -> Cells \cup {None}]
        /\ loc \in [Tasks -> Location \cup {None}]
        /\ desc \in [Tasks -> Content \cup {None}]
        /\ body \in [Tasks -> Content \cup {None}]
    BY DEF Init, PC
  <1>6. Shape  BY DEF Init, Shape
  <1>7. QED  BY <1>1, <1>2, <1>3, <1>4, <1>5, <1>6 DEF Typed, TypeOK

(* A returning call leaves its task at rest. *)
LEMMA FinishTyped ==
    ASSUME Typed, NEW t \in Tasks, Finish(t)
    PROVE  /\ pc' \in [Tasks -> PC]
           /\ job' \in [Tasks -> Job \cup {NoJob}]
           /\ cell' \in [Tasks -> Cells \cup {None}]
           /\ loc' \in [Tasks -> Location \cup {None}]
           /\ desc' \in [Tasks -> Content \cup {None}]
           /\ body' \in [Tasks -> Content \cup {None}]
           /\ Shape'
  BY DEF Typed, TypeOK, Shape, Finish, Goto, PC

LEMMA FailTyped ==
    ASSUME Typed, NEW t \in Tasks, Fail(t)
    PROVE  Typed'
  <1>1. initBy' \in [Cells -> Tasks \cup {None}]  BY DEF Fail, Typed, TypeOK
  <1>2. value' \in [Cells -> Content \cup {None}]  BY DEF Fail, FreeCells, Typed, TypeOK
  <1>3. QED  BY <1>1, <1>2, FinishTyped DEF Fail, Typed, TypeOK, diskVars

(* An action that only returns keeps every type. *)
LEMMA ReturnTyped ==
    ASSUME Typed, NEW t \in Tasks, Finish(t),
           UNCHANGED <<saved, remote, diskVars, cacheVars, window>>
    PROVE  Typed'
  BY FinishTyped DEF Typed, TypeOK, diskVars, cacheVars

-----------------------------------------------------------------------------

LEMMA ServeTyped ==
    ASSUME Typed, NEW t \in Tasks, Serve(t) \/ Await(t)
    PROVE  Typed'
  <1>0. job[t] \in Job \cup {NoJob}  BY DEF Typed, TypeOK
  <1>1. CASE RejectMethod(t)
    BY <1>1, ReturnTyped DEF RejectMethod
  <1>2. CASE FastPath(t)
    <2>1. job[t].b \in Bundles
      BY <1>0, <1>2, JobArguments DEF FastPath, Typed, Shape
    <2>2. desc' \in [Tasks -> Content \cup {None}] /\ desc'[t] # None
      BY <1>2, <2>1 DEF FastPath, Typed, TypeOK
    <2>3. pc' \in [Tasks -> PC]  BY <1>2 DEF FastPath, Goto, Typed, TypeOK, PC
    <2>4. Shape'  BY <1>2, <2>2 DEF FastPath, Goto, Typed, TypeOK, Shape
    <2>5. QED
      BY <1>2, <2>2, <2>3, <2>4 DEF FastPath, Typed, TypeOK, diskVars, cacheVars
  <1>3. CASE EnterCell(t)
    <2>1. job[t].b \in Bundles
      BY <1>0, <1>3, JobArguments DEF EnterCell, Typed, Shape
    <2>2. CASE cellOf[job[t].b] # None
      <3>1. cell' \in [Tasks -> Cells \cup {None}]
            /\ cell'[t] # None /\ UNCHANGED cacheVars
        BY <1>3, <2>1, <2>2 DEF EnterCell, Typed, TypeOK
      <3>2. pc' \in [Tasks -> PC] /\ Shape'
        BY <1>3, <3>1 DEF EnterCell, Goto, Typed, TypeOK, Shape, PC
      <3>3. QED
        BY <1>3, <3>1, <3>2 DEF EnterCell, Typed, TypeOK, diskVars, cacheVars
    <2>3. CASE cellOf[job[t].b] = None
      <3>1. PICK c \in Cells :
              /\ cellOf' = [cellOf EXCEPT ![job[t].b] = c]
              /\ value' = [value EXCEPT ![c] = None]
              /\ initBy' = [initBy EXCEPT ![c] = None]
              /\ cell' = [cell EXCEPT ![t] = c]
        BY <1>3, <2>3 DEF EnterCell
      <3>2. /\ cellOf' \in [Bundles -> Cells \cup {None}]
            /\ value' \in [Cells -> Content \cup {None}]
            /\ initBy' \in [Cells -> Tasks \cup {None}]
            /\ cell' \in [Tasks -> Cells \cup {None}]
            /\ cell'[t] # None
        BY <3>1, SourceAssumption DEF Typed, TypeOK
      <3>3. pc' \in [Tasks -> PC] /\ Shape'
        BY <1>3, <3>1, <3>2 DEF EnterCell, Goto, Typed, TypeOK, Shape, PC
      <3>4. QED  BY <1>3, <3>2, <3>3 DEF EnterCell, Typed, TypeOK, diskVars
    <2>4. QED  BY <2>2, <2>3
  <1>4. CASE TakeValue(t)
    <2>1. cell[t] \in Cells  BY <1>4 DEF TakeValue, Typed, TypeOK, Shape
    <2>2. desc' \in [Tasks -> Content \cup {None}] /\ desc'[t] # None
      BY <1>4, <2>1 DEF TakeValue, Typed, TypeOK
    <2>3. cell' \in [Tasks -> Cells \cup {None}] /\ pc' \in [Tasks -> PC]
      BY <1>4 DEF TakeValue, Goto, Typed, TypeOK, PC
    <2>4. value' \in [Cells -> Content \cup {None}]
      BY <1>4 DEF TakeValue, FreeCells, Typed, TypeOK
    <2>5. Shape'  BY <1>4, <2>2 DEF TakeValue, Goto, Typed, TypeOK, Shape
    <2>6. QED
      BY <1>4, <2>2, <2>3, <2>4, <2>5 DEF TakeValue, Typed, TypeOK, diskVars
  <1>5. CASE BeginInit(t)
    <2>1. pc' \in [Tasks -> PC] /\ Shape'
      BY <1>5 DEF BeginInit, Goto, Typed, TypeOK, Shape, PC
    <2>2. initBy' \in [Cells -> Tasks \cup {None}]
      BY <1>5 DEF BeginInit, Typed, TypeOK
    <2>3. QED  BY <1>5, <2>1, <2>2 DEF BeginInit, Typed, TypeOK, diskVars
  <1>6. CASE AnswerFromIndex(t)
    BY <1>6, ReturnTyped DEF AnswerFromIndex
  <1>7. CASE OpenForBody(t)
    <2>1. pc' \in [Tasks -> PC] /\ Shape'
      BY <1>7 DEF OpenForBody, Goto, Typed, TypeOK, Shape, PC
    <2>2. QED  BY <1>7, <2>1 DEF OpenForBody, Typed, TypeOK, diskVars, cacheVars
  <1>8. CASE ReadBody(t)
    <2>1. job[t].b \in Bundles /\ loc[t] \in Location
      BY <1>0, <1>8, JobArguments DEF ReadBody, Typed, TypeOK, Shape
    <2>2. PICK c \in Readable(job[t].b, loc[t]) :
             \/ /\ body' = [body EXCEPT ![t] = c]
                /\ Goto(t, "answer")
                /\ UNCHANGED <<job, cell, loc, desc>>
             \/ c # desc[t] /\ Finish(t)
      BY <1>8 DEF ReadBody
    <2>3. c \in Content  BY <2>1, <2>2, ReadableType DEF Typed
    <2>4. CASE Finish(t)
      BY <1>8, <2>4, ReturnTyped DEF ReadBody
    <2>5. CASE ~Finish(t)
      <3>1. body' \in [Tasks -> Content \cup {None}]
        BY <2>2, <2>3, <2>5 DEF Typed, TypeOK
      <3>2. pc' \in [Tasks -> PC] /\ Shape'
        BY <1>8, <2>2, <2>5 DEF ReadBody, Initialising, Goto, Typed, TypeOK, Shape, PC
      <3>3. QED
        BY <1>8, <2>2, <2>5, <3>1, <3>2 DEF ReadBody, Typed, TypeOK, diskVars, cacheVars
    <2>6. QED  BY <2>4, <2>5
  <1>9. CASE Answer(t)
    BY <1>9, ReturnTyped DEF Answer
  <1>10. QED
    BY <1>1, <1>2, <1>3, <1>4, <1>5, <1>6, <1>7, <1>8, <1>9 DEF Serve, Await
LEMMA ReadTyped ==
    ASSUME Typed, NEW t \in Tasks, Read(t)
    PROVE  Typed'
  <1>0. job[t] \in Job \cup {NoJob}  BY DEF Typed, TypeOK
  <1>1. CASE Resolve(t)
    <2>1. job[t].b \in Bundles
      BY <1>0, <1>1, JobArguments DEF Resolve, Typed, Shape
    <2>2. Resolved(remote, job[t].b) \in Location \cup {None}
      BY <2>1, ResolvedType DEF Typed, TypeOK
    <2>3. CASE Resolved(remote, job[t].b) = None
      BY <1>1, <2>3, FailTyped DEF Resolve
    <2>4. CASE Resolved(remote, job[t].b) # None
      <3>1. loc' \in [Tasks -> Location \cup {None}] /\ loc'[t] # None
            /\ \A u \in Tasks \ {t} : loc'[u] = loc[u]
        BY <1>1, <2>2, <2>4 DEF Resolve, Typed, TypeOK
      <3>2. pc' \in [Tasks -> PC] /\ Shape'
        BY <1>1, <2>4, <3>1 DEF Resolve, Goto, Typed, TypeOK, Shape, PC
      <3>3. QED
        BY <1>1, <2>4, <3>1, <3>2 DEF Resolve, Typed, TypeOK, diskVars, cacheVars
    <2>5. QED  BY <2>3, <2>4
  <1>2. CASE Open(t)
    <2>1. pc' \in [Tasks -> PC] /\ Shape'
      BY <1>2 DEF Open, Goto, Typed, TypeOK, Shape, PC
    <2>2. QED  BY <1>2, <2>1 DEF Open, Typed, TypeOK, diskVars, cacheVars
  <1>3. CASE FailRead(t)
    BY <1>3, FailTyped DEF FailRead
  <1>4. CASE ReadDescriptor(t)
    <2>1. job[t].b \in Bundles /\ loc[t] \in Location /\ cell[t] \in Cells
      BY <1>0, <1>4, JobArguments DEF ReadDescriptor, Initialising, Typed, TypeOK, Shape
    <2>2. PICK c \in Readable(job[t].b, loc[t]) :
              /\ desc' = [desc EXCEPT ![t] = c]
              /\ FreeCells([value EXCEPT ![cell[t]] = c])
      BY <1>4 DEF ReadDescriptor
    <2>3. c \in Content  BY <2>1, <2>2, ReadableType DEF Typed
    <2>4. c # None  BY <2>3, NoneIsNoRecord
    <2>5. /\ value' \in [Cells -> Content \cup {None}]
          /\ desc' \in [Tasks -> Content \cup {None}]
          /\ desc'[t] # None
          /\ \A u \in Tasks \ {t} : desc'[u] = desc[u]
      BY <2>1, <2>2, <2>3, <2>4 DEF FreeCells, Typed, TypeOK
    <2>6. initBy' \in [Cells -> Tasks \cup {None}]
          /\ cell' \in [Tasks -> Cells \cup {None}]
          /\ loc' \in [Tasks -> Location \cup {None}]
      BY <1>4 DEF ReadDescriptor, Typed, TypeOK
    <2>7. pc' \in [Tasks -> PC] /\ Shape'
      BY <1>4, <2>5 DEF ReadDescriptor, Initialising, Goto, Typed, TypeOK, Shape, PC
    <2>8. QED
      BY <1>4, <2>5, <2>6, <2>7 DEF ReadDescriptor, Typed, TypeOK, diskVars
  <1>5. CASE ReadBundle(t)
    BY <1>5, ReturnTyped DEF ReadBundle
  <1>6. QED  BY <1>1, <1>2, <1>3, <1>4, <1>5 DEF Read

LEMMA SwitchTyped ==
    ASSUME Typed, NEW t \in Tasks, Switch(t)
    PROVE  Typed'
  <1>0. job[t] \in Job \cup {NoJob}  BY DEF Typed, TypeOK
  <1>1. CASE CheckVersion(t)
    <2>1. CASE Finish(t)
      BY <1>1, <2>1, ReturnTyped DEF CheckVersion
    <2>2. CASE ~Finish(t)
      <3>1. pc' \in [Tasks -> PC] /\ Shape'
        BY <1>1, <2>2 DEF CheckVersion, Goto, Typed, TypeOK, Shape, PC
      <3>2. QED  BY <1>1, <2>2, <3>1 DEF CheckVersion, Typed, TypeOK, diskVars, cacheVars
    <2>3. QED  BY <2>1, <2>2
  <1>2. CASE SetVersion(t)
    <2>1. job[t].b \in Bundles /\ job[t].v \in Versions
      BY <1>0, <1>2, JobArguments DEF SetVersion, Typed, Shape
    <2>2. remote' \in Data
      BY <1>2, <2>1, SetCurrentType DEF SetVersion, Typed, TypeOK
    <2>3. window' \in [Bundles -> SUBSET (Location \cup {None})]
      BY <1>2, <2>1, <2>2, ResolvedType DEF SetVersion, Observe, Typed, TypeOK
    <2>4. QED
      BY <1>2, <2>2, <2>3, FinishTyped DEF SetVersion, Typed, TypeOK, diskVars, cacheVars
  <1>3. QED  BY <1>1, <1>2 DEF Switch

LEMMA InstallTyped ==
    ASSUME Typed, NEW t \in Tasks, Install(t)
    PROVE  Typed'
  <1>0. job[t] \in Job \cup {NoJob}  BY DEF Typed, TypeOK
  <1>1. job[t].b \in Bundles /\ job[t].v \in Versions /\ job[t].e \in Metas
    BY <1>0, JobArguments
    DEF Install, Create, Write, FailWrite, InsertVersion, Typed, Shape
  <1>2. ASSUME NEW f \in File, PutFile(job[t].b, job[t].v, f)
        PROVE  file' \in [Bundles -> [Versions -> File]]
    BY <1>1, <1>2 DEF PutFile, Typed, TypeOK
  <1>3. TornFile \in File /\ \A e \in Metas : WholeFile(e) \in File
    BY DEF TornFile, WholeFile, File
  <1>4. CASE Create(t)
    <2>1. file' \in [Bundles -> [Versions -> File]]
      BY <1>2, <1>3, <1>4 DEF Create
    <2>2. mix' \in [Bundles -> [Versions -> SUBSET Metas]]
      BY <1>1, <1>4 DEF Create, Typed, TypeOK
    <2>3. pc' \in [Tasks -> PC] /\ Shape'
      BY <1>4 DEF Create, Goto, Typed, TypeOK, Shape, PC
    <2>4. QED  BY <1>4, <2>1, <2>2, <2>3 DEF Create, Typed, TypeOK, cacheVars
  <1>5. CASE Write(t)
    <2>1. mix[job[t].b][job[t].v] \subseteq Metas
      BY <1>1 DEF Typed, TypeOK
    <2>2. file' \in [Bundles -> [Versions -> File]]
      BY <1>1, <1>2, <1>3, <1>5, <2>1 DEF Write
    <2>3. pc' \in [Tasks -> PC] /\ Shape'
      BY <1>5 DEF Write, Goto, Typed, TypeOK, Shape, PC
    <2>4. QED  BY <1>5, <2>2, <2>3 DEF Write, Typed, TypeOK, cacheVars
  <1>6. CASE FailWrite(t)
    <2>1. file[job[t].b][job[t].v] \in File
      BY <1>1 DEF Typed, TypeOK
    <2>2. file' \in [Bundles -> [Versions -> File]]
      BY <1>2, <1>3, <1>6, <2>1 DEF FailWrite, Typed, TypeOK
    <2>3. QED  BY <1>6, <2>2, FinishTyped DEF FailWrite, Typed, TypeOK, cacheVars
  <1>7. CASE InsertVersion(t)
    <2>1. remote' \in Data
      BY <1>1, <1>7, InsertEntryType DEF InsertVersion, Typed, TypeOK
    <2>2. window' \in [Bundles -> SUBSET (Location \cup {None})]
      BY <1>1, <1>7, <2>1, ResolvedType DEF InsertVersion, Observe, Typed, TypeOK
    <2>3. QED
      BY <1>7, <2>1, <2>2, FinishTyped DEF InsertVersion, Typed, TypeOK, diskVars, cacheVars
  <1>8. QED  BY <1>4, <1>5, <1>6, <1>7 DEF Install

LEMMA OtherTyped ==
    ASSUME Typed, Restart \/ (\E b \in Bundles : Unload(b)) \/ \E t \in Tasks : Begin(t)
    PROVE  Typed'
  <1>1. CASE Restart
    <2>1. window' \in [Bundles -> SUBSET (Location \cup {None})]
      BY <1>1, ResolvedType DEF Restart, Typed, TypeOK
    <2>2. /\ cellOf' \in [Bundles -> Cells \cup {None}]
          /\ value' \in [Cells -> Content \cup {None}]
          /\ initBy' \in [Cells -> Tasks \cup {None}]
          /\ pc' \in [Tasks -> PC]
          /\ job' \in [Tasks -> Job \cup {NoJob}]
          /\ cell' \in [Tasks -> Cells \cup {None}]
          /\ loc' \in [Tasks -> Location \cup {None}]
          /\ desc' \in [Tasks -> Content \cup {None}]
          /\ body' \in [Tasks -> Content \cup {None}]
      BY <1>1 DEF Restart, PC
    <2>3. Shape'  BY <1>1 DEF Restart, Shape
    <2>4. QED  BY <1>1, <2>1, <2>2, <2>3 DEF Restart, Typed, TypeOK, diskVars
  <1>2. ASSUME NEW b \in Bundles, Unload(b)
        PROVE  Typed'
    <2>1. window' \in [Bundles -> SUBSET (Location \cup {None})]
      BY <1>2, ResolvedType DEF Unload, Typed, TypeOK
    <2>2. cellOf' \in [Bundles -> Cells \cup {None}]
          /\ value' \in [Cells -> Content \cup {None}]
      BY <1>2 DEF Unload, FreeCells, Typed, TypeOK
    <2>3. Shape'  BY <1>2 DEF Unload, Typed, Shape, taskVars
    <2>4. QED  BY <1>2, <2>1, <2>2, <2>3 DEF Unload, Typed, TypeOK, diskVars, taskVars
  <1>3. ASSUME NEW t \in Tasks, Begin(t)
        PROVE  Typed'
    <2>1. PICK j \in Job : job' = [job EXCEPT ![t] = j] /\ pc' = [pc EXCEPT ![t] = FirstPC(j.op)]
      BY <1>3 DEF Begin
    <2>2. /\ j.op \in {"get", "fetch", "update", "write"}
          /\ FirstPC(j.op) = CASE j.op = "get" -> "lookup" [] j.op = "fetch" -> "resolve"
                               [] j.op = "update" -> "check" [] j.op = "write" -> "create"
      BY DEF Job, FirstPC
    <2>3. pc' \in [Tasks -> PC] /\ job' \in [Tasks -> Job \cup {NoJob}]
      BY <2>1, <2>2 DEF Typed, TypeOK, PC
    <2>4. Shape'  BY <1>3, <2>1, <2>2 DEF Begin, Typed, TypeOK, Shape
    <2>5. QED
      BY <1>3, <2>3, <2>4 DEF Begin, Typed, TypeOK, diskVars, cacheVars
  <1>4. QED  BY <1>1, <1>2, <1>3

LEMMA NextTyped == Typed /\ [Next]_vars => Typed'
  <1>1. CASE UNCHANGED vars
    BY <1>1 DEF vars, diskVars, cacheVars, taskVars, Typed, TypeOK, Shape
  <1>2. QED
    BY <1>1, ServeTyped, ReadTyped, SwitchTyped, InstallTyped, OtherTyped DEF Next, Progress

(***************************************************************************)
(* Every reachable state of the source, its files, its descriptor cache    *)
(* and its callers is well typed.                                          *)
(***************************************************************************)
THEOREM TypeCorrect == Spec => []TypeOK
  <1>1. Typed => TypeOK  BY DEF Typed
  <1>2. QED  BY <1>1, InitTyped, NextTyped, PTL DEF Spec
-----------------------------------------------------------------------------
(***************************************************************************)
(* The manifest.  update_version looks the version up and sets it later:   *)
(* CurrentInstalled needs the version still to be listed in between, which *)
(* holds because no operation of the source takes a version off the list.  *)
(***************************************************************************)
Manifests ==
    /\ WellFormed(saved)
    /\ WellFormed(remote)
    /\ \A t \in Tasks : pc[t] = "set" => ContainsEntry(remote, job[t].b, job[t].v)

(* A step of a task that neither checks, sets nor inserts a version. *)
LEMMA QuietStep ==
    ASSUME Typed, NEW t \in Tasks,
           Begin(t) \/ Await(t) \/ Read(t) \/ Serve(t) \/ Create(t) \/ Write(t) \/ FailWrite(t)
    PROVE  /\ UNCHANGED <<saved, remote>>
           /\ \A u \in Tasks : pc'[u] = "set" => pc[u] = "set" /\ job'[u] = job[u]
  <1>1. CASE Begin(t)
    <2>1. PICK j \in Job : pc' = [pc EXCEPT ![t] = FirstPC(j.op)] /\ job' = [job EXCEPT ![t] = j]
      BY <1>1 DEF Begin
    <2>2. FirstPC(j.op) \in {"lookup", "resolve", "check", "create"}
      BY DEF Job, FirstPC
    <2>3. QED  BY <1>1, <2>1, <2>2 DEF Begin, Typed, TypeOK
  <1>2. CASE Await(t)
    BY <1>2 DEF Await, TakeValue, BeginInit, Goto, Typed, TypeOK
  <1>3. CASE Read(t)
    BY <1>3 DEF Read, Resolve, Open, FailRead, ReadDescriptor, ReadBundle, Fail, Finish,
                Goto, Typed, TypeOK
  <1>4. CASE Serve(t)
    BY <1>4 DEF Serve, RejectMethod, FastPath, EnterCell, AnswerFromIndex, OpenForBody,
                ReadBody, Answer, Finish, Goto, Typed, TypeOK
  <1>5. CASE Create(t) \/ Write(t) \/ FailWrite(t)
    BY <1>5 DEF Create, Write, FailWrite, Finish, Goto, Typed, TypeOK
  <1>6. QED  BY <1>1, <1>2, <1>3, <1>4, <1>5

LEMMA InitManifests == Init => Manifests
  BY DEF Init, Manifests

LEMMA NextManifests == Typed /\ Manifests /\ [Next]_vars => Manifests'
  <1> SUFFICES ASSUME Typed, Manifests, [Next]_vars PROVE Manifests'  OBVIOUS
  <1>1. ASSUME NEW t \in Tasks,
               Begin(t) \/ Await(t) \/ Read(t) \/ Serve(t) \/ Create(t) \/ Write(t) \/ FailWrite(t)
        PROVE  Manifests'
    BY <1>1, QuietStep DEF Manifests
  <1>2. ASSUME NEW t \in Tasks, CheckVersion(t)
        PROVE  Manifests'
    BY <1>2 DEF CheckVersion, Finish, Goto, Manifests, Typed, TypeOK
  <1>3. ASSUME NEW t \in Tasks, SetVersion(t)
        PROVE  Manifests'
    <2>1. job[t].b \in Bundles /\ job[t].v \in Versions
      BY <1>3, JobArguments DEF SetVersion, Typed, TypeOK, Shape
    <2>2. WellFormed(remote')
      BY <1>3, <2>1, SetCurrentWellFormed DEF SetVersion, Manifests, Typed, TypeOK
    <2>3. \A c \in Bundles, w \in Versions :
             ContainsEntry(remote', c, w) <=> ContainsEntry(remote, c, w)
      BY <1>3, <2>1, SetCurrentKeeps DEF SetVersion, Typed, TypeOK
    <2>4. ASSUME NEW u \in Tasks, pc'[u] = "set"
          PROVE  ContainsEntry(remote', job'[u].b, job'[u].v)
      <3>1. pc[u] = "set" /\ job'[u] = job[u]
        BY <1>3, <2>4 DEF SetVersion, Finish, Goto, Typed, TypeOK
      <3>2. job[u].b \in Bundles /\ job[u].v \in Versions
        BY <3>1, JobArguments DEF Typed, TypeOK, Shape
      <3>3. QED  BY <2>3, <3>1, <3>2 DEF Manifests
    <2>5. QED  BY <1>3, <2>2, <2>4 DEF SetVersion, Manifests
  <1>4. ASSUME NEW t \in Tasks, InsertVersion(t)
        PROVE  Manifests'
    <2>1. job[t].b \in Bundles /\ job[t].v \in Versions /\ job[t].e \in Metas
      BY <1>4, JobArguments DEF InsertVersion, Typed, TypeOK, Shape
    <2>2. WellFormed(remote')
      BY <1>4, <2>1, InsertEntryWellFormed DEF InsertVersion, Manifests, Typed, TypeOK
    <2>3. \A c \in Bundles, w \in Versions :
             ContainsEntry(remote, c, w) => ContainsEntry(remote', c, w)
      BY <1>4, <2>1, InsertEntryLists DEF InsertVersion, Typed, TypeOK
    <2>4. ASSUME NEW u \in Tasks, pc'[u] = "set"
          PROVE  ContainsEntry(remote', job'[u].b, job'[u].v)
      <3>1. pc[u] = "set" /\ job'[u] = job[u]
        BY <1>4, <2>4 DEF InsertVersion, Finish, Goto, Typed, TypeOK
      <3>2. job[u].b \in Bundles /\ job[u].v \in Versions
        BY <3>1, JobArguments DEF Typed, TypeOK, Shape
      <3>3. QED  BY <2>3, <3>1, <3>2 DEF Manifests
    <2>5. QED  BY <1>4, <2>2, <2>4 DEF InsertVersion, Manifests
  <1>5. CASE Restart
    BY <1>5 DEF Restart, Manifests
  <1>6. ASSUME NEW b \in Bundles, Unload(b)
        PROVE  Manifests'
    BY <1>6 DEF Unload, Manifests, taskVars
  <1>7. CASE UNCHANGED vars
    BY <1>7 DEF vars, taskVars, Manifests
  <1>8. QED
    BY <1>1, <1>2, <1>3, <1>4, <1>5, <1>6, <1>7 DEF Next, Progress, Switch, Install

(***************************************************************************)
(* The current version of the remote manifest is always an installed one,  *)
(* although update_version checks and sets it in two steps.                *)
(***************************************************************************)
THEOREM CurrentAlwaysInstalled == Spec => []CurrentInstalled
  <1>1. Manifests => CurrentInstalled  BY DEF Manifests, WellFormed, CurrentInstalled
  <1>2. QED
    BY <1>1, InitTyped, NextTyped, InitManifests, NextManifests, PTL DEF Spec
-----------------------------------------------------------------------------
(***************************************************************************)
(* The files.  write_remote_bundle creates the file first and inserts the  *)
(* entry last, and no operation deletes a file.                            *)
(***************************************************************************)
Present(b, v) == file[b][v].state # "absent"

Files ==
    /\ \A b \in Bundles, v \in Versions :
         ContainsEntry(remote, b, v) \/ ContainsEntry(saved, b, v) => Present(b, v)
    /\ \A t \in Tasks : pc[t] \in {"write", "insert"} => Present(job[t].b, job[t].v)
    /\ \A t \in Tasks : pc[t] = "open" => Exists(job[t].b, loc[t])

LEMMA InitFiles == Init => Files
  <1> SUFFICES ASSUME Init PROVE Files  OBVIOUS
  <1>1. \A b \in Bundles, v \in Versions :
           ContainsEntry(saved, b, v) => Present(b, v)
    BY DEF Init, Present, WholeFile
  <1>2. QED  BY <1>1 DEF Init, Files

(* Once a file exists it stays, whole or torn. *)
LEMMA FilesStay ==
    ASSUME Typed, [Next]_vars, NEW b \in Bundles, NEW v \in Versions, Present(b, v)
    PROVE  Present(b, v)'
  <1>1. ASSUME NEW t \in Tasks, Create(t) \/ Write(t) \/ FailWrite(t)
        PROVE  Present(b, v)'
    <2>1. job[t].b \in Bundles /\ job[t].v \in Versions
      BY <1>1, JobArguments DEF Create, Write, FailWrite, Typed, TypeOK, Shape
    <2>2. ASSUME NEW f, PutFile(job[t].b, job[t].v, f),
                 f.state # "absent" \/ f = file[job[t].b][job[t].v]
          PROVE  Present(b, v)'
      BY <2>1, <2>2 DEF PutFile, Present, Typed, TypeOK
    <2>3. TornFile.state # "absent" /\ \A e : WholeFile(e).state # "absent"
      BY DEF TornFile, WholeFile
    <2>4. CASE Create(t)
      BY <2>2, <2>3, <2>4 DEF Create
    <2>5. CASE Write(t)
      BY <2>2, <2>3, <2>5 DEF Write
    <2>6. CASE FailWrite(t)
      BY <2>2, <2>3, <2>6 DEF FailWrite, Present
    <2>7. QED  BY <1>1, <2>4, <2>5, <2>6
  <1>2. ASSUME NEW t \in Tasks,
               Begin(t) \/ Await(t) \/ Read(t) \/ Serve(t) \/ Switch(t) \/ InsertVersion(t)
        PROVE  UNCHANGED file
    BY <1>2 DEF Begin, Await, TakeValue, BeginInit, Read, Resolve, Open, FailRead,
                ReadDescriptor, ReadBundle, Fail, Serve, RejectMethod, FastPath, EnterCell,
                AnswerFromIndex, OpenForBody, ReadBody, Answer, Switch, CheckVersion,
                SetVersion, InsertVersion, diskVars
  <1>3. Restart \/ (\E c \in Bundles : Unload(c)) \/ UNCHANGED vars => UNCHANGED file
    BY DEF Restart, Unload, vars, diskVars
  <1>4. QED
    BY <1>1, <1>2, <1>3 DEF Next, Progress, Install, Present

(* A listing comes from manifest.json or from a download that is complete. *)
LEMMA ListingOrigin ==
    ASSUME Typed, [Next]_vars, NEW b \in Bundles, NEW v \in Versions,
           ContainsEntry(remote', b, v)
    PROVE  \/ ContainsEntry(remote, b, v) \/ ContainsEntry(saved, b, v)
           \/ \E t \in Tasks : pc[t] = "insert" /\ job[t].b = b /\ job[t].v = v
  <1>1. ASSUME NEW t \in Tasks,
               Begin(t) \/ Await(t) \/ Read(t) \/ Serve(t) \/ Create(t) \/ Write(t) \/ FailWrite(t)
               \/ CheckVersion(t)
        PROVE  UNCHANGED remote
    BY <1>1, QuietStep DEF CheckVersion
  <1>2. ASSUME NEW t \in Tasks, SetVersion(t)
        PROVE  ContainsEntry(remote, b, v)
    <2>1. job[t].b \in Bundles /\ job[t].v \in Versions
      BY <1>2, JobArguments DEF SetVersion, Typed, TypeOK, Shape
    <2>2. QED  BY <1>2, <2>1, SetCurrentKeeps DEF SetVersion, Typed, TypeOK
  <1>3. ASSUME NEW t \in Tasks, InsertVersion(t)
        PROVE  ContainsEntry(remote, b, v) \/ (pc[t] = "insert" /\ job[t].b = b /\ job[t].v = v)
    <2>1. job[t].b \in Bundles /\ job[t].v \in Versions /\ job[t].e \in Metas
      BY <1>3, JobArguments DEF InsertVersion, Typed, TypeOK, Shape
    <2>2. QED  BY <1>3, <2>1, InsertEntryLists DEF InsertVersion, Typed, TypeOK
  <1>4. Restart => remote' = saved  BY DEF Restart
  <1>5. (\E c \in Bundles : Unload(c)) \/ UNCHANGED vars => UNCHANGED remote
    BY DEF Unload, vars
  <1>6. QED
    BY <1>1, <1>2, <1>3, <1>4, <1>5 DEF Next, Progress, Switch, Install

LEMMA SavedConstant == [Next]_vars => UNCHANGED saved
  BY DEF Next, Restart, Unload, Begin, Await, TakeValue, BeginInit, Progress, Read, Resolve,
         Open, FailRead, ReadDescriptor, ReadBundle, Fail, Serve, RejectMethod, FastPath,
         EnterCell, AnswerFromIndex, OpenForBody, ReadBody, Answer, Switch, CheckVersion,
         SetVersion, Install, Create, Write, FailWrite, InsertVersion, vars

(* How a task comes to hold a file it writes, or a path it will open. *)
LEMMA Arrival ==
    ASSUME Typed, [Next]_vars, NEW u \in Tasks
    PROVE  /\ pc'[u] \in {"write", "insert"} =>
                 job'[u] = job[u] /\ (pc[u] \in {"write", "insert"} \/ Create(u))
           /\ pc'[u] = "open" =>
                 \/ pc[u] = "open" /\ UNCHANGED <<job[u], loc[u]>>
                 \/ Resolve(u) /\ loc'[u] = Resolved(remote, job[u].b) /\ job'[u] = job[u]
  <1>1. ASSUME NEW t \in Tasks, Begin(t)
        PROVE  pc'[u] \in {"write", "insert", "open"} => UNCHANGED <<pc[u], job[u], loc[u]>>
    <2>1. PICK j \in Job : pc' = [pc EXCEPT ![t] = FirstPC(j.op)] /\ job' = [job EXCEPT ![t] = j]
      BY <1>1 DEF Begin
    <2>2. FirstPC(j.op) \in {"lookup", "resolve", "check", "create"}
      BY DEF Job, FirstPC
    <2>3. QED  BY <1>1, <2>1, <2>2 DEF Begin, Typed, TypeOK
  <1>2. ASSUME NEW t \in Tasks, Resolve(t)
        PROVE  /\ pc'[u] \in {"write", "insert"} => UNCHANGED <<pc[u], job[u]>>
               /\ pc'[u] = "open" =>
                     \/ pc[u] = "open" /\ UNCHANGED <<job[u], loc[u]>>
                     \/ u = t /\ loc'[u] = Resolved(remote, job[u].b) /\ job'[u] = job[u]
    BY <1>2 DEF Resolve, Fail, Finish, Goto, Typed, TypeOK
  <1>3. ASSUME NEW t \in Tasks, Create(t)
        PROVE  /\ pc'[u] \in {"write", "insert"} => job'[u] = job[u] /\ (u = t \/ pc'[u] = pc[u])
               /\ pc'[u] = "open" => UNCHANGED <<pc[u], job[u], loc[u]>>
    BY <1>3 DEF Create, Goto, Typed, TypeOK
  <1>4. ASSUME NEW t \in Tasks,
               \/ Await(t) \/ Open(t) \/ FailRead(t) \/ ReadDescriptor(t) \/ ReadBundle(t)
               \/ Serve(t) \/ Switch(t) \/ FailWrite(t) \/ InsertVersion(t)
        PROVE  pc'[u] \in {"write", "insert", "open"} => UNCHANGED <<pc[u], job[u], loc[u]>>
    BY <1>4 DEF Await, TakeValue, BeginInit, Open, FailRead, ReadDescriptor, ReadBundle, Fail,
                Serve, RejectMethod, FastPath, EnterCell, AnswerFromIndex, OpenForBody,
                ReadBody, Answer, Switch, CheckVersion, SetVersion, FailWrite, InsertVersion,
                Finish, Goto, Typed, TypeOK
  <1>5. ASSUME NEW t \in Tasks, Write(t)
        PROVE  /\ pc'[u] \in {"write", "insert"} => job'[u] = job[u] /\ pc[u] \in {"write", "insert"}
               /\ pc'[u] = "open" => UNCHANGED <<pc[u], job[u], loc[u]>>
    BY <1>5 DEF Write, Goto, Typed, TypeOK
  <1>6. CASE Restart
    BY <1>6 DEF Restart
  <1>7. CASE (\E b \in Bundles : Unload(b)) \/ UNCHANGED vars
    BY <1>7 DEF Unload, vars, taskVars
  <1>8. QED
    BY <1>1, <1>2, <1>3, <1>4, <1>5, <1>6, <1>7 DEF Next, Progress, Read, Install

LEMMA NextFiles == Typed /\ Manifests /\ Files /\ [Next]_vars => Files'
  <1> SUFFICES ASSUME Typed, Manifests, Files, [Next]_vars PROVE Files'  OBVIOUS
  <1>1. ASSUME NEW b \in Bundles, NEW v \in Versions,
               ContainsEntry(remote', b, v) \/ ContainsEntry(saved', b, v)
        PROVE  Present(b, v)'
    <2>1. Present(b, v)  BY <1>1, ListingOrigin, SavedConstant DEF Files
    <2>2. QED  BY <2>1, FilesStay
  <1>2. ASSUME NEW t \in Tasks, pc'[t] \in {"write", "insert"}
        PROVE  Present(job[t].b, job[t].v)' 
    <2>1. job'[t] = job[t] /\ (pc[t] \in {"write", "insert"} \/ Create(t))
      BY <1>2, Arrival
    <2>2. job[t].b \in Bundles /\ job[t].v \in Versions
      BY <2>1, JobArguments DEF Create, Typed, TypeOK, Shape
    <2>3. CASE pc[t] \in {"write", "insert"}
      BY <2>1, <2>2, <2>3, FilesStay DEF Files, Present
    <2>4. CASE Create(t)
      BY <2>1, <2>2, <2>4 DEF Create, PutFile, TornFile, Present, Typed, TypeOK
    <2>5. QED  BY <2>1, <2>3, <2>4
  <1>3. ASSUME NEW t \in Tasks, pc'[t] = "open"
        PROVE  Exists(job[t].b, loc[t])'
    <2>1. CASE pc[t] = "open" /\ UNCHANGED <<job[t], loc[t]>>
      <3>1. job[t].b \in Bundles /\ loc[t] \in Location
        BY <2>1, JobArguments DEF Typed, TypeOK, Shape
      <3>2. Exists(job[t].b, loc[t])  BY <2>1 DEF Files
      <3>3. QED  BY <2>1, <3>1, <3>2, FilesStay DEF Exists, Present, Location
    <2>2. CASE Resolve(t) /\ loc'[t] = Resolved(remote, job[t].b) /\ job'[t] = job[t]
      <3>1. job[t].b \in Bundles
        BY <2>2, JobArguments DEF Resolve, Typed, TypeOK, Shape
      <3>2. CASE HasEntry(remote, job[t].b)
        <4>1. loc'[t] = [kind |-> "remote", v |-> remote[job[t].b].current]
          BY <2>2, <3>2 DEF Resolved, CurrentVersion
        <4>2. remote[job[t].b].current \in Versions
          BY <3>1, <3>2 DEF HasEntry, Typed, TypeOK, Data, Entry
        <4>3. Present(job[t].b, remote[job[t].b].current)
          BY <3>1, <3>2, <4>2 DEF Manifests, WellFormed, CurrentIsListed, Files
        <4>4. QED  BY <2>2, <3>1, <4>1, <4>2, <4>3, FilesStay DEF Exists, Present
      <3>3. CASE ~HasEntry(remote, job[t].b)
        <4>1. loc'[t] # None
          BY <1>3, NextTyped DEF Typed, Shape
        <4>2. QED  BY <2>2, <3>3, <4>1 DEF Resolved, Exists
      <3>4. QED  BY <3>2, <3>3
    <2>3. QED  BY <1>3, <2>1, <2>2, Arrival
  <1>4. QED  BY <1>1, <1>2, <1>3 DEF Files

(***************************************************************************)
(* A listed version has a file, and a task that resolved a version to a    *)
(* path finds it there: switching, downloading and restarting never lead a *)
(* reader to a file that does not exist.                                   *)
(***************************************************************************)
THEOREM ResolvedFileAlwaysExists == Spec => []ResolvedFileExists
  <1>1. Files => ResolvedFileExists  BY DEF Files, Present, ResolvedFileExists
  <1>2. QED
    BY <1>1, InitTyped, NextTyped, InitManifests, NextManifests, InitFiles, NextFiles, PTL
    DEF Spec

(***************************************************************************)
(* BundleSource implements VersionStore: installing is what the insertion  *)
(* of the manifest entry does, activating is what the second half of       *)
(* update_version does, and every other step stutters.                     *)
(***************************************************************************)

StoreState == <<InstalledOf(remote), CurrentOf(remote),
                [installed |-> InstalledOf(saved), current |-> CurrentOf(saved)]>>

LEMMA InitRefines == Init => Store!Init
  <1> SUFFICES ASSUME Init PROVE Store!Init  OBVIOUS
  <1>1. saved \in Data /\ remote = saved /\ WellFormed(saved)  BY DEF Init
  <1>2. InstalledOf(remote) \in [Bundles -> SUBSET Versions]
    BY DEF InstalledOf, Listed
  <1>3. CurrentOf(remote) \in [Bundles -> Versions \cup {None}]
    BY <1>1 DEF CurrentOf, CurrentVersion, Data, Entry
  <1>4. Store!Consistent(InstalledOf(remote), CurrentOf(remote))
    <2> SUFFICES ASSUME NEW b \in Bundles
                 PROVE  IF remote[b].current = None THEN Listed(remote, b) = {}
                        ELSE remote[b].current \in Listed(remote, b)
      BY DEF Store!Consistent, InstalledOf, CurrentOf, CurrentVersion
    <2>1. remote[b].current \in Versions \cup {None}  BY <1>1 DEF Data, Entry
    <2>2. CASE HasEntry(remote, b)
      BY <1>1, <2>1, <2>2
      DEF WellFormed, CurrentIsListed, HasEntry, ContainsEntry, Listed
    <2>3. CASE ~HasEntry(remote, b)
      BY <1>1, <2>3 DEF WellFormed, AbsentListsNothing, HasEntry
    <2>4. QED  BY <2>2, <2>3
  <1>5. QED  BY <1>1, <1>2, <1>3, <1>4 DEF Store!Init

(* Inserting an entry installs the version, or stutters if it is listed. *)
LEMMA InsertRefines ==
    ASSUME Typed, Manifests, NEW t \in Tasks, InsertVersion(t)
    PROVE  Store!Next \/ UNCHANGED StoreState
  <1> DEFINE b == job[t].b
             v == job[t].v
  <1>1. b \in Bundles /\ v \in Versions /\ job[t].e \in Metas
    BY JobArguments DEF InsertVersion, Typed, TypeOK, Shape
  <1>2. remote \in Data /\ UNCHANGED saved /\ remote' = InsertEntry(remote, b, v, job[t].e)
    BY DEF InsertVersion, Typed, TypeOK
  <1>3. CASE ContainsEntry(remote, b, v)
    <2>1. UNCHANGED remote  BY <1>1, <1>2, <1>3, InsertEntryLists
    <2>2. QED  BY <1>2, <2>1 DEF StoreState
  <1>4. CASE ~ContainsEntry(remote, b, v)
    <2>1. \A c \in Bundles : Listed(remote', c) =
              IF c = b THEN Listed(remote, c) \cup {v} ELSE Listed(remote, c)
      <3>1. \A c \in Bundles, w \in Versions :
               ContainsEntry(remote', c, w) <=> ContainsEntry(remote, c, w) \/ (c = b /\ w = v)
        BY <1>1, <1>2, InsertEntryLists
      <3>2. QED  BY <1>1, <3>1 DEF Listed, ContainsEntry
    <2>2. \A c \in Bundles : remote'[c].current =
              IF c = b /\ remote[b].current = None THEN v ELSE remote[c].current
      BY <1>1, <1>2, <1>4, InsertEntryLists
    <2>3. InstalledOf(remote)' = [InstalledOf(remote) EXCEPT ![b] = @ \cup {v}]
      BY <1>1, <2>1 DEF InstalledOf
    <2>4. CurrentOf(remote)' = [CurrentOf(remote) EXCEPT ![b] = IF @ = None THEN v ELSE @]
      BY <1>1, <2>2 DEF CurrentOf, CurrentVersion
    <2>5. Store!Install(b, v)
      BY <1>2, <2>3, <2>4 DEF Store!Install
    <2>6. QED  BY <1>1, <2>5 DEF Store!Next
  <1>5. QED  BY <1>3, <1>4

(* Setting the current version activates a version that is installed. *)
LEMMA SetRefines ==
    ASSUME Typed, Manifests, NEW t \in Tasks, SetVersion(t)
    PROVE  Store!Next
  <1> DEFINE b == job[t].b
             v == job[t].v
  <1>1. b \in Bundles /\ v \in Versions
    BY JobArguments DEF SetVersion, Typed, TypeOK, Shape
  <1>2. remote \in Data /\ UNCHANGED saved /\ remote' = SetCurrent(remote, b, v)
    BY DEF SetVersion, Typed, TypeOK
  <1>3. ContainsEntry(remote, b, v)  BY DEF SetVersion, Manifests
  <1>4. HasEntry(remote, b)
    BY <1>1, <1>3 DEF Manifests, WellFormed, AbsentListsNothing, Listed, ContainsEntry
  <1>5. InstalledOf(remote)' = InstalledOf(remote)
    <2>1. \A c \in Bundles, w \in Versions :
             ContainsEntry(remote', c, w) <=> ContainsEntry(remote, c, w)
      BY <1>1, <1>2, SetCurrentKeeps
    <2>2. QED  BY <2>1 DEF InstalledOf, Listed, ContainsEntry
  <1>6. CurrentOf(remote)' = [CurrentOf(remote) EXCEPT ![b] = v]
    <2>1. \A c \in Bundles : remote'[c].current = IF c = b THEN v ELSE remote[c].current
      BY <1>1, <1>2, <1>4, SetCurrentKeeps
    <2>2. QED  BY <1>1, <2>1 DEF CurrentOf, CurrentVersion
  <1>7. v \in InstalledOf(remote)[b]
    BY <1>1, <1>3 DEF InstalledOf, Listed, ContainsEntry
  <1>8. Store!Activate(b, v)
    BY <1>2, <1>5, <1>6, <1>7 DEF Store!Activate
  <1>9. QED  BY <1>1, <1>8 DEF Store!Next

LEMMA NextRefines ==
    Typed /\ Manifests /\ [Next]_vars => Store!Next \/ UNCHANGED StoreState
  <1> SUFFICES ASSUME Typed, Manifests, [Next]_vars
               PROVE  Store!Next \/ UNCHANGED StoreState
    OBVIOUS
  <1>1. ASSUME UNCHANGED <<saved, remote>>
        PROVE  UNCHANGED StoreState
    BY <1>1 DEF StoreState
  <1>2. ASSUME NEW t \in Tasks,
               Begin(t) \/ Await(t) \/ Read(t) \/ Serve(t) \/ Create(t) \/ Write(t) \/ FailWrite(t)
               \/ CheckVersion(t)
        PROVE  UNCHANGED <<saved, remote>>
    BY <1>2, QuietStep DEF CheckVersion
  <1>3. (\E b \in Bundles : Unload(b)) \/ UNCHANGED vars => UNCHANGED <<saved, remote>>
    BY DEF Unload, vars
  <1>4. Restart => Store!Next
    BY DEF Restart, Store!Next, Store!Restart
  <1>5. QED
    BY <1>1, <1>2, <1>3, <1>4, InsertRefines, SetRefines DEF Next, Progress, Switch, Install

(***************************************************************************)
(* Every behaviour of the source, seen as installed and current versions,  *)
(* is one of the abstract store.                                           *)
(***************************************************************************)
THEOREM SourceImplementsStore == Spec => ImplementsStore
  <1>1. Store!Next \/ UNCHANGED StoreState <=> [Store!Next]_(Store!vars)
    BY DEF StoreState, Store!vars
  <1>2. QED
    BY <1>1, InitTyped, NextTyped, InitManifests, NextManifests, InitRefines, NextRefines, PTL
    DEF Spec, ImplementsStore, Store!Spec

-----------------------------------------------------------------------------
(***************************************************************************)
(* The descriptor cache: it is single flight, and what it holds was        *)
(* current since the last unload.                                          *)
(***************************************************************************)

(* Freeing a cell empties it; every other cell keeps what it is given. *)
LEMMA FreeCellsKeeps ==
    ASSUME NEW val, FreeCells(val), NEW c \in Cells
    PROVE  value'[c] \in {None, val[c]}
  BY DEF FreeCells

(* What a step does to another task, and to the value and permit of a cell. *)
Undisturbed(u) == UNCHANGED <<pc[u], job[u], cell[u], loc[u]>>

LEMMA OwnStep ==
    ASSUME Typed, NEW t \in Tasks, NEW u \in Tasks, u # t,
           Begin(t) \/ Await(t) \/ Progress(t)
    PROVE  Undisturbed(u)
  <1>1. CASE Begin(t)
    BY <1>1 DEF Begin, Undisturbed, Typed, TypeOK
  <1>2. CASE Await(t)
    BY <1>2 DEF Await, TakeValue, BeginInit, Goto, Undisturbed, Typed, TypeOK
  <1>3. CASE Read(t)
    BY <1>3 DEF Read, Resolve, Open, FailRead, ReadDescriptor, ReadBundle, Fail, Finish, Goto,
                Undisturbed, Typed, TypeOK
  <1>4. CASE Serve(t)
    <2>1. ASSUME EnterCell(t)
          PROVE  Undisturbed(u)
      BY <2>1 DEF EnterCell, Goto, Undisturbed, Typed, TypeOK
    <2>2. QED
      BY <1>4, <2>1 DEF Serve, RejectMethod, FastPath, AnswerFromIndex, OpenForBody, ReadBody,
                Answer, Finish, Goto, Undisturbed, Typed, TypeOK
  <1>5. CASE Switch(t) \/ Install(t)
    BY <1>5 DEF Switch, CheckVersion, SetVersion, Install, Create, Write, FailWrite,
                InsertVersion, Finish, Goto, Undisturbed, Typed, TypeOK
  <1>6. QED  BY <1>1, <1>2, <1>3, <1>4, <1>5 DEF Progress

(* Only load_descriptor touches the cells. *)
LEMMA NoCellTouched ==
    ASSUME NEW t \in Tasks,
           \/ Begin(t) \/ RejectMethod(t) \/ FastPath(t) \/ Open(t) \/ ReadBundle(t)
           \/ AnswerFromIndex(t) \/ OpenForBody(t) \/ ReadBody(t) \/ Answer(t)
           \/ Switch(t) \/ Install(t)
    PROVE  UNCHANGED cacheVars
  BY DEF Begin, RejectMethod, FastPath, Open, ReadBundle, AnswerFromIndex, OpenForBody,
         ReadBody, Answer, Switch, CheckVersion, SetVersion, Install, Create, Write, FailWrite,
         InsertVersion

(* Those steps never start an initialiser. *)
LEMMA NoInitialiserStarts ==
    ASSUME Typed, NEW t \in Tasks, Initialising(t)',
           \/ Begin(t) \/ RejectMethod(t) \/ FastPath(t) \/ Open(t) \/ ReadBundle(t)
           \/ AnswerFromIndex(t) \/ OpenForBody(t) \/ ReadBody(t) \/ Answer(t)
           \/ Switch(t) \/ Install(t)
    PROVE  Open(t) /\ Initialising(t) /\ cell'[t] = cell[t]
  <1>1. CASE Begin(t)
    BY <1>1 DEF Begin, Initialising, Typed, TypeOK, Shape
  <1>2. CASE RejectMethod(t) \/ ReadBundle(t) \/ AnswerFromIndex(t) \/ Answer(t)
    BY <1>2 DEF RejectMethod, ReadBundle, AnswerFromIndex, Answer, Finish, Goto, Initialising,
                Typed, TypeOK
  <1>3. CASE Open(t)
    BY <1>3 DEF Open, Goto, Initialising
  <1>4. CASE FastPath(t) \/ OpenForBody(t) \/ ReadBody(t)
    BY <1>4 DEF FastPath, OpenForBody, ReadBody, Finish, Goto, Initialising, Typed, TypeOK, Shape
  <1>5. CASE Switch(t) \/ Install(t)
    BY <1>5 DEF Switch, CheckVersion, SetVersion, Install, Create, Write, FailWrite,
                InsertVersion, Finish, Goto, Initialising, Typed, TypeOK
  <1>6. QED  BY <1>1, <1>2, <1>3, <1>4, <1>5

LEMMA InitSingleFlight == Init => SingleFlight
  BY DEF Init, SingleFlight, Initialising

LEMMA NextSingleFlight == Typed /\ SingleFlight /\ [Next]_vars => SingleFlight'
  <1> SUFFICES ASSUME Typed, SingleFlight, [Next]_vars PROVE SingleFlight'  OBVIOUS
  <1>0. Typed'  BY NextTyped
  <1>1. ASSUME NEW t \in Tasks,
               \/ Begin(t) \/ RejectMethod(t) \/ FastPath(t) \/ Open(t) \/ ReadBundle(t)
               \/ AnswerFromIndex(t) \/ OpenForBody(t) \/ ReadBody(t) \/ Answer(t)
               \/ Switch(t) \/ Install(t)
        PROVE  SingleFlight'
    <2>1. UNCHANGED <<value, initBy>>  BY <1>1, NoCellTouched DEF cacheVars
    <2>2. ASSUME NEW u \in Tasks, Initialising(u)'
          PROVE  initBy'[cell'[u]] = u /\ value'[cell'[u]] = None
      <3>1. Initialising(u) /\ cell'[u] = cell[u]
        <4>1. CASE u = t  BY <1>1, <2>2, <4>1, NoInitialiserStarts
        <4>2. CASE u # t
          BY <1>1, <2>2, <4>2, OwnStep DEF Progress, Read, Serve, Undisturbed, Initialising
        <4>3. QED  BY <4>1, <4>2
      <3>2. QED  BY <2>1, <3>1 DEF SingleFlight
    <2>3. QED  BY <2>2 DEF SingleFlight
  <1>2. ASSUME NEW t \in Tasks, EnterCell(t)
        PROVE  SingleFlight'
    <2>1. ASSUME NEW u \in Tasks, Initialising(u)'
          PROVE  initBy'[cell'[u]] = u /\ value'[cell'[u]] = None
      <3>1. u # t  BY <1>2, <2>1 DEF EnterCell, Goto, Initialising, Typed, TypeOK
      <3>2. Initialising(u) /\ cell'[u] = cell[u]
        BY <1>2, <2>1, <3>1, OwnStep DEF Progress, Serve, Undisturbed, Initialising
      <3>3. cell[u] \in Cells  BY <3>2 DEF Initialising, Typed, TypeOK
      <3>4. initBy'[cell[u]] = initBy[cell[u]] /\ value'[cell[u]] = value[cell[u]]
        BY <1>2, <3>3 DEF EnterCell, Unused, cacheVars, Typed, TypeOK
      <3>5. QED  BY <3>2, <3>4 DEF SingleFlight
    <2>2. QED  BY <2>1 DEF SingleFlight
  <1>3. ASSUME NEW t \in Tasks, TakeValue(t)
        PROVE  SingleFlight'
    <2>1. ASSUME NEW u \in Tasks, Initialising(u)'
          PROVE  initBy'[cell'[u]] = u /\ value'[cell'[u]] = None
      <3>1. u # t  BY <1>3, <2>1 DEF TakeValue, Goto, Initialising, Typed, TypeOK
      <3>2. Initialising(u) /\ cell'[u] = cell[u]
        BY <1>3, <2>1, <3>1, OwnStep DEF Await, Undisturbed, Initialising
      <3>3. cell[u] \in Cells  BY <3>2 DEF Initialising, Typed, TypeOK
      <3>4. QED  BY <1>3, <3>2, <3>3, FreeCellsKeeps DEF TakeValue, SingleFlight
    <2>2. QED  BY <2>1 DEF SingleFlight
  <1>4. ASSUME NEW t \in Tasks, BeginInit(t)
        PROVE  SingleFlight'
    <2>0. cell[t] \in Cells  BY <1>4 DEF BeginInit, Typed, TypeOK, Shape
    <2>1. ASSUME NEW u \in Tasks, Initialising(u)'
          PROVE  initBy'[cell'[u]] = u /\ value'[cell'[u]] = None
      <3>1. CASE u = t
        BY <1>4, <2>0, <3>1 DEF BeginInit, Typed, TypeOK
      <3>2. CASE u # t
        <4>1. Initialising(u) /\ cell'[u] = cell[u]
          BY <1>4, <2>1, <3>2, OwnStep DEF Await, Undisturbed, Initialising
        <4>2. initBy[cell[u]] = u  BY <4>1 DEF SingleFlight
        <4>3. cell[u] # cell[t]
          BY <1>4, <4>2, SourceAssumption DEF BeginInit
        <4>4. cell[u] \in Cells  BY <4>1 DEF Initialising, Typed, TypeOK
        <4>5. QED  BY <1>4, <4>1, <4>3, <4>4 DEF BeginInit, SingleFlight, Typed, TypeOK
      <3>3. QED  BY <3>1, <3>2
    <2>2. QED  BY <2>1 DEF SingleFlight
  <1>5. ASSUME NEW t \in Tasks, Fail(t), Read(t)
        PROVE  SingleFlight'
    <2>1. ASSUME NEW u \in Tasks, Initialising(u)'
          PROVE  initBy'[cell'[u]] = u /\ value'[cell'[u]] = None
      <3>1. u # t  BY <1>5, <2>1 DEF Fail, Finish, Goto, Initialising, Typed, TypeOK
      <3>2. Initialising(u) /\ cell'[u] = cell[u]
        BY <1>5, <2>1, <3>1, OwnStep DEF Progress, Undisturbed, Initialising
      <3>3. cell[u] \in Cells  BY <3>2 DEF Initialising, Typed, TypeOK
      <3>4. initBy[cell[u]] = u /\ value[cell[u]] = None  BY <3>2 DEF SingleFlight
      <3>5. Initialising(t) => initBy[cell[t]] = t  BY DEF SingleFlight
      <3>6. initBy'[cell[u]] = u
        BY <1>5, <3>1, <3>3, <3>4, <3>5 DEF Fail, Typed, TypeOK
      <3>7. value'[cell[u]] = None
        BY <1>5, <3>3, <3>4, FreeCellsKeeps DEF Fail
      <3>8. QED  BY <3>2, <3>6, <3>7
    <2>2. QED  BY <2>1 DEF SingleFlight
  <1>6. ASSUME NEW t \in Tasks, Resolve(t)
        PROVE  SingleFlight'
    <2>1. CASE Fail(t)  BY <1>5, <1>6, <2>1 DEF Read
    <2>2. CASE ~Fail(t)
      <3>1. UNCHANGED cacheVars /\ UNCHANGED cell /\ pc[t] = "resolve"
        BY <1>6, <2>2 DEF Resolve
      <3>2. \A u \in Tasks : Initialising(u)' => Initialising(u)
        BY <1>6, <2>2, <3>1 DEF Resolve, Goto, Initialising, Typed, TypeOK
      <3>3. QED  BY <3>1, <3>2 DEF SingleFlight, cacheVars
    <2>3. QED  BY <2>1, <2>2
  <1>7. ASSUME NEW t \in Tasks, FailRead(t)
        PROVE  SingleFlight'
    <2>1. Fail(t)  BY <1>7 DEF FailRead
    <2>2. Read(t)  BY <1>7 DEF Read
    <2>3. QED  BY <1>5, <2>1, <2>2
  <1>8. ASSUME NEW t \in Tasks, ReadDescriptor(t)
        PROVE  SingleFlight'
    <2>0. Initialising(t) /\ cell[t] \in Cells
      BY <1>8 DEF ReadDescriptor, Initialising, Typed, TypeOK
    <2>1. ASSUME NEW u \in Tasks, Initialising(u)'
          PROVE  initBy'[cell'[u]] = u /\ value'[cell'[u]] = None
      <3>1. u # t  BY <1>8, <2>1 DEF ReadDescriptor, Goto, Initialising, Typed, TypeOK
      <3>2. Initialising(u) /\ cell'[u] = cell[u]
        BY <1>8, <2>1, <3>1, OwnStep DEF Progress, Read, Undisturbed, Initialising
      <3>3. cell[u] \in Cells  BY <3>2 DEF Initialising, Typed, TypeOK
      <3>4. initBy[cell[u]] = u /\ value[cell[u]] = None  BY <3>2 DEF SingleFlight
      <3>5. cell[u] # cell[t]
        BY <2>0, <3>1, <3>4 DEF SingleFlight
      <3>6. initBy'[cell[u]] = u
        BY <1>8, <3>3, <3>4, <3>5 DEF ReadDescriptor, Typed, TypeOK
      <3>7. PICK c : FreeCells([value EXCEPT ![cell[t]] = c])
        BY <1>8 DEF ReadDescriptor
      <3>8. value'[cell[u]] = None
        BY <3>3, <3>4, <3>5, <3>7 DEF FreeCells, Typed, TypeOK
      <3>9. QED  BY <3>2, <3>6, <3>8
    <2>2. QED  BY <2>1 DEF SingleFlight
  <1>9. CASE Restart
    BY <1>9 DEF Restart, SingleFlight, Initialising
  <1>10. ASSUME NEW b \in Bundles, Unload(b)
        PROVE  SingleFlight'
    <2>1. UNCHANGED <<pc, cell, initBy>> /\ FreeCells(value)
      BY <1>10 DEF Unload, taskVars
    <2>2. ASSUME NEW u \in Tasks, Initialising(u)
          PROVE  value'[cell[u]] = None
      <3>1. cell[u] \in Cells  BY <2>2 DEF Initialising, Typed, TypeOK
      <3>2. QED  BY <2>1, <2>2, <3>1, FreeCellsKeeps DEF SingleFlight
    <2>3. QED  BY <2>1, <2>2 DEF SingleFlight, Initialising
  <1>11. CASE UNCHANGED vars
    BY <1>11 DEF vars, cacheVars, taskVars, SingleFlight, Initialising
  <1>12. QED
    BY <1>1, <1>2, <1>3, <1>4, <1>6, <1>7, <1>8, <1>9, <1>10, <1>11
    DEF Next, Await, Progress, Read, Serve

(***************************************************************************)
(* load_descriptor is single flight, however requests, failures, unloads   *)
(* and restarts interleave.                                                *)
(***************************************************************************)
THEOREM AlwaysSingleFlight == Spec => []SingleFlight
  BY InitTyped, NextTyped, InitSingleFlight, NextSingleFlight, PTL DEF Spec

-----------------------------------------------------------------------------
(***************************************************************************)
(* No wait is left behind.  The permit of a cell goes where SingleFlight   *)
(* says it is, and nowhere else: the task that has it is initialising that *)
(* cell, until it fills it or fails.                                       *)
(***************************************************************************)
PermitsHeld == \A c \in Cells : initBy[c] # None => Initialising(initBy[c]) /\ cell[initBy[c]] = c

LEMMA NextPermitsHeld == Typed /\ PermitsHeld /\ [Next]_vars => PermitsHeld'
  <1> SUFFICES ASSUME Typed, PermitsHeld, [Next]_vars, NEW c \in Cells, initBy'[c] # None
               PROVE  (Initialising(initBy[c]) /\ cell[initBy[c]] = c)'
    BY DEF PermitsHeld
  <1>0. initBy'[c] \in Tasks  BY NextTyped DEF Typed, TypeOK
  <1>1. PICK u \in Tasks : u = initBy'[c]  BY <1>0
  <1>2. ASSUME NEW t \in Tasks, u # t, Begin(t) \/ Await(t) \/ Progress(t), Initialising(u), cell[u] = c
        PROVE  Initialising(u)' /\ cell'[u] = c
    BY <1>2, OwnStep DEF Undisturbed, Initialising
  <1>3. ASSUME initBy'[c] = initBy[c]
        PROVE  Initialising(u) /\ cell[u] = c
    BY <1>1, <1>3 DEF PermitsHeld
  <1>4. ASSUME NEW t \in Tasks,
               \/ Begin(t) \/ RejectMethod(t) \/ FastPath(t) \/ Open(t) \/ ReadBundle(t)
               \/ AnswerFromIndex(t) \/ OpenForBody(t) \/ ReadBody(t) \/ Answer(t)
               \/ Switch(t) \/ Install(t)
        PROVE  Initialising(u)' /\ cell'[u] = c
    <2>1. Initialising(u) /\ cell[u] = c  BY <1>3, <1>4, NoCellTouched DEF cacheVars
    <2>2. CASE u = t
      <3>1. Open(t)
        BY <1>4, <2>1, <2>2 DEF Begin, RejectMethod, FastPath, ReadBundle, AnswerFromIndex, OpenForBody,
           ReadBody, Answer, Switch, CheckVersion, SetVersion, Install, Create, Write, FailWrite, InsertVersion,
           Initialising, Typed, Shape
      <3>2. QED  BY <2>1, <2>2, <3>1 DEF Open, Goto, Initialising, Typed, TypeOK
    <2>3. CASE u # t  BY <1>2, <1>4, <2>1, <2>3 DEF Progress, Read, Serve
    <2>4. QED  BY <2>2, <2>3
  <1>5. ASSUME NEW t \in Tasks, EnterCell(t) \/ TakeValue(t)
        PROVE  Initialising(u)' /\ cell'[u] = c
    <2>1. initBy'[c] = initBy[c]
      BY <1>5 DEF EnterCell, TakeValue, cacheVars, Typed, TypeOK
    <2>2. Initialising(u) /\ cell[u] = c  BY <1>3, <2>1
    <2>3. u # t  BY <1>5, <2>2 DEF EnterCell, TakeValue, Initialising
    <2>4. QED  BY <1>2, <1>5, <2>2, <2>3 DEF Await, Progress, Serve
  <1>6. ASSUME NEW t \in Tasks, BeginInit(t)
        PROVE  Initialising(u)' /\ cell'[u] = c
    <2>1. CASE c = cell[t]
      <3>1. u = t  BY <1>1, <1>6, <2>1 DEF BeginInit, Typed, TypeOK
      <3>2. c # None  BY SourceAssumption
      <3>3. QED  BY <1>6, <2>1, <3>1, <3>2 DEF BeginInit, Goto, Initialising, Typed, TypeOK
    <2>2. CASE c # cell[t]
      <3>1. initBy'[c] = initBy[c]  BY <1>6, <2>2 DEF BeginInit, Typed, TypeOK
      <3>2. Initialising(u) /\ cell[u] = c  BY <1>3, <3>1
      <3>3. u # t  BY <1>6, <3>2 DEF BeginInit, Initialising
      <3>4. QED  BY <1>2, <1>6, <3>2, <3>3 DEF Await
    <2>3. QED  BY <2>1, <2>2
  <1>7. ASSUME NEW t \in Tasks, Fail(t) \/ ReadDescriptor(t), Read(t)
        PROVE  Initialising(u)' /\ cell'[u] = c
    <2>1. ~ (Initialising(t) /\ cell[t] = c)
      BY <1>7 DEF Fail, ReadDescriptor, Typed, TypeOK
    <2>2. initBy'[c] = initBy[c]
      BY <1>7, <2>1 DEF Fail, ReadDescriptor, Typed, TypeOK
    <2>3. Initialising(u) /\ cell[u] = c  BY <1>3, <2>2
    <2>4. u # t  BY <2>1, <2>3
    <2>5. QED  BY <1>2, <1>7, <2>3, <2>4 DEF Progress
  <1>8. ASSUME NEW t \in Tasks, Resolve(t), ~ Fail(t)
        PROVE  Initialising(u)' /\ cell'[u] = c
    <2>1. Initialising(u) /\ cell[u] = c  BY <1>3, <1>8 DEF Resolve, cacheVars
    <2>2. CASE u = t  BY <1>8, <2>1, <2>2 DEF Resolve, Goto, Initialising, Typed, TypeOK
    <2>3. CASE u # t  BY <1>2, <1>8, <2>1, <2>3 DEF Progress, Read
    <2>4. QED  BY <2>2, <2>3
  <1>9. ASSUME Restart PROVE FALSE  BY <1>9 DEF Restart
  <1>10. ASSUME (\E b \in Bundles : Unload(b)) \/ UNCHANGED vars
         PROVE  Initialising(u)' /\ cell'[u] = c
    <2>1. UNCHANGED <<initBy, pc, cell>>  BY <1>10 DEF Unload, vars, cacheVars, taskVars
    <2>2. QED  BY <1>1, <1>3, <2>1 DEF Initialising
  <1>11. Initialising(u)' /\ cell'[u] = c
    BY <1>4, <1>5, <1>6, <1>7, <1>8, <1>9, <1>10 DEF Next, Await, Progress, Read, Serve, FailRead
  <1>12. QED  BY <1>1, <1>11 DEF Initialising

(* A task that has opened a bundle holds a location with a file. *)
ReadsFile == \A t \in Tasks : pc[t] = "read" => Exists(job[t].b, loc[t])

(* A file that is whole has an edition. *)
FilesHaveEditions ==
    \A b \in Bundles, v \in Versions : file[b][v].state = "whole" => file[b][v].e # None

LEMMA InitEditions == Init => FilesHaveEditions
  BY NoneAssumption DEF Init, FilesHaveEditions, WholeFile, AbsentFile, ContainsEntry, Data, Entry

(* How a task comes to read a file. *)
LEMMA ReadArrival ==
    ASSUME Typed, [Next]_vars, NEW u \in Tasks, pc'[u] = "read"
    PROVE  UNCHANGED <<job[u], loc[u]>> /\ (pc[u] = "read" \/ Open(u))
  <1>1. ASSUME NEW t \in Tasks, t # u, Begin(t) \/ Await(t) \/ Progress(t)
        PROVE  UNCHANGED <<pc[u], job[u], loc[u]>>
    BY <1>1, OwnStep DEF Undisturbed
  <1>2. ASSUME Begin(u) PROVE FALSE
    <2>1. PICK j \in Job : pc' = [pc EXCEPT ![u] = FirstPC(j.op)]  BY <1>2 DEF Begin
    <2>2. FirstPC(j.op) \in {"lookup", "resolve", "check", "create"}  BY DEF Job, FirstPC
    <2>3. QED  BY <2>1, <2>2 DEF Typed, TypeOK
  <1>3. ASSUME Await(u) \/ Progress(u), ~ Open(u) PROVE FALSE
    BY <1>3 DEF Await, TakeValue, BeginInit, Progress, Read, Resolve, FailRead, ReadDescriptor, ReadBundle,
                Fail, Serve, RejectMethod, FastPath, EnterCell, AnswerFromIndex, OpenForBody, ReadBody, Answer,
                Switch, CheckVersion, SetVersion, Install, Create, Write, FailWrite, InsertVersion,
                Finish, Goto, Typed, TypeOK
  <1>4. CASE Open(u)  BY <1>4 DEF Open
  <1>5. ASSUME Restart PROVE FALSE  BY <1>5 DEF Restart
  <1>6. CASE (\E b \in Bundles : Unload(b)) \/ UNCHANGED vars
    BY <1>6 DEF Unload, vars, taskVars
  <1>7. QED  BY <1>1, <1>2, <1>3, <1>4, <1>5, <1>6 DEF Next

LEMMA NextReadsFile == Typed /\ ReadsFile /\ [Next]_vars => ReadsFile'
  <1> SUFFICES ASSUME Typed, ReadsFile, [Next]_vars, NEW t \in Tasks, pc'[t] = "read"
               PROVE  Exists(job[t].b, loc[t])'
    BY DEF ReadsFile
  <1>1. UNCHANGED <<job[t], loc[t]>> /\ (pc[t] = "read" \/ Open(t))  BY ReadArrival
  <1>2. job[t].b \in Bundles /\ loc[t] \in Location
    BY <1>1, JobArguments DEF Open, Typed, TypeOK, Shape
  <1>3. Exists(job[t].b, loc[t])  BY <1>1 DEF Open, ReadsFile
  <1>4. QED  BY <1>1, <1>2, <1>3, FilesStay DEF Exists, Present, Location

LEMMA NextEditions == Typed /\ FilesHaveEditions /\ [Next]_vars => FilesHaveEditions'
  <1> SUFFICES ASSUME Typed, FilesHaveEditions, [Next]_vars PROVE FilesHaveEditions'  OBVIOUS
  <1>1. TornFile.state # "whole" /\ \A e \in Metas : WholeFile(e).e # None
    BY NoneAssumption DEF TornFile, WholeFile
  <1>2. ASSUME NEW b \in Bundles, NEW v \in Versions, NEW f, PutFile(b, v, f),
               f \in {TornFile, file[b][v]} \cup {WholeFile(e) : e \in Metas}
        PROVE  FilesHaveEditions'
    BY <1>1, <1>2 DEF PutFile, FilesHaveEditions, Typed, TypeOK
  <1>3. ASSUME NEW t \in Tasks, Create(t) \/ Write(t) \/ FailWrite(t)
        PROVE  FilesHaveEditions'
    <2>1. job[t].b \in Bundles /\ job[t].v \in Versions /\ job[t].e \in Metas
      BY <1>3, JobArguments DEF Create, Write, FailWrite, Typed, TypeOK, Shape
    <2>2. mix[job[t].b][job[t].v] \subseteq Metas  BY <2>1 DEF Typed, TypeOK
    <2>3. UNCHANGED file => FilesHaveEditions'  BY DEF FilesHaveEditions
    <2>4. CASE Create(t)  BY <1>2, <2>1, <2>4 DEF Create
    <2>5. CASE Write(t)  BY <1>2, <2>1, <2>2, <2>5 DEF Write
    <2>6. CASE FailWrite(t)  BY <1>2, <2>1, <2>3, <2>6 DEF FailWrite
    <2>7. QED  BY <1>3, <2>4, <2>5, <2>6
  <1>4. UNCHANGED file => FilesHaveEditions'  BY DEF FilesHaveEditions
  <1>5. ASSUME NEW t \in Tasks,
               Begin(t) \/ Await(t) \/ Read(t) \/ Serve(t) \/ Switch(t) \/ InsertVersion(t)
        PROVE  UNCHANGED file
    BY <1>5 DEF Begin, Await, TakeValue, BeginInit, Read, Resolve, Open, FailRead,
                ReadDescriptor, ReadBundle, Fail, Serve, RejectMethod, FastPath, EnterCell,
                AnswerFromIndex, OpenForBody, ReadBody, Answer, Switch, CheckVersion,
                SetVersion, InsertVersion, diskVars
  <1>6. Restart \/ (\E c \in Bundles : Unload(c)) \/ UNCHANGED vars => UNCHANGED file
    BY DEF Restart, Unload, vars, diskVars
  <1>7. QED  BY <1>3, <1>4, <1>5, <1>6 DEF Next, Progress, Install

(* A file that is there shows a reader something, or is torn. *)
LEMMA ReaderFindsSomething ==
    ASSUME Typed, ReadsFile, FilesHaveEditions, NEW t \in Tasks, pc[t] = "read"
    PROVE  IsTorn(job[t].b, loc[t]) \/ Readable(job[t].b, loc[t]) # {}
  <1>1. job[t].b \in Bundles /\ loc[t] \in Location  BY JobArguments DEF Typed, TypeOK, Shape
  <1>2. CASE loc[t].kind = "builtin"  BY <1>2 DEF Readable
  <1>3. CASE loc[t].kind # "builtin"
    <2>1. loc[t].kind = "remote" /\ loc[t].v \in Versions  BY <1>1, <1>3 DEF Location
    <2> DEFINE f == file[job[t].b][loc[t].v]
    <2>2. f.state \in {"absent", "torn", "whole"}  BY <1>1, <2>1 DEF Typed, TypeOK, File
    <2>3. f.state # "absent"  BY <2>1 DEF ReadsFile, Exists
    <2>4. CASE f.state = "torn"  BY <2>1, <2>4 DEF IsTorn
    <2>5. CASE f.state = "whole"
      <3>1. f.e # None  BY <1>1, <2>1, <2>5 DEF FilesHaveEditions
      <3>2. ~ IsTorn(job[t].b, loc[t])  BY <2>5 DEF IsTorn
      <3>3. [kind |-> "remote", v |-> loc[t].v, e |-> f.e] \in Readable(job[t].b, loc[t])
        BY <1>3, <3>1, <3>2 DEF Readable
      <3>4. QED  BY <3>3
    <2>6. QED  BY <2>2, <2>3, <2>4, <2>5
  <1>4. QED  BY <1>2, <1>3

(***************************************************************************)
(* load_descriptor and the readers, however requests, downloads, failures, *)
(* unloads and restarts interleave: a task that waits for a cell waits for *)
(* one that fetches for this cell, and what is open can be read or fails.  *)
(***************************************************************************)
THEOREM WaitsAreForLiveFetches == Spec => []WaitsForLiveFetch
  <1>1. Init => PermitsHeld /\ ReadsFile  BY DEF Init, PermitsHeld, ReadsFile
  <1>2. Typed /\ PermitsHeld /\ ReadsFile /\ FilesHaveEditions => WaitsForLiveFetch
    BY ReaderFindsSomething DEF PermitsHeld, WaitsForLiveFetch
  <1>3. QED
    BY <1>1, <1>2, InitTyped, NextTyped, NextPermitsHeld, NextReadsFile, InitEditions, NextEditions, PTL DEF Spec

-----------------------------------------------------------------------------
(***************************************************************************)
(* CachedSinceUnload is not inductive: nothing in it says what a fetch in  *)
(* flight will put in the cache.  A cell the map holds belongs to one      *)
(* bundle, is used for that bundle only, and the task filling it resolved  *)
(* a location that was current since the last unload: unload_descriptor    *)
(* takes the cell out of the map, so what an older fetch fills is unused.  *)
(***************************************************************************)
LocationOf(c) == [kind |-> c.kind, v |-> c.v]

OneBundlePerCell ==
    \A a, b \in Bundles : cellOf[a] # None /\ cellOf[a] = cellOf[b] => a = b

CellUsedForItsBundle ==
    \A t \in Tasks, b \in Bundles : cell[t] # None /\ cell[t] = cellOf[b] => job[t].b = b

CurrentInWindow == \A b \in Bundles : Resolved(remote, b) \in window[b]

FillsFromWindow ==
    \A t \in Tasks, b \in Bundles :
      pc[t] \in {"open", "read"} /\ cell[t] # None /\ cell[t] = cellOf[b] => loc[t] \in window[b]

Fresh ==
    /\ OneBundlePerCell
    /\ CellUsedForItsBundle
    /\ CurrentInWindow
    /\ FillsFromWindow
    /\ CachedSinceUnload

LEMMA InitFresh == Init => Fresh
  BY DEF Init, Fresh, OneBundlePerCell, CellUsedForItsBundle, CurrentInWindow, FillsFromWindow,
         CachedSinceUnload

(* What a reader finds at a location is of that location. *)
LEMMA ReadableLocation ==
    ASSUME NEW b \in Bundles, NEW l \in Location, NEW c \in Readable(b, l)
    PROVE  LocationOf(c) = l
  BY DEF Readable, Location, LocationOf

(* A window only grows while its bundle is not unloaded. *)
LEMMA WindowGrows ==
    ASSUME Typed, NEW t \in Tasks, Begin(t) \/ Await(t) \/ Progress(t), NEW b \in Bundles
    PROVE  window[b] \subseteq window'[b]
  <1>1. CASE SetVersion(t) \/ InsertVersion(t)
    <2>1. job[t].b \in Bundles
      BY <1>1, JobArguments DEF SetVersion, InsertVersion, Typed, TypeOK, Shape
    <2>2. QED  BY <1>1, <2>1 DEF SetVersion, InsertVersion, Observe, Typed, TypeOK
  <1>2. CASE ~(SetVersion(t) \/ InsertVersion(t))
    <2>1. UNCHANGED window
      BY <1>2 DEF Begin, Await, TakeValue, BeginInit, Progress, Read, Resolve, Open, FailRead,
                  ReadDescriptor, ReadBundle, Fail, Serve, RejectMethod, FastPath, EnterCell,
                  AnswerFromIndex, OpenForBody, ReadBody, Answer, Switch, CheckVersion,
                  Install, Create, Write, FailWrite
    <2>2. QED  BY <2>1
  <1>3. QED  BY <1>1, <1>2

LEMMA NextCurrentInWindow ==
    ASSUME Typed, CurrentInWindow, [Next]_vars
    PROVE  CurrentInWindow'
  <1>1. ASSUME NEW t \in Tasks, SetVersion(t) \/ InsertVersion(t)
        PROVE  CurrentInWindow'
    <2>1. job[t].b \in Bundles
      BY <1>1, JobArguments DEF SetVersion, InsertVersion, Typed, TypeOK, Shape
    <2>2. Resolved(remote', job[t].b) \in window'[job[t].b]
      BY <1>1, <2>1 DEF SetVersion, InsertVersion, Observe, Typed, TypeOK
    <2>3. ASSUME NEW b \in Bundles, b # job[t].b
          PROVE  Resolved(remote', b) \in window'[b]
      <3>1. remote'[b] = remote[b]
        BY <1>1, <2>3 DEF SetVersion, InsertVersion, SetCurrent, InsertEntry, Typed, TypeOK, Data
      <3>2. window'[b] = window[b]
        BY <1>1, <2>3 DEF SetVersion, InsertVersion, Observe, Typed, TypeOK
      <3>3. QED
        BY <3>1, <3>2 DEF CurrentInWindow, Resolved, HasEntry, CurrentVersion
    <2>4. QED  BY <2>2, <2>3 DEF CurrentInWindow
  <1>2. ASSUME NEW t \in Tasks, Begin(t) \/ Await(t) \/ Progress(t),
               ~(SetVersion(t) \/ InsertVersion(t))
        PROVE  CurrentInWindow'
    <2>1. UNCHANGED remote
      BY <1>2, QuietStep DEF Progress, Switch, Install, CheckVersion
    <2>2. QED  BY <1>2, <2>1, WindowGrows DEF CurrentInWindow
  <1>3. ASSUME NEW b \in Bundles, Unload(b)
        PROVE  CurrentInWindow'
    BY <1>3 DEF Unload, CurrentInWindow, Typed, TypeOK
  <1>4. CASE Restart
    BY <1>4 DEF Restart, CurrentInWindow
  <1>5. CASE UNCHANGED vars
    BY <1>5 DEF vars, CurrentInWindow
  <1>6. QED  BY <1>1, <1>2, <1>3, <1>4, <1>5 DEF Next

(* Steps that leave the cells alone keep the rest, for windows only grow. *)
LEMMA FreshQuiet ==
    ASSUME Typed, Fresh, NEW t \in Tasks,
           \/ Begin(t) \/ RejectMethod(t) \/ FastPath(t) \/ Open(t) \/ ReadBundle(t)
           \/ AnswerFromIndex(t) \/ OpenForBody(t) \/ ReadBody(t) \/ Answer(t)
           \/ Switch(t) \/ Install(t)
    PROVE  OneBundlePerCell' /\ CellUsedForItsBundle' /\ FillsFromWindow' /\ CachedSinceUnload'
  <1>1. UNCHANGED <<cellOf, value>>  BY NoCellTouched DEF cacheVars
  <1>2. \A b \in Bundles : window[b] \subseteq window'[b]
    BY WindowGrows DEF Progress, Read, Serve
  <1>3. ASSUME NEW u \in Tasks, cell'[u] # None
        PROVE  /\ cell'[u] = cell[u] /\ job'[u] = job[u]
               /\ pc'[u] \in {"open", "read"} => pc[u] \in {"open", "read"} /\ loc'[u] = loc[u]
    <2>1. CASE u = t
      <3>1. CASE Begin(t) \/ FastPath(t) \/ AnswerFromIndex(t) \/ OpenForBody(t)
        BY <1>3, <2>1, <3>1 DEF Begin, FastPath, AnswerFromIndex, OpenForBody, Finish, Typed,
                TypeOK, Shape
      <3>2. CASE RejectMethod(t) \/ ReadBundle(t) \/ Answer(t)
        BY <1>3, <2>1, <3>2 DEF RejectMethod, ReadBundle, Answer, Finish, Typed, TypeOK
      <3>3. CASE ReadBody(t)
        BY <1>3, <2>1, <3>3 DEF ReadBody, Initialising, Finish, Typed, TypeOK
      <3>4. CASE Open(t)
        BY <2>1, <3>4 DEF Open
      <3>5. CASE Switch(t) \/ Install(t)
        BY <1>3, <2>1, <3>5 DEF Switch, CheckVersion, SetVersion, Install, Create, Write,
                FailWrite, InsertVersion, Finish, Typed, TypeOK, Shape
      <3>6. QED  BY <3>1, <3>2, <3>3, <3>4, <3>5
    <2>2. CASE u # t
      BY <2>2, OwnStep DEF Progress, Read, Serve, Undisturbed
    <2>3. QED  BY <2>1, <2>2
  <1>4. OneBundlePerCell'  BY <1>1 DEF Fresh, OneBundlePerCell
  <1>5. CellUsedForItsBundle'  BY <1>1, <1>3 DEF Fresh, CellUsedForItsBundle
  <1>6. FillsFromWindow'  BY <1>1, <1>2, <1>3 DEF Fresh, FillsFromWindow
  <1>7. CachedSinceUnload'  BY <1>1, <1>2 DEF Fresh, CachedSinceUnload
  <1>8. QED  BY <1>4, <1>5, <1>6, <1>7

(* An initialiser that gives up, or a caller that takes the value. *)
LEMMA FreshLeavesCell ==
    ASSUME Typed, Fresh, NEW t \in Tasks, cell' = [cell EXCEPT ![t] = None],
           \A u \in Tasks \ {t} : Undisturbed(u), UNCHANGED <<cellOf, window>>, FreeCells(value)
    PROVE  OneBundlePerCell' /\ CellUsedForItsBundle' /\ FillsFromWindow' /\ CachedSinceUnload'
  <1>1. \A u \in Tasks : cell'[u] # None => u # t /\ cell'[u] = cell[u]
    BY DEF Typed, TypeOK
  <1>2. OneBundlePerCell'  BY DEF Fresh, OneBundlePerCell
  <1>3. CellUsedForItsBundle'
    BY <1>1 DEF Fresh, CellUsedForItsBundle, Undisturbed
  <1>4. FillsFromWindow'
    BY <1>1 DEF Fresh, FillsFromWindow, Undisturbed
  <1>5. ASSUME NEW b \in Bundles, cellOf[b] # None, value'[cellOf[b]] # None
        PROVE  LocationOf(value'[cellOf[b]]) \in window[b]
    <2>1. cellOf[b] \in Cells  BY <1>5 DEF Typed, TypeOK
    <2>2. value'[cellOf[b]] = value[cellOf[b]]  BY <1>5, <2>1, FreeCellsKeeps
    <2>3. QED  BY <1>5, <2>2 DEF Fresh, CachedSinceUnload, LocationOf
  <1>6. CachedSinceUnload'  BY <1>5 DEF CachedSinceUnload, LocationOf
  <1>7. QED  BY <1>2, <1>3, <1>4, <1>6

LEMMA FreshEnterCell ==
    ASSUME Typed, Fresh, NEW t \in Tasks, EnterCell(t)
    PROVE  OneBundlePerCell' /\ CellUsedForItsBundle' /\ FillsFromWindow' /\ CachedSinceUnload'
  <1>0. job[t].b \in Bundles
    BY JobArguments DEF EnterCell, Typed, TypeOK, Shape
  <1>1. UNCHANGED <<job, loc, window>> /\ pc'[t] = "cell"
    BY DEF EnterCell, Goto, Typed, TypeOK
  <1>2. \A u \in Tasks : u # t => Undisturbed(u)
    BY OwnStep DEF Progress, Serve
  <1>3. CASE cellOf[job[t].b] # None
    <2>1. cell' = [cell EXCEPT ![t] = cellOf[job[t].b]] /\ UNCHANGED <<cellOf, value>>
      BY <1>3 DEF EnterCell, cacheVars
    <2>2. CellUsedForItsBundle'
      BY <1>0, <1>1, <1>2, <1>3, <2>1
      DEF Fresh, CellUsedForItsBundle, OneBundlePerCell, Undisturbed, Typed, TypeOK
    <2>3. FillsFromWindow'
      BY <1>1, <1>2, <2>1 DEF Fresh, FillsFromWindow, Undisturbed
    <2>4. OneBundlePerCell' /\ CachedSinceUnload'
      BY <1>1, <2>1 DEF Fresh, OneBundlePerCell, CachedSinceUnload
    <2>5. QED  BY <2>2, <2>3, <2>4
  <1>4. CASE cellOf[job[t].b] = None
    <2>1. PICK c \in Cells :
            /\ Unused(c)
            /\ cellOf' = [cellOf EXCEPT ![job[t].b] = c]
            /\ value' = [value EXCEPT ![c] = None]
            /\ cell' = [cell EXCEPT ![t] = c]
      BY <1>4 DEF EnterCell
    <2>2. c # None  BY SourceAssumption
    <2>3. OneBundlePerCell'
      BY <1>0, <2>1 DEF Fresh, OneBundlePerCell, Unused, Typed, TypeOK
    <2>4. CellUsedForItsBundle'
      BY <1>0, <1>1, <2>1 DEF Fresh, CellUsedForItsBundle, Unused, Typed, TypeOK
    <2>5. FillsFromWindow'
      BY <1>0, <1>1, <1>2, <2>1 DEF Fresh, FillsFromWindow, Undisturbed, Unused, Typed, TypeOK
    <2>6. CachedSinceUnload'
      BY <1>0, <1>1, <2>1 DEF Fresh, CachedSinceUnload, Unused, Typed, TypeOK
    <2>7. QED  BY <2>3, <2>4, <2>5, <2>6
  <1>5. QED  BY <1>3, <1>4

LEMMA FreshBeginInit ==
    ASSUME Typed, Fresh, NEW t \in Tasks, BeginInit(t)
    PROVE  OneBundlePerCell' /\ CellUsedForItsBundle' /\ FillsFromWindow' /\ CachedSinceUnload'
  BY DEF BeginInit, Goto, Fresh, OneBundlePerCell, CellUsedForItsBundle, FillsFromWindow,
         CachedSinceUnload, Typed, TypeOK

(* The initialiser resolves the version that is current now. *)
LEMMA FreshResolve ==
    ASSUME Typed, Fresh, NEW t \in Tasks, Resolve(t), ~Fail(t)
    PROVE  OneBundlePerCell' /\ CellUsedForItsBundle' /\ FillsFromWindow' /\ CachedSinceUnload'
  <1>1. loc' = [loc EXCEPT ![t] = Resolved(remote, job[t].b)]
        /\ UNCHANGED <<cellOf, value, job, cell, window>>
    BY DEF Resolve, cacheVars
  <1>2. \A u \in Tasks : u # t => Undisturbed(u)
    BY OwnStep DEF Progress, Read
  <1>3. ASSUME NEW u \in Tasks, NEW b \in Bundles,
               pc'[u] \in {"open", "read"}, cell[u] # None, cell[u] = cellOf[b]
        PROVE  loc'[u] \in window[b]
    <2>1. CASE u # t
      BY <1>2, <1>3, <2>1 DEF Fresh, FillsFromWindow, Undisturbed
    <2>2. CASE u = t
      <3>1. job[t].b = b  BY <1>3, <2>2 DEF Fresh, CellUsedForItsBundle
      <3>2. QED  BY <1>1, <2>2, <3>1 DEF Fresh, CurrentInWindow, Typed, TypeOK
    <2>3. QED  BY <2>1, <2>2
  <1>4. FillsFromWindow'  BY <1>1, <1>3 DEF FillsFromWindow
  <1>5. QED
    BY <1>1, <1>4 DEF Fresh, OneBundlePerCell, CellUsedForItsBundle, CachedSinceUnload

(* The descriptor that fills a mapped cell is of a location of its window. *)
LEMMA FreshReadDescriptor ==
    ASSUME Typed, Fresh, NEW t \in Tasks, ReadDescriptor(t)
    PROVE  OneBundlePerCell' /\ CellUsedForItsBundle' /\ FillsFromWindow' /\ CachedSinceUnload'
  <1>1. job[t].b \in Bundles /\ loc[t] \in Location /\ cell[t] \in Cells
    BY JobArguments DEF ReadDescriptor, Initialising, Typed, TypeOK, Shape
  <1>2. PICK c \in Readable(job[t].b, loc[t]) : FreeCells([value EXCEPT ![cell[t]] = c])
    BY DEF ReadDescriptor
  <1>3. LocationOf(c) = loc[t]  BY <1>1, <1>2, ReadableLocation
  <1>4. cell' = [cell EXCEPT ![t] = None] /\ UNCHANGED <<cellOf, window, job>>
    BY DEF ReadDescriptor
  <1>5. \A u \in Tasks : u # t => Undisturbed(u)
    BY OwnStep DEF Progress, Read
  <1>6. OneBundlePerCell' /\ CellUsedForItsBundle'
    BY <1>4 DEF Fresh, OneBundlePerCell, CellUsedForItsBundle, Typed, TypeOK
  <1>7. FillsFromWindow'
    BY <1>4, <1>5 DEF Fresh, FillsFromWindow, Undisturbed, Typed, TypeOK
  <1>8. ASSUME NEW b \in Bundles, cellOf[b] # None, value'[cellOf[b]] # None
        PROVE  LocationOf(value'[cellOf[b]]) \in window[b]
    <2>1. cellOf[b] \in Cells  BY <1>8 DEF Typed, TypeOK
    <2>2. CASE cellOf[b] = cell[t]
      <3>1. value'[cellOf[b]] = c
        BY <1>1, <1>2, <1>8, <2>1, <2>2 DEF FreeCells, Typed, TypeOK
      <3>2. loc[t] \in window[b]
        BY <1>8, <2>2 DEF Fresh, FillsFromWindow, ReadDescriptor
      <3>3. QED  BY <1>3, <3>1, <3>2
    <2>3. CASE cellOf[b] # cell[t]
      <3>1. value'[cellOf[b]] = value[cellOf[b]]
        BY <1>2, <1>8, <2>1, <2>3 DEF FreeCells, Typed, TypeOK
      <3>2. QED  BY <1>8, <3>1 DEF Fresh, CachedSinceUnload, LocationOf
    <2>4. QED  BY <2>2, <2>3
  <1>9. CachedSinceUnload'  BY <1>4, <1>8 DEF CachedSinceUnload, LocationOf
  <1>10. QED  BY <1>6, <1>7, <1>9

(* unload_descriptor takes the cell out of the map and opens a new window. *)
LEMMA FreshUnload ==
    ASSUME Typed, Fresh, NEW b \in Bundles, Unload(b)
    PROVE  OneBundlePerCell' /\ CellUsedForItsBundle' /\ FillsFromWindow' /\ CachedSinceUnload'
  <1>1. /\ cellOf' = [cellOf EXCEPT ![b] = None]
        /\ window' = [window EXCEPT ![b] = {Resolved(remote, b)}]
        /\ UNCHANGED <<pc, job, cell, loc>>
        /\ FreeCells(value)
    BY DEF Unload, taskVars
  <1>2. ASSUME NEW a \in Bundles, cellOf'[a] # None
        PROVE  cellOf'[a] = cellOf[a] /\ window'[a] = window[a]
    BY <1>1, <1>2 DEF Typed, TypeOK
  <1>3. OneBundlePerCell'  BY <1>2 DEF Fresh, OneBundlePerCell
  <1>4. CellUsedForItsBundle'  BY <1>1, <1>2 DEF Fresh, CellUsedForItsBundle
  <1>5. FillsFromWindow'  BY <1>1, <1>2 DEF Fresh, FillsFromWindow
  <1>6. ASSUME NEW a \in Bundles, cellOf'[a] # None, value'[cellOf'[a]] # None
        PROVE  LocationOf(value'[cellOf'[a]]) \in window'[a]
    <2>1. cellOf[a] \in Cells  BY <1>2, <1>6 DEF Typed, TypeOK
    <2>2. value'[cellOf[a]] = value[cellOf[a]]
      BY <1>1, <1>2, <1>6, <2>1, FreeCellsKeeps
    <2>3. QED  BY <1>2, <1>6, <2>2 DEF Fresh, CachedSinceUnload, LocationOf
  <1>7. CachedSinceUnload'  BY <1>6 DEF CachedSinceUnload, LocationOf
  <1>8. QED  BY <1>3, <1>4, <1>5, <1>7

LEMMA NextFresh == Typed /\ Fresh /\ [Next]_vars => Fresh'
  <1> SUFFICES ASSUME Typed, Fresh, [Next]_vars PROVE Fresh'  OBVIOUS
  <1>1. CurrentInWindow'  BY NextCurrentInWindow DEF Fresh
  <1> DEFINE Rest == OneBundlePerCell /\ CellUsedForItsBundle /\ FillsFromWindow
                     /\ CachedSinceUnload
  <1>2. ASSUME NEW t \in Tasks, Fail(t), Read(t)
        PROVE  Rest'
    <2>1. \A u \in Tasks \ {t} : Undisturbed(u)  BY <1>2, OwnStep DEF Progress
    <2>2. QED  BY <1>2, <2>1, FreshLeavesCell DEF Fail, Finish
  <1>3. ASSUME NEW t \in Tasks, TakeValue(t)
        PROVE  Rest'
    <2>1. \A u \in Tasks \ {t} : Undisturbed(u)  BY <1>3, OwnStep DEF Await
    <2>2. QED  BY <1>3, <2>1, FreshLeavesCell DEF TakeValue
  <1>4. ASSUME NEW t \in Tasks, FailRead(t)
        PROVE  Rest'
    <2>1. Fail(t)  BY <1>4 DEF FailRead
    <2>2. Read(t)  BY <1>4 DEF Read
    <2>3. QED  BY <1>2, <2>1, <2>2
  <1>5. ASSUME NEW t \in Tasks, Resolve(t)
        PROVE  Rest'
    <2>1. Read(t)  BY <1>5 DEF Read
    <2>2. QED  BY <1>2, <1>5, <2>1, FreshResolve
  <1>6. ASSUME Restart PROVE Rest'
    BY <1>6 DEF Restart, OneBundlePerCell, CellUsedForItsBundle, FillsFromWindow,
                CachedSinceUnload
  <1>7. ASSUME UNCHANGED vars PROVE Rest'
    BY <1>7 DEF vars, cacheVars, taskVars, Fresh, OneBundlePerCell, CellUsedForItsBundle,
                FillsFromWindow, CachedSinceUnload
  <1>8. Rest'
    BY <1>3, <1>4, <1>5, <1>6, <1>7, FreshQuiet, FreshEnterCell, FreshBeginInit,
       FreshReadDescriptor, FreshUnload
    DEF Next, Await, Progress, Read, Serve
  <1>9. QED  BY <1>1, <1>8 DEF Fresh

(***************************************************************************)
(* A fetch that began before unload_descriptor never puts an older version *)
(* back into the cache.                                                    *)
(***************************************************************************)
THEOREM CacheAlwaysSinceUnload == Spec => []CachedSinceUnload
  <1>1. Fresh => CachedSinceUnload  BY DEF Fresh
  <1>2. QED  BY <1>1, InitTyped, NextTyped, InitFresh, NextFresh, PTL DEF Spec

-----------------------------------------------------------------------------
(***************************************************************************)
(* A cell in the map keeps its descriptor: it is in use as long as it is   *)
(* in the map, a new cell is one nobody uses, and an initialiser fills an  *)
(* empty cell, for the cell is single flight.                              *)
(***************************************************************************)
DescriptorKept ==
    \A b \in Bundles :
      LET c == cellOf[b] IN
      c # None /\ cellOf'[b] = c /\ value[c] # None => value'[c] = value[c]

LEMMA MappedCellKept ==
    ASSUME NEW val, FreeCells(val), NEW b \in Bundles, NEW c \in Cells, cellOf'[b] = c
    PROVE  value'[c] = val[c]
  BY DEF FreeCells, Unused

LEMMA StepKeepsDescriptor == Typed /\ SingleFlight /\ [Next]_vars => DescriptorKept
  <1> SUFFICES ASSUME Typed, SingleFlight, [Next]_vars, NEW b \in Bundles,
                      cellOf[b] # None, cellOf'[b] = cellOf[b], value[cellOf[b]] # None
               PROVE  value'[cellOf[b]] = value[cellOf[b]]
    BY DEF DescriptorKept
  <1> DEFINE c == cellOf[b]
  <1>0. c \in Cells  BY DEF Typed, TypeOK
  <1>1. ASSUME NEW t \in Tasks,
               \/ Begin(t) \/ RejectMethod(t) \/ FastPath(t) \/ Open(t) \/ ReadBundle(t)
               \/ AnswerFromIndex(t) \/ OpenForBody(t) \/ ReadBody(t) \/ Answer(t)
               \/ Switch(t) \/ Install(t) \/ BeginInit(t)
        PROVE  value'[c] = value[c]
    BY <1>1, NoCellTouched DEF BeginInit, cacheVars
  <1>2. ASSUME NEW t \in Tasks, EnterCell(t)
        PROVE  value'[c] = value[c]
    BY <1>0, <1>2 DEF EnterCell, Unused, cacheVars, Typed, TypeOK
  <1>3. ASSUME NEW t \in Tasks, TakeValue(t) \/ Fail(t)
        PROVE  value'[c] = value[c]
    <2>1. FreeCells(value)  BY <1>3 DEF TakeValue, Fail
    <2>2. QED  BY <1>0, <2>1, MappedCellKept
  <1>4. ASSUME NEW t \in Tasks, Resolve(t)
        PROVE  value'[c] = value[c]
    BY <1>3, <1>4 DEF Resolve, cacheVars
  <1>5. ASSUME NEW t \in Tasks, FailRead(t)
        PROVE  value'[c] = value[c]
    BY <1>3, <1>5 DEF FailRead
  <1>6. ASSUME NEW t \in Tasks, ReadDescriptor(t)
        PROVE  value'[c] = value[c]
    <2>1. PICK x : FreeCells([value EXCEPT ![cell[t]] = x])
      BY <1>6 DEF ReadDescriptor
    <2>2. value[cell[t]] = None
      BY <1>6 DEF ReadDescriptor, SingleFlight
    <2>3. c # cell[t]  BY <2>2
    <2>4. value'[c] = [value EXCEPT ![cell[t]] = x][c]
      BY <1>0, <2>1, MappedCellKept
    <2>5. QED  BY <1>0, <2>3, <2>4 DEF Typed, TypeOK
  <1>7. ~ Restart  BY DEF Restart
  <1>8. ASSUME NEW a \in Bundles, Unload(a)
        PROVE  value'[c] = value[c]
    <2>1. FreeCells(value)  BY <1>8 DEF Unload
    <2>2. QED  BY <1>0, <2>1, MappedCellKept
  <1>9. UNCHANGED vars => value'[c] = value[c]  BY DEF vars, cacheVars
  <1>10. QED
    BY <1>1, <1>2, <1>3, <1>4, <1>5, <1>6, <1>7, <1>8, <1>9
    DEF Next, Await, Progress, Read, Serve

(***************************************************************************)
(* Until it is unloaded, a cached descriptor never changes, also when      *)
(* other tasks are fetching, failing or freeing descriptors.               *)
(***************************************************************************)
THEOREM DescriptorsAreStable == Spec => CachedDescriptorStable
  <1>1. Spec => [][DescriptorKept]_vars
    BY InitTyped, NextTyped, InitSingleFlight, NextSingleFlight, StepKeepsDescriptor, PTL
    DEF Spec
  <1>2. QED  BY <1>1 DEF CachedDescriptorStable, DescriptorKept

-----------------------------------------------------------------------------
(***************************************************************************)
(* InstalledFileWhole is not inductive: a file is torn while it is being   *)
(* written, whether or not its version is listed yet.  What holds all the  *)
(* time, as long as no write fails and the process does not end, is that a *)
(* torn file has a writer or two editions, because a writer's own edition  *)
(* is in the mix and only a second one can leave the file torn behind it.  *)
(***************************************************************************)
WriterInMix ==
    \A t \in Tasks : pc[t] = "write" => job[t].e \in mix[job[t].b][job[t].v]

TornOnlyByTwo ==
    \A b \in Bundles, v \in Versions :
      file[b][v].state = "torn" /\ Writing(b, v) = {} => \E e1, e2 \in mix[b][v] : e1 # e2

Written == Faults \subseteq {"read"} => WriterInMix /\ TornOnlyByTwo

LEMMA InitWritten == Init => Written
  BY DEF Init, Written, WriterInMix, TornOnlyByTwo, WholeFile, AbsentFile

(* Which steps touch the files, and who is writing. *)
LEMMA NoFileTouched ==
    ASSUME Typed, NEW t \in Tasks,
           Begin(t) \/ Await(t) \/ Read(t) \/ Serve(t) \/ Switch(t) \/ InsertVersion(t)
    PROVE  /\ UNCHANGED <<file, mix>>
           /\ \A u \in Tasks : pc'[u] = "write" <=> pc[u] = "write"
           /\ \A u \in Tasks : pc[u] = "write" => job'[u] = job[u]
  <1>1. CASE Begin(t)
    <2>1. PICK j \in Job : pc' = [pc EXCEPT ![t] = FirstPC(j.op)] /\ job' = [job EXCEPT ![t] = j]
      BY <1>1 DEF Begin
    <2>2. FirstPC(j.op) \in {"lookup", "resolve", "check", "create"}
      BY DEF Job, FirstPC
    <2>3. QED  BY <1>1, <2>1, <2>2 DEF Begin, diskVars, Typed, TypeOK
  <1>2. CASE Await(t)
    BY <1>2 DEF Await, TakeValue, BeginInit, Goto, diskVars, Typed, TypeOK
  <1>3. CASE Read(t)
    BY <1>3 DEF Read, Resolve, Open, FailRead, ReadDescriptor, ReadBundle, Fail, Finish,
                Goto, diskVars, Typed, TypeOK
  <1>4. CASE Serve(t)
    BY <1>4 DEF Serve, RejectMethod, FastPath, EnterCell, AnswerFromIndex, OpenForBody,
                ReadBody, Answer, Finish, Goto, diskVars, Typed, TypeOK
  <1>5. CASE Switch(t) \/ InsertVersion(t)
    BY <1>5 DEF Switch, CheckVersion, SetVersion, InsertVersion, Finish, Goto, diskVars,
                Typed, TypeOK
  <1>6. QED  BY <1>1, <1>2, <1>3, <1>4, <1>5

(* Where neither files nor writers change, what Written says stays true. *)
LEMMA WrittenQuiet ==
    ASSUME WriterInMix, TornOnlyByTwo, UNCHANGED <<file, mix>>,
           \A u \in Tasks : pc'[u] = "write" <=> pc[u] = "write",
           \A u \in Tasks : pc[u] = "write" => job'[u] = job[u]
    PROVE  WriterInMix' /\ TornOnlyByTwo'
  <1>1. \A b \in Bundles, v \in Versions : Writing(b, v)' = Writing(b, v)
    BY DEF Writing
  <1>2. QED  BY <1>1 DEF WriterInMix, TornOnlyByTwo

LEMMA CreateWritten ==
    ASSUME Typed, WriterInMix, TornOnlyByTwo, NEW t \in Tasks, Create(t)
    PROVE  WriterInMix' /\ TornOnlyByTwo'
  <1>0. job[t].b \in Bundles /\ job[t].v \in Versions
    BY JobArguments DEF Create, Typed, TypeOK, Shape
  <1>1. PICK b \in Bundles, v \in Versions : b = job[t].b /\ v = job[t].v
    BY <1>0
  <1>2. /\ pc' = [pc EXCEPT ![t] = "write"] /\ UNCHANGED job
        /\ file' = [file EXCEPT ![b][v] = TornFile]
        /\ mix' = [mix EXCEPT ![b][v] = {job[t].e} \cup IF Writing(b, v) = {} THEN {} ELSE @]
    BY <1>1 DEF Create, Goto, PutFile
  <1>3. ASSUME NEW u \in Tasks, pc'[u] = "write"
        PROVE  job'[u].e \in mix'[job'[u].b][job'[u].v]
    <2>1. CASE u = t
      BY <1>1, <1>2, <2>1 DEF Typed, TypeOK
    <2>2. CASE u # t
      <3>1. pc[u] = "write" /\ job'[u] = job[u]  BY <1>2, <1>3, <2>2 DEF Typed, TypeOK
      <3>2. job[u].b \in Bundles /\ job[u].v \in Versions
        BY <3>1, JobArguments DEF Typed, TypeOK, Shape
      <3>3. job[u].e \in mix[job[u].b][job[u].v]  BY <3>1 DEF WriterInMix
      <3>4. CASE job[u].b = b /\ job[u].v = v
        <4>1. u \in Writing(b, v)  BY <3>1, <3>4 DEF Writing
        <4>2. mix'[b][v] = {job[t].e} \cup mix[b][v]
          <5>1. Writing(b, v) # {}  BY <4>1
          <5>2. QED  BY <1>1, <1>2, <5>1 DEF Typed, TypeOK
        <4>3. QED  BY <3>1, <3>3, <3>4, <4>2
      <3>5. CASE ~ (job[u].b = b /\ job[u].v = v)
        <4>1. mix'[job[u].b][job[u].v] = mix[job[u].b][job[u].v]
          BY <1>1, <1>2, <3>2, <3>5 DEF Typed, TypeOK
        <4>2. QED  BY <3>1, <3>3, <4>1
      <3>6. QED  BY <3>4, <3>5
    <2>3. QED  BY <2>1, <2>2
  <1>4. ASSUME NEW c \in Bundles, NEW w \in Versions,
               file'[c][w].state = "torn", Writing(c, w)' = {}
        PROVE  \E e1, e2 \in mix'[c][w] : e1 # e2
    <2>1. t \in Writing(b, v)'  BY <1>1, <1>2 DEF Writing, Typed, TypeOK
    <2>2. ~ (c = b /\ w = v)  BY <1>4, <2>1
    <2>3. file'[c][w] = file[c][w] /\ mix'[c][w] = mix[c][w]
      BY <1>1, <1>2, <2>2 DEF Typed, TypeOK
    <2>4. Writing(c, w) \subseteq Writing(c, w)'
      BY <1>2 DEF Writing, Typed, TypeOK
    <2>5. QED  BY <1>4, <2>3, <2>4 DEF TornOnlyByTwo
  <1>5. QED  BY <1>3, <1>4 DEF WriterInMix, TornOnlyByTwo

LEMMA WriteWritten ==
    ASSUME Typed, WriterInMix, TornOnlyByTwo, NEW t \in Tasks, Write(t)
    PROVE  WriterInMix' /\ TornOnlyByTwo'
  <1>0. job[t].b \in Bundles /\ job[t].v \in Versions
    BY JobArguments DEF Write, Typed, TypeOK, Shape
  <1>1. PICK b \in Bundles, v \in Versions : b = job[t].b /\ v = job[t].v
    BY <1>0
  <1>2. pc' = [pc EXCEPT ![t] = "insert"] /\ UNCHANGED <<job, mix>> /\ pc[t] = "write"
    BY DEF Write, Goto
  <1>3. WriterInMix'  BY <1>2 DEF WriterInMix, Typed, TypeOK
  <1>4. \A c \in Bundles, w \in Versions :
           /\ Writing(c, w)' = Writing(c, w) \ {t}
           /\ t \in Writing(c, w) => c = b /\ w = v
    <2>1. \A u \in Tasks : pc'[u] = "write" <=> u # t /\ pc[u] = "write"
      BY <1>2 DEF Typed, TypeOK
    <2>2. QED  BY <1>1, <1>2, <2>1 DEF Writing
  <1>5. \A c \in Bundles, w \in Versions : ~ (c = b /\ w = v) => file'[c][w] = file[c][w]
    <2>1. \E f : PutFile(b, v, f)  BY <1>1 DEF Write
    <2>2. QED  BY <1>1, <2>1 DEF PutFile, Typed, TypeOK
  <1>6. ASSUME file'[b][v].state = "torn", Writing(b, v) \ {t} = {}
        PROVE  \E e1, e2 \in mix[b][v] : e1 # e2
    <2>1. \A f : PutFile(b, v, f) => file'[b][v] = f
      BY DEF PutFile, Typed, TypeOK
    <2>2. ~ PutFile(b, v, WholeFile(job[t].e))  BY <1>6, <2>1 DEF WholeFile
    <2>3. PICK e \in mix[b][v] \ {job[t].e} : TRUE  BY <1>1, <1>6, <2>2 DEF Write
    <2>4. job[t].e \in mix[b][v]  BY <1>1, <1>2 DEF WriterInMix
    <2>5. QED  BY <2>3, <2>4
  <1>7. TornOnlyByTwo'  BY <1>2, <1>4, <1>5, <1>6 DEF TornOnlyByTwo
  <1>8. QED  BY <1>3, <1>7

LEMMA NextWritten == Typed /\ Written /\ [Next]_vars => Written'
  <1> SUFFICES ASSUME Typed, WriterInMix, TornOnlyByTwo, [Next]_vars, Faults \subseteq {"read"}
               PROVE  WriterInMix' /\ TornOnlyByTwo'
    BY DEF Written
  <1>1. ASSUME NEW t \in Tasks,
               Begin(t) \/ Await(t) \/ Read(t) \/ Serve(t) \/ Switch(t) \/ InsertVersion(t)
        PROVE  WriterInMix' /\ TornOnlyByTwo'
    BY <1>1, NoFileTouched, WrittenQuiet
  <1>2. ~ Restart /\ \A t \in Tasks : ~ FailWrite(t)  BY DEF Restart, FailWrite
  <1>3. ASSUME (\E b \in Bundles : Unload(b)) \/ UNCHANGED vars
        PROVE  WriterInMix' /\ TornOnlyByTwo'
    BY <1>3, WrittenQuiet DEF Unload, vars, taskVars, diskVars
  <1>4. QED
    BY <1>1, <1>2, <1>3, CreateWritten, WriteWritten DEF Next, Progress, Install

(***************************************************************************)
(* With no crash and no failing write, a version that is listed and that   *)
(* nobody is writing is a whole file, unless two of its editions were      *)
(* downloaded at once: this is why downloading the same bytes twice at the *)
(* same time does no harm (source.rs, write_remote_bundle).                *)
(***************************************************************************)
THEOREM InstalledFilesAreWhole == Spec => []InstalledFileWhole
  <1>1. Typed /\ Files /\ Written => InstalledFileWhole
    <2> SUFFICES ASSUME Typed, Files, Written, Faults \subseteq {"read"},
                        NEW b \in Bundles, NEW v \in Versions, ContainsEntry(remote, b, v),
                        Writing(b, v) = {}, \A e1, e2 \in mix[b][v] : e1 = e2
                 PROVE  file[b][v].state = "whole"
      BY DEF InstalledFileWhole
    <2>1. file[b][v].state \in {"absent", "torn", "whole"}  BY DEF Typed, TypeOK, File
    <2>2. file[b][v].state # "absent"  BY DEF Files, Present
    <2>3. file[b][v].state # "torn"  BY DEF Written, TornOnlyByTwo
    <2>4. QED  BY <2>1, <2>2, <2>3
  <1>2. QED
    BY <1>1, InitTyped, NextTyped, InitManifests, NextManifests, InitFiles, NextFiles,
       InitWritten, NextWritten, PTL
    DEF Spec

-----------------------------------------------------------------------------
(***************************************************************************)
(* An answer resolves its bundle twice: for the descriptor, possibly in    *)
(* another task and long ago, and for the body.  As long as no step        *)
(* changes what the bundle resolves to, everything a task or the cache     *)
(* holds of it is of that one location; what makes this inductive is that  *)
(* tasks share a cell only if they serve the same bundle.                  *)
(***************************************************************************)
Unswitched == \A b \in Bundles : Resolved(remote', b) = Resolved(remote, b)

Now(t) == Resolved(remote, job[t].b)

CellOfOneBundle ==
    \A t, u \in Tasks : cell[t] # None /\ cell[t] = cell[u] => job[t].b = job[u].b

HoldsCurrent ==
    \A t \in Tasks : cell[t] # None /\ value[cell[t]] # None => LocationOf(value[cell[t]]) = Now(t)

CachedCurrent ==
    \A b \in Bundles :
      cellOf[b] # None /\ value[cellOf[b]] # None
        => LocationOf(value[cellOf[b]]) = Resolved(remote, b)

(* The task has its descriptor: it looks for an entry, or for the body. *)
Described(t) ==
    \/ pc[t] \in {"entry", "answer"}
    \/ pc[t] \in {"resolve", "open", "read"} /\ job[t].op = "get" /\ cell[t] = None

TaskCurrent(t) ==
    /\ pc[t] \in {"open", "read"} => loc[t] = Now(t)
    /\ Described(t) => LocationOf(desc[t]) = Now(t)
    /\ pc[t] = "answer" => LocationOf(body[t]) = Now(t)

OneVersion ==
    /\ CellOfOneBundle
    /\ HoldsCurrent
    /\ CachedCurrent
    /\ \A t \in Tasks : TaskCurrent(t)

LEMMA InitOneVersion == Init => OneVersion
  BY DEF Init, OneVersion, CellOfOneBundle, HoldsCurrent, CachedCurrent, TaskCurrent, Described

(* A task has a bundle whenever it is busy, and it resolves to the same location. *)
LEMMA NowStays ==
    ASSUME Typed, Unswitched, NEW u \in Tasks, job[u].b \in Bundles, job'[u] = job[u]
    PROVE  Now(u)' = Now(u)
  BY DEF Unswitched, Now

LEMMA BusyBundle ==
    ASSUME Typed, NEW u \in Tasks, pc[u] \in {"lookup", "cell", "resolve", "open", "read", "entry", "answer"}
    PROVE  job[u].b \in Bundles
  BY JobArguments DEF Typed, TypeOK, Shape

LEMMA CellBundle ==
    ASSUME Typed, NEW u \in Tasks, cell[u] # None
    PROVE  job[u].b \in Bundles /\ cell[u] \in Cells
  BY BusyBundle DEF Typed, TypeOK, Shape

(* An undisturbed task keeps what it holds current. *)
LEMMA OthersCurrent ==
    ASSUME Typed, OneVersion, Unswitched, NEW u \in Tasks, Undisturbed(u),
           UNCHANGED <<desc[u], body[u]>>
    PROVE  TaskCurrent(u)'
  <1>1. pc[u] \in {"entry", "answer", "resolve", "open", "read"} => Now(u)' = Now(u)
    BY BusyBundle, NowStays DEF Undisturbed
  <1>2. Described(u)' <=> Described(u)  BY DEF Described, Undisturbed
  <1>3. TaskCurrent(u)  BY DEF OneVersion
  <1>4. QED  BY <1>1, <1>2, <1>3 DEF TaskCurrent, Described, Undisturbed

LEMMA OwnLocals ==
    ASSUME Typed, NEW t \in Tasks, NEW u \in Tasks, u # t,
           Begin(t) \/ Await(t) \/ Progress(t)
    PROVE  UNCHANGED <<desc[u], body[u]>>
  <1>1. CASE Begin(t) \/ Await(t)
    BY <1>1 DEF Begin, Await, TakeValue, BeginInit, Typed, TypeOK
  <1>2. CASE Read(t)
    BY <1>2 DEF Read, Resolve, Open, FailRead, ReadDescriptor, ReadBundle, Fail, Finish,
                Typed, TypeOK
  <1>3. CASE Serve(t)
    BY <1>3 DEF Serve, RejectMethod, FastPath, EnterCell, AnswerFromIndex, OpenForBody, ReadBody,
                Answer, Finish, Typed, TypeOK
  <1>4. CASE Switch(t) \/ Install(t)
    BY <1>4 DEF Switch, CheckVersion, SetVersion, Install, Create, Write, FailWrite,
                InsertVersion, Finish, Typed, TypeOK
  <1>5. QED  BY <1>1, <1>2, <1>3, <1>4 DEF Progress

(* The step of a task that keeps the cells as they are, or lets go of one. *)
LEMMA CellsCurrent ==
    ASSUME Typed, OneVersion, Unswitched,
           \A u \in Tasks : cell'[u] # None => cell'[u] = cell[u] /\ job'[u] = job[u],
           \A b \in Bundles : cellOf'[b] # None => cellOf'[b] = cellOf[b],
           \A c \in Cells : value'[c] \in {None, value[c]}
    PROVE  CellOfOneBundle' /\ HoldsCurrent' /\ CachedCurrent'
  <1>1. CellOfOneBundle'  BY DEF OneVersion, CellOfOneBundle
  <1>2. ASSUME NEW u \in Tasks, cell'[u] # None, value'[cell'[u]] # None
        PROVE  LocationOf(value'[cell'[u]]) = Now(u)'
    <2>1. cell'[u] = cell[u] /\ job'[u] = job[u]  BY <1>2
    <2>2. job[u].b \in Bundles /\ cell[u] \in Cells  BY <1>2, <2>1, CellBundle
    <2>3. value'[cell[u]] = value[cell[u]]  BY <1>2, <2>1, <2>2
    <2>4. LocationOf(value[cell[u]]) = Now(u)
      BY <1>2, <2>1, <2>3 DEF OneVersion, HoldsCurrent
    <2>5. QED  BY <2>1, <2>2, <2>3, <2>4, NowStays
  <1>3. HoldsCurrent'
    BY <1>2 DEF HoldsCurrent, LocationOf
  <1>4. ASSUME NEW b \in Bundles, cellOf'[b] # None, value'[cellOf'[b]] # None
        PROVE  LocationOf(value'[cellOf'[b]]) = Resolved(remote', b)
    <2>1. cellOf'[b] = cellOf[b] /\ cellOf[b] \in Cells  BY <1>4 DEF Typed, TypeOK
    <2>2. value'[cellOf[b]] = value[cellOf[b]]  BY <1>4, <2>1
    <2>3. LocationOf(value[cellOf[b]]) = Resolved(remote, b)
      BY <1>4, <2>1, <2>2 DEF OneVersion, CachedCurrent
    <2>4. QED  BY <2>1, <2>2, <2>3 DEF Unswitched
  <1>5. CachedCurrent'  BY <1>4 DEF CachedCurrent, LocationOf
  <1>6. QED  BY <1>1, <1>3, <1>5

(* A task that is not serving holds nothing. *)
LEMMA RestingCurrent ==
    ASSUME NEW t \in Tasks, pc'[t] \notin {"resolve", "open", "read", "entry", "answer"}
    PROVE  TaskCurrent(t)'
  BY DEF TaskCurrent, Described

(* Of the tasks, only the one that moves is to be looked at. *)
LEMMA OneMoves ==
    ASSUME Typed, OneVersion, Unswitched, NEW t \in Tasks, Begin(t) \/ Await(t) \/ Progress(t),
           TaskCurrent(t)', CellOfOneBundle', HoldsCurrent', CachedCurrent'
    PROVE  OneVersion'
  <1>1. \A u \in Tasks : u # t => TaskCurrent(u)'
    BY OwnStep, OwnLocals, OthersCurrent
  <1>2. QED  BY <1>1 DEF OneVersion

(* The steps of a task that end its call, or come before it has anything. *)
LEMMA OneVersionQuiet ==
    ASSUME Typed, OneVersion, Unswitched, NEW t \in Tasks,
           \/ Begin(t) \/ RejectMethod(t) \/ FastPath(t) \/ Open(t) \/ ReadBundle(t)
           \/ AnswerFromIndex(t) \/ OpenForBody(t) \/ ReadBody(t) \/ Answer(t)
           \/ Switch(t) \/ Install(t)
    PROVE  CellOfOneBundle' /\ HoldsCurrent' /\ CachedCurrent'
  <1>1. UNCHANGED <<cellOf, value>>  BY NoCellTouched DEF cacheVars
  <1>2. ASSUME NEW u \in Tasks, cell'[u] # None
        PROVE  cell'[u] = cell[u] /\ job'[u] = job[u]
    <2>1. CASE u = t
      <3>1. CASE Begin(t) \/ FastPath(t) \/ AnswerFromIndex(t) \/ OpenForBody(t)
        BY <1>2, <2>1, <3>1 DEF Begin, FastPath, AnswerFromIndex, OpenForBody, Finish, Typed,
                TypeOK, Shape
      <3>2. CASE RejectMethod(t) \/ ReadBundle(t) \/ Answer(t)
        BY <1>2, <2>1, <3>2 DEF RejectMethod, ReadBundle, Answer, Finish, Typed, TypeOK
      <3>3. CASE ReadBody(t)
        BY <1>2, <2>1, <3>3 DEF ReadBody, Initialising, Finish, Typed, TypeOK
      <3>4. CASE Open(t)
        BY <2>1, <3>4 DEF Open
      <3>5. CASE Switch(t) \/ Install(t)
        BY <1>2, <2>1, <3>5 DEF Switch, CheckVersion, SetVersion, Install, Create, Write,
                FailWrite, InsertVersion, Finish, Typed, TypeOK, Shape
      <3>6. QED  BY <3>1, <3>2, <3>3, <3>4, <3>5
    <2>2. CASE u # t
      BY <2>2, OwnStep DEF Progress, Read, Serve, Undisturbed
    <2>3. QED  BY <2>1, <2>2
  <1>3. QED  BY <1>1, <1>2, CellsCurrent

LEMMA NextOneVersion == Typed /\ Fresh /\ OneVersion /\ [Next]_vars /\ Unswitched => OneVersion'
  <1> SUFFICES ASSUME Typed, Fresh, OneVersion, [Next]_vars, Unswitched PROVE OneVersion'
    OBVIOUS
  <1> DEFINE Moves(t) == Begin(t) \/ Await(t) \/ Progress(t)
  <1>1. ASSUME NEW t \in Tasks, Begin(t) \/ RejectMethod(t) \/ ReadBundle(t)
               \/ AnswerFromIndex(t) \/ Answer(t) \/ Switch(t) \/ Install(t)
        PROVE  OneVersion'
    <2>1. pc'[t] \notin {"resolve", "open", "read", "entry", "answer"} \/ TaskCurrent(t)'
      <3>1. CASE Begin(t)
        <4>1. PICK j \in Job : pc' = [pc EXCEPT ![t] = FirstPC(j.op)]
                               /\ job' = [job EXCEPT ![t] = j]
          BY <3>1 DEF Begin
        <4>2. FirstPC(j.op) \in {"lookup", "resolve", "check", "create"}
              /\ (FirstPC(j.op) = "resolve" => j.op = "fetch")
          BY DEF Job, FirstPC
        <4>3. QED  BY <4>1, <4>2 DEF TaskCurrent, Described, Typed, TypeOK
      <3>2. CASE RejectMethod(t) \/ ReadBundle(t) \/ AnswerFromIndex(t) \/ Answer(t)
        BY <3>2 DEF RejectMethod, ReadBundle, AnswerFromIndex, Answer, Finish, Goto, Typed, TypeOK
      <3>3. CASE Switch(t) \/ Install(t)
        BY <3>3 DEF Switch, CheckVersion, SetVersion, Install, Create, Write, FailWrite,
                    InsertVersion, Finish, Goto, Typed, TypeOK
      <3>4. QED  BY <1>1, <3>1, <3>2, <3>3
    <2>2. TaskCurrent(t)'  BY <2>1, RestingCurrent
    <2>3. Begin(t) \/ Progress(t)  BY <1>1 DEF Progress, Read, Serve
    <2>4. QED  BY <1>1, <2>2, <2>3, OneVersionQuiet, OneMoves
  <1>2. ASSUME NEW t \in Tasks, FastPath(t)
        PROVE  OneVersion'
    <2>1. job[t].b \in Bundles  BY <1>2, BusyBundle DEF FastPath
    <2>2. /\ desc'[t] = value[cellOf[job[t].b]] /\ pc'[t] = "entry" /\ job'[t] = job[t]
          /\ cellOf[job[t].b] # None /\ value[cellOf[job[t].b]] # None
      BY <1>2 DEF FastPath, Goto, Typed, TypeOK
    <2>3. LocationOf(desc'[t]) = Now(t)
      BY <2>1, <2>2 DEF OneVersion, CachedCurrent, Now
    <2>4. Now(t)' = Now(t)  BY <2>1, <2>2, NowStays
    <2>5. TaskCurrent(t)'  BY <2>2, <2>3, <2>4 DEF TaskCurrent, LocationOf
    <2>6. Progress(t)  BY <1>2 DEF Progress, Serve
    <2>7. QED  BY <1>2, <2>5, <2>6, OneVersionQuiet, OneMoves
  <1>3. ASSUME NEW t \in Tasks, Open(t) \/ OpenForBody(t)
        PROVE  OneVersion'
    <2>1. job[t].b \in Bundles  BY <1>3, BusyBundle DEF Open, OpenForBody
    <2>2. Now(t)' = Now(t)
      BY <1>3, <2>1, NowStays DEF Open, OpenForBody
    <2>3. TaskCurrent(t)  BY DEF OneVersion
    <2>4. TaskCurrent(t)'
      BY <1>3, <2>2, <2>3 DEF Open, OpenForBody, Goto, TaskCurrent, Described, Typed, TypeOK, Shape
    <2>5. Progress(t)  BY <1>3 DEF Progress, Read, Serve
    <2>6. QED  BY <1>3, <2>4, <2>5, OneVersionQuiet, OneMoves
  <1>4. ASSUME NEW t \in Tasks, ReadBody(t)
        PROVE  OneVersion'
    <2>1. job[t].b \in Bundles /\ loc[t] \in Location /\ cell[t] = None /\ pc[t] = "read"
          /\ job[t].op = "get"
      BY <1>4, BusyBundle DEF ReadBody, Initialising, Typed, TypeOK, Shape
    <2>2. PICK c \in Readable(job[t].b, loc[t]) :
             \/ /\ body' = [body EXCEPT ![t] = c]
                /\ Goto(t, "answer")
                /\ UNCHANGED <<job, cell, loc, desc>>
             \/ c # desc[t] /\ Finish(t)
      BY <1>4 DEF ReadBody
    <2>3. LocationOf(c) = loc[t]  BY <2>1, <2>2, ReadableLocation
    <2>4. TaskCurrent(t) /\ Described(t)  BY <2>1 DEF OneVersion, Described
    <2>5. CASE Finish(t)
      BY <2>5, RestingCurrent, <1>4, OneVersionQuiet, OneMoves
      DEF Finish, Goto, Typed, TypeOK, Progress, Serve
    <2>6. CASE ~ Finish(t)
      <3>1. /\ body'[t] = c /\ pc'[t] = "answer" /\ UNCHANGED <<job, desc>>
        BY <2>2, <2>6 DEF Goto, Typed, TypeOK
      <3>2. Now(t)' = Now(t)  BY <2>1, <3>1, NowStays
      <3>3. LocationOf(body'[t]) = Now(t)' /\ LocationOf(desc'[t]) = Now(t)'
        BY <2>1, <2>3, <2>4, <3>1, <3>2 DEF TaskCurrent
      <3>4. TaskCurrent(t)'  BY <3>1, <3>3 DEF TaskCurrent, LocationOf
      <3>5. Progress(t)  BY <1>4 DEF Progress, Serve
      <3>6. QED  BY <1>4, <3>4, <3>5, OneVersionQuiet, OneMoves
    <2>7. QED  BY <2>5, <2>6
  <1>5. ASSUME NEW t \in Tasks, TakeValue(t)
        PROVE  OneVersion'
    <2>1. job[t].b \in Bundles /\ cell[t] # None /\ cell[t] \in Cells
      BY <1>5, BusyBundle, CellBundle DEF TakeValue, Typed, TypeOK, Shape
    <2>2. /\ desc'[t] = value[cell[t]] /\ value[cell[t]] # None /\ pc'[t] = "entry"
          /\ UNCHANGED <<job, cellOf>> /\ cell' = [cell EXCEPT ![t] = None]
          /\ FreeCells(value)
      BY <1>5 DEF TakeValue, Goto, Typed, TypeOK
    <2>3. LocationOf(desc'[t]) = Now(t)'
      BY <2>1, <2>2, NowStays DEF OneVersion, HoldsCurrent
    <2>4. TaskCurrent(t)'  BY <2>2, <2>3 DEF TaskCurrent, LocationOf
    <2>5. \A u \in Tasks : cell'[u] # None => cell'[u] = cell[u] /\ job'[u] = job[u]
      BY <2>2 DEF Typed, TypeOK
    <2>6. \A c \in Cells : value'[c] \in {None, value[c]}  BY <2>2, FreeCellsKeeps
    <2>7. CellOfOneBundle' /\ HoldsCurrent' /\ CachedCurrent'
      BY <2>2, <2>5, <2>6, CellsCurrent
    <2>8. QED  BY <1>5, <2>4, <2>7, OneMoves DEF Await
  <1>6. ASSUME NEW t \in Tasks, Fail(t), Read(t)
        PROVE  OneVersion'
    <2>1. cell' = [cell EXCEPT ![t] = None] /\ UNCHANGED cellOf /\ FreeCells(value)
          /\ job' = [job EXCEPT ![t] = NoJob] /\ pc'[t] = "idle"
      BY <1>6 DEF Fail, Finish, Goto, Typed, TypeOK
    <2>2. TaskCurrent(t)'  BY <2>1, RestingCurrent
    <2>3. \A u \in Tasks : cell'[u] # None => cell'[u] = cell[u] /\ job'[u] = job[u]
      BY <2>1 DEF Typed, TypeOK
    <2>4. \A c \in Cells : value'[c] \in {None, value[c]}  BY <2>1, FreeCellsKeeps
    <2>5. CellOfOneBundle' /\ HoldsCurrent' /\ CachedCurrent'
      BY <2>1, <2>3, <2>4, CellsCurrent
    <2>6. QED  BY <1>6, <2>2, <2>5, OneMoves DEF Progress
  <1>7. ASSUME NEW t \in Tasks, FailRead(t)
        PROVE  OneVersion'
    <2>1. Fail(t)  BY <1>7 DEF FailRead
    <2>2. Read(t)  BY <1>7 DEF Read
    <2>3. QED  BY <1>6, <2>1, <2>2
  <1>8. ASSUME NEW t \in Tasks, Resolve(t)
        PROVE  OneVersion'
    <2>0. Read(t)  BY <1>8 DEF Read
    <2>1. CASE Fail(t)  BY <1>6, <2>0, <2>1
    <2>2. CASE ~ Fail(t)
      <3>1. job[t].b \in Bundles /\ pc[t] = "resolve"  BY <1>8, BusyBundle DEF Resolve
      <3>2. /\ loc'[t] = Now(t) /\ pc'[t] = "open" /\ UNCHANGED <<job, cell, desc, cellOf, value>>
        BY <1>8, <2>2 DEF Resolve, Now, Goto, cacheVars, Typed, TypeOK
      <3>3. Now(t)' = Now(t)  BY <3>1, <3>2, NowStays
      <3>4. TaskCurrent(t)  BY DEF OneVersion
      <3>5. TaskCurrent(t)'  BY <3>1, <3>2, <3>3, <3>4 DEF TaskCurrent, Described
      <3>6. CellOfOneBundle' /\ HoldsCurrent' /\ CachedCurrent'  BY <3>2, CellsCurrent
      <3>7. QED  BY <2>0, <3>5, <3>6, OneMoves DEF Progress
    <2>3. QED  BY <2>1, <2>2
  <1>9. ASSUME NEW t \in Tasks, BeginInit(t)
        PROVE  OneVersion'
    <2>1. UNCHANGED <<job, cell, cellOf, value>> /\ pc'[t] = "resolve" /\ cell[t] # None
      BY <1>9 DEF BeginInit, Goto, Typed, TypeOK, Shape
    <2>2. TaskCurrent(t)'  BY <2>1 DEF TaskCurrent, Described
    <2>3. CellOfOneBundle' /\ HoldsCurrent' /\ CachedCurrent'  BY <2>1, CellsCurrent
    <2>4. QED  BY <1>9, <2>2, <2>3, OneMoves DEF Await
  <1>10. ASSUME NEW t \in Tasks, EnterCell(t)
        PROVE  OneVersion'
    <2>1. job[t].b \in Bundles  BY <1>10, BusyBundle DEF EnterCell
    <2>2. pc'[t] = "cell" /\ UNCHANGED job  BY <1>10 DEF EnterCell, Goto, Typed, TypeOK
    <2>3. TaskCurrent(t)'  BY <2>2, RestingCurrent
    <2>4. PICK c \in Cells :
             /\ cell' = [cell EXCEPT ![t] = c]
             /\ \/ cellOf[job[t].b] = c /\ UNCHANGED <<cellOf, value>>
                \/ /\ Unused(c)
                   /\ cellOf' = [cellOf EXCEPT ![job[t].b] = c]
                   /\ value' = [value EXCEPT ![c] = None]
      BY <1>10, <2>1 DEF EnterCell, cacheVars, Typed, TypeOK
    <2>5. c # None  BY SourceAssumption
    <2>6. \A u \in Tasks : cell[u] = c => job[u].b = job[t].b
      BY <2>1, <2>4, <2>5 DEF Fresh, CellUsedForItsBundle, Unused
    <2>7. CellOfOneBundle'
      BY <2>2, <2>4, <2>6 DEF OneVersion, CellOfOneBundle, Typed, TypeOK
    <2>8. ASSUME NEW b \in Bundles, cellOf'[b] # None
          PROVE  cellOf'[b] = cellOf[b] \/ (b = job[t].b /\ cellOf'[b] = c /\ value'[c] = None)
      BY <2>1, <2>4, <2>8 DEF Typed, TypeOK
    <2>9. \A x \in Cells : value'[x] \in {None, value[x]}
      BY <2>4 DEF Typed, TypeOK
    <2>10. ASSUME NEW u \in Tasks, cell'[u] # None, value'[cell'[u]] # None
           PROVE  LocationOf(value'[cell'[u]]) = Now(u)'
      <3>1. CASE u = t
        <4>1. cell'[u] = c /\ cellOf[job[t].b] = c /\ value'[c] = value[c]
          BY <2>4, <2>10, <3>1 DEF Typed, TypeOK
        <4>2. LocationOf(value[c]) = Now(t)
          BY <2>1, <2>5, <2>10, <4>1 DEF OneVersion, CachedCurrent, Now
        <4>3. Now(t)' = Now(t)  BY <2>1, <2>2, NowStays
        <4>4. QED  BY <3>1, <4>1, <4>2, <4>3
      <3>2. CASE u # t
        <4>1. cell'[u] = cell[u]  BY <2>4, <3>2 DEF Typed, TypeOK
        <4>2. job[u].b \in Bundles /\ cell[u] \in Cells  BY <2>10, <4>1, CellBundle
        <4>3. value'[cell[u]] = value[cell[u]]  BY <2>9, <2>10, <4>1, <4>2
        <4>4. LocationOf(value[cell[u]]) = Now(u)
          BY <2>10, <4>1, <4>3 DEF OneVersion, HoldsCurrent
        <4>5. Now(u)' = Now(u)  BY <2>2, <4>2, NowStays
        <4>6. QED  BY <4>1, <4>3, <4>4, <4>5
      <3>3. QED  BY <3>1, <3>2
    <2>11. HoldsCurrent'  BY <2>10 DEF HoldsCurrent, LocationOf
    <2>12. ASSUME NEW b \in Bundles, cellOf'[b] # None, value'[cellOf'[b]] # None
           PROVE  LocationOf(value'[cellOf'[b]]) = Resolved(remote', b)
      <3>1. cellOf'[b] = cellOf[b]  BY <2>8, <2>12
      <3>2. cellOf[b] \in Cells  BY <2>12, <3>1 DEF Typed, TypeOK
      <3>3. value'[cellOf[b]] = value[cellOf[b]]  BY <2>9, <2>12, <3>1, <3>2
      <3>4. LocationOf(value[cellOf[b]]) = Resolved(remote, b)
        BY <2>12, <3>1, <3>3 DEF OneVersion, CachedCurrent
      <3>5. QED  BY <3>1, <3>3, <3>4 DEF Unswitched
    <2>13. CachedCurrent'  BY <2>12 DEF CachedCurrent, LocationOf
    <2>14. QED  BY <1>10, <2>3, <2>7, <2>11, <2>13, OneMoves DEF Progress, Serve
  <1>11. ASSUME NEW t \in Tasks, ReadDescriptor(t)
        PROVE  OneVersion'
    <2>1. job[t].b \in Bundles /\ loc[t] \in Location /\ cell[t] \in Cells /\ cell[t] # None
          /\ pc[t] = "read"
      BY <1>11, JobArguments DEF ReadDescriptor, Initialising, Typed, TypeOK, Shape
    <2>2. PICK d \in Readable(job[t].b, loc[t]) :
             desc' = [desc EXCEPT ![t] = d] /\ FreeCells([value EXCEPT ![cell[t]] = d])
      BY <1>11 DEF ReadDescriptor
    <2>3. cell' = [cell EXCEPT ![t] = None] /\ UNCHANGED <<cellOf, job>> /\ pc'[t] = "entry"
      BY <1>11 DEF ReadDescriptor, Goto, Typed, TypeOK
    <2>4. loc[t] = Now(t)  BY <2>1 DEF OneVersion, TaskCurrent
    <2>5. LocationOf(d) = Now(t)  BY <2>1, <2>2, <2>4, ReadableLocation
    <2>6. Now(t)' = Now(t)  BY <2>1, <2>3, NowStays
    <2>7. TaskCurrent(t)'
      <3>1. desc'[t] = d  BY <2>2 DEF Typed, TypeOK
      <3>2. QED  BY <2>3, <2>5, <2>6, <3>1 DEF TaskCurrent, LocationOf
    <2>8. \A x \in Cells : value'[x] \in {None, IF x = cell[t] THEN d ELSE value[x]}
      <3> DEFINE val == [value EXCEPT ![cell[t]] = d]
      <3>1. \A x \in Cells : val[x] = IF x = cell[t] THEN d ELSE value[x]
        BY <2>1 DEF Typed, TypeOK
      <3>2. FreeCells(val)  BY <2>2
      <3> HIDE DEF val
      <3>3. \A x \in Cells : value'[x] \in {None, val[x]}  BY <3>2, FreeCellsKeeps
      <3>4. QED  BY <3>1, <3>3
    <2>9. \A u \in Tasks : cell'[u] # None => u # t /\ cell'[u] = cell[u]
      BY <2>3 DEF Typed, TypeOK
    <2>10. ASSUME NEW u \in Tasks, cell'[u] # None, value'[cell'[u]] # None
           PROVE  LocationOf(value'[cell'[u]]) = Now(u)'
      <3>1. cell'[u] = cell[u] /\ job[u].b \in Bundles /\ cell[u] \in Cells
        BY <2>9, <2>10, CellBundle
      <3>2. Now(u)' = Now(u)  BY <2>3, <3>1, NowStays
      <3>3. CASE cell[u] = cell[t]
        <4>1. job[u].b = job[t].b  BY <2>1, <3>3 DEF OneVersion, CellOfOneBundle
        <4>2. value'[cell[u]] = d  BY <2>8, <2>10, <3>1, <3>3
        <4>3. QED  BY <2>5, <3>1, <3>2, <4>1, <4>2 DEF Now
      <3>4. CASE cell[u] # cell[t]
        <4>1. value'[cell[u]] = value[cell[u]]  BY <2>8, <2>10, <3>1, <3>4
        <4>2. LocationOf(value[cell[u]]) = Now(u)
          BY <2>10, <3>1, <4>1 DEF OneVersion, HoldsCurrent
        <4>3. QED  BY <3>1, <3>2, <4>1, <4>2
      <3>5. QED  BY <3>3, <3>4
    <2>11. HoldsCurrent'  BY <2>10 DEF HoldsCurrent, LocationOf
    <2>12. ASSUME NEW b \in Bundles, cellOf[b] # None, value'[cellOf[b]] # None
           PROVE  LocationOf(value'[cellOf[b]]) = Resolved(remote', b)
      <3>1. cellOf[b] \in Cells  BY <2>12 DEF Typed, TypeOK
      <3>2. Resolved(remote', b) = Resolved(remote, b)  BY DEF Unswitched
      <3>3. CASE cellOf[b] = cell[t]
        <4>1. job[t].b = b  BY <2>1, <3>3 DEF Fresh, CellUsedForItsBundle
        <4>2. value'[cellOf[b]] = d  BY <2>8, <2>12, <3>1, <3>3
        <4>3. QED  BY <2>5, <3>2, <4>1, <4>2 DEF Now
      <3>4. CASE cellOf[b] # cell[t]
        <4>1. value'[cellOf[b]] = value[cellOf[b]]  BY <2>8, <2>12, <3>1, <3>4
        <4>2. QED  BY <2>12, <3>2, <4>1 DEF OneVersion, CachedCurrent
      <3>5. QED  BY <3>3, <3>4
    <2>13. CachedCurrent'  BY <2>3, <2>12 DEF CachedCurrent, LocationOf
    <2>14. CellOfOneBundle'  BY <2>3, <2>9 DEF OneVersion, CellOfOneBundle
    <2>15. QED  BY <1>11, <2>7, <2>11, <2>13, <2>14, OneMoves DEF Progress, Read
  <1>12. CASE Restart
    BY <1>12 DEF Restart, OneVersion, CellOfOneBundle, HoldsCurrent, CachedCurrent, TaskCurrent,
                 Described
  <1>13. ASSUME NEW b \in Bundles, Unload(b)
        PROVE  OneVersion'
    <2>1. UNCHANGED taskVars /\ cellOf' = [cellOf EXCEPT ![b] = None] /\ FreeCells(value)
      BY <1>13 DEF Unload
    <2>2. \A a \in Bundles : cellOf'[a] # None => cellOf'[a] = cellOf[a]
      BY <2>1 DEF Typed, TypeOK
    <2>3. CellOfOneBundle' /\ HoldsCurrent' /\ CachedCurrent'
      BY <2>1, <2>2, FreeCellsKeeps, CellsCurrent DEF taskVars
    <2>4. \A u \in Tasks : TaskCurrent(u)'
      BY <2>1, OthersCurrent DEF taskVars, Undisturbed
    <2>5. QED  BY <2>3, <2>4 DEF OneVersion
  <1>14. CASE UNCHANGED vars
    <2>1. CellOfOneBundle' /\ HoldsCurrent' /\ CachedCurrent'
      BY <1>14, CellsCurrent DEF vars, taskVars, cacheVars
    <2>2. \A u \in Tasks : TaskCurrent(u)'
      BY <1>14, OthersCurrent DEF vars, taskVars, Undisturbed
    <2>3. QED  BY <2>1, <2>2 DEF OneVersion
  <1>15. QED
    BY <1>1, <1>2, <1>3, <1>4, <1>5, <1>7, <1>8, <1>9, <1>10, <1>11, <1>12, <1>13, <1>14
    DEF Next, Await, Progress, Read, Serve

LEMMA OneVersionAnswers == OneVersion => AnswerOfOneVersion
  <1> SUFFICES ASSUME OneVersion, NEW t \in Tasks, pc[t] = "answer"
               PROVE  desc[t].kind = body[t].kind /\ desc[t].v = body[t].v
    BY DEF AnswerOfOneVersion
  <1>1. LocationOf(desc[t]) = LocationOf(body[t])
    BY DEF OneVersion, TaskCurrent, Described
  <1>2. LocationOf(desc[t]).kind = LocationOf(body[t]).kind
        /\ LocationOf(desc[t]).v = LocationOf(body[t]).v
    BY <1>1
  <1>3. QED  BY <1>2 DEF LocationOf

(***************************************************************************)
(* As long as no step changes the location a bundle resolves to, the body  *)
(* of every answer is of the version of its descriptor, whatever fails, is *)
(* unloaded, restarted or read again in between.                           *)
(***************************************************************************)
THEOREM UnswitchedAnswersAreOfOneVersion ==
    Spec /\ [][Unswitched]_vars => []AnswerOfOneVersion
  <1>1. Typed /\ Fresh /\ OneVersion /\ [Next]_vars /\ [Unswitched]_vars => OneVersion'
    <2>1. UNCHANGED vars => Unswitched  BY DEF vars, Unswitched
    <2>2. QED  BY <2>1, NextOneVersion
  <1>2. QED
    BY <1>1, InitTyped, NextTyped, InitFresh, NextFresh, InitOneVersion, OneVersionAnswers, PTL
    DEF Spec

(* Downloads alone switch nothing for a bundle that has a current version. *)
Downloading ==
    /\ \A b \in Bundles : HasEntry(saved, b)
    /\ \A b \in Bundles : remote[b].current = saved[b].current
    /\ \A t \in Tasks : job[t].op # "update"

LEMMA NextDownloading ==
    Typed /\ Downloading /\ [Next]_vars /\ "update" \notin Jobs => Downloading' /\ Unswitched
  <1> SUFFICES ASSUME Typed, Downloading, [Next]_vars, "update" \notin Jobs
               PROVE  Downloading' /\ Unswitched
    OBVIOUS
  <1>1. UNCHANGED saved  BY SavedConstant
  <1>2. ASSUME NEW t \in Tasks
        PROVE  job'[t].op # "update"
    <2>1. ASSUME NEW u \in Tasks, Begin(u)
          PROVE  job'[t].op # "update"
      BY <2>1 DEF Begin, Downloading, Typed, TypeOK
    <2>2. ASSUME NEW u \in Tasks, Await(u) \/ Progress(u)
          PROVE  job'[t] \in {job[t], NoJob}
      BY <2>2 DEF Await, TakeValue, BeginInit, Progress, Read, Resolve, Open, FailRead,
                  ReadDescriptor, ReadBundle, Fail, Serve, RejectMethod, FastPath, EnterCell,
                  AnswerFromIndex, OpenForBody, ReadBody, Answer, Switch, CheckVersion, SetVersion,
                  Install, Create, Write, FailWrite, InsertVersion, Finish, Typed, TypeOK
    <2>3. Restart \/ (\E b \in Bundles : Unload(b)) \/ UNCHANGED vars => job'[t] \in {job[t], NoJob}
      BY DEF Restart, Unload, vars, taskVars
    <2>4. QED  BY <2>1, <2>2, <2>3 DEF Next, Downloading, NoJob
  <1>3. ASSUME NEW b \in Bundles
        PROVE  remote'[b].current = remote[b].current
    <2>1. ASSUME NEW t \in Tasks,
               Begin(t) \/ Await(t) \/ Read(t) \/ Serve(t) \/ Create(t) \/ Write(t) \/ FailWrite(t)
               \/ CheckVersion(t)
          PROVE  UNCHANGED remote
      BY <2>1, QuietStep DEF CheckVersion
    <2>2. \A t \in Tasks : ~ SetVersion(t)
      BY DEF SetVersion, Downloading, Typed, Shape
    <2>3. ASSUME NEW t \in Tasks, InsertVersion(t)
          PROVE  remote'[b].current = remote[b].current
      <3>1. job[t].b \in Bundles /\ job[t].v \in Versions /\ job[t].e \in Metas
        BY <2>3, JobArguments DEF InsertVersion, Typed, TypeOK, Shape
      <3>2. remote[job[t].b].current # None
        BY <3>1 DEF Downloading, HasEntry
      <3>3. remote \in Data /\ remote' = InsertEntry(remote, job[t].b, job[t].v, job[t].e)
        BY <2>3 DEF InsertVersion, Typed, TypeOK
      <3>4. CASE ContainsEntry(remote, job[t].b, job[t].v)
        BY <3>1, <3>3, <3>4, InsertEntryLists
      <3>5. CASE ~ ContainsEntry(remote, job[t].b, job[t].v)
        <4>1. remote'[b].current = IF b = job[t].b /\ remote[job[t].b].current = None
                                   THEN job[t].v ELSE remote[b].current
          BY <3>1, <3>3, <3>5, InsertEntryLists
        <4>2. QED  BY <3>2, <4>1
      <3>6. QED  BY <3>4, <3>5
    <2>4. Restart => remote'[b].current = remote[b].current
      BY DEF Restart, Downloading
    <2>5. (\E a \in Bundles : Unload(a)) \/ UNCHANGED vars => UNCHANGED remote
      BY DEF Unload, vars
    <2>6. QED
      BY <2>1, <2>2, <2>3, <2>4, <2>5 DEF Next, Progress, Switch, Install
  <1>4. QED
    BY <1>1, <1>2, <1>3 DEF Downloading, Unswitched, Resolved, HasEntry, CurrentVersion

(***************************************************************************)
(* In a process whose bundles have a current version and in which nobody   *)
(* calls update_version, every answer is of one version: it is switching,  *)
(* and the first install, that may mix two of them.                        *)
(***************************************************************************)
THEOREM AnswersAreOfOneVersion ==
    ASSUME "update" \notin Jobs
    PROVE  Spec /\ (\A b \in Bundles : HasEntry(saved, b)) => []AnswerOfOneVersion
  <1> DEFINE Start == Init /\ \A b \in Bundles : HasEntry(saved, b)
  <1>1. Start => Downloading
    BY DEF Init, Downloading, NoJob
  <1>2. Typed /\ Fresh /\ Downloading /\ OneVersion /\ [Next]_vars => Downloading' /\ OneVersion'
    BY NextDownloading, NextOneVersion
  <1>3. QED
    BY <1>1, <1>2, InitTyped, NextTyped, InitFresh, NextFresh, InitOneVersion, OneVersionAnswers,
       PTL
    DEF Spec
=============================================================================
