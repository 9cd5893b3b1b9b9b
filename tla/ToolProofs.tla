----------------------------- MODULE ToolProofs -----------------------------
(***************************************************************************)
(* Theorems about what is used to build an application, for any names,     *)
(* files, versions, packages and bounds: the proxy to a development        *)
(* server, wvb builtin, the commands that work on bundle files, and the    *)
(* release of the packages of the repository.  The four share no state.    *)
(***************************************************************************)
EXTENDS LocalProxy, BuiltinInstall, CliBundles, Release, WellFoundedInduction, TLAPS

(***************************************************************************)
(* The proxy: what it answers, for any hosts, paths and number of changes, *)
(* and any number of requests at a time                                    *)
(***************************************************************************)

Pcs == {"idle", "send", "status", "transfer", "body", "get", "done", "error"}

Request ==
    [pc : Pcs, uri : Uris \cup {Nothing}, method : {"GET", "HEAD"}, url : Urls \cup {Nothing},
     since : Edition, response : Responses \cup {Nothing}]

\* The types, and which fields of a request are there at which place.
Typed ==
    /\ content \in [Urls -> Edition]
    /\ sent \in [Urls -> Edition \cup {Nothing}]
    /\ cached \in [Urls -> Responses \cup {Nothing}]
    /\ task \in [Tasks -> Request]
    /\ shared \subseteq Urls

Shape ==
    \A t \in Tasks :
        /\ task[t].pc = "idle" => task[t].url = Nothing
        /\ task[t].pc \notin {"idle", "error"} => task[t].url \in Urls /\ AskedFor(task[t].uri) = task[t].url
        /\ task[t].pc \in {"status", "transfer", "body", "done"} => task[t].response \in Responses
        /\ task[t].pc = "get" => cached[task[t].url] \in Responses

\* A response is that of a URL, if it has a body.
ResponseOf(r, u) == r.body # Nothing => r.body.url = u

\* Responses on their way and in the map are those of their URL.
OfTheirUrl ==
    /\ \A t \in Tasks :
          task[t].pc \in {"status", "transfer", "body", "done"} => ResponseOf(task[t].response, task[t].url)
    /\ \A u \in Urls : cached[u] # Nothing => ResponseOf(cached[u], u)

Inductive == Typed /\ Shape /\ OfTheirUrl

LEMMA UrlOfUri ==
    ASSUME NEW uri \in Uris
    PROVE  /\ LocalhostUri(uri) # Nothing => LocalhostUri(uri) \in Urls /\ LocalhostUri(uri) = AskedFor(uri)
           /\ LocalhostUri(uri) \in Urls \cup {Nothing}
  BY LocalAssumption DEF LocalhostUri, AskedFor, Uris, Urls

LEMMA InitInductive == LocalInit => Inductive
  BY LocalAssumption
  DEF LocalInit, Inductive, Typed, Shape, OfTheirUrl, IdleTask, Request, Pcs, Edition

(* A step of one request, that may put a response into the map. *)
LEMMA RequestStep ==
    ASSUME Inductive, NEW t \in Tasks, NEW r \in Request, task' = [task EXCEPT ![t] = r],
           content' = content, sent' \in [Urls -> Edition \cup {Nothing}],
           shared' \subseteq Urls, cached' \in [Urls -> Responses \cup {Nothing}],
           \A u \in Urls : cached[u] \in Responses => cached'[u] \in Responses,
           \A u \in Urls : cached'[u] # Nothing => ResponseOf(cached'[u], u),
           r.pc = "idle" => r.url = Nothing,
           r.pc \notin {"idle", "error"} => r.url \in Urls /\ AskedFor(r.uri) = r.url,
           r.pc \in {"status", "transfer", "body", "done"} => /\ r.response \in Responses
                                                              /\ ResponseOf(r.response, r.url),
           r.pc = "get" => cached'[r.url] \in Responses
    PROVE  Inductive'
  <1>1. task \in [Tasks -> Request] /\ content \in [Urls -> Edition]
    BY DEF Inductive, Typed
  <1>2. task' \in [Tasks -> Request] /\ task'[t] = r /\ \A s \in Tasks \ {t} : task'[s] = task[s]
    BY <1>1
  <1>3. Typed'  BY <1>1, <1>2 DEF Typed
  <1>4. Shape'
    <2> SUFFICES ASSUME NEW s \in Tasks
                 PROVE  /\ task'[s].pc = "idle" => task'[s].url = Nothing
                        /\ task'[s].pc \notin {"idle", "error"} =>
                              task'[s].url \in Urls /\ AskedFor(task'[s].uri) = task'[s].url
                        /\ task'[s].pc \in {"status", "transfer", "body", "done"} =>
                              task'[s].response \in Responses
                        /\ task'[s].pc = "get" => cached'[task'[s].url] \in Responses
      BY DEF Shape
    <2>1. CASE s = t  BY <2>1, <1>2
    <2>2. CASE s # t  BY <2>2, <1>2 DEF Inductive, Shape
    <2> QED  BY <2>1, <2>2
  <1>5. OfTheirUrl'
    <2>1. ASSUME NEW s \in Tasks, task'[s].pc \in {"status", "transfer", "body", "done"}
          PROVE  ResponseOf(task'[s].response, task'[s].url)
      <3>1. CASE s = t  BY <2>1, <3>1, <1>2
      <3>2. CASE s # t  BY <2>1, <3>2, <1>2 DEF Inductive, OfTheirUrl
      <3> QED  BY <3>1, <3>2
    <2> QED  BY <2>1 DEF OfTheirUrl
  <1> QED  BY <1>3, <1>4, <1>5 DEF Inductive

(* A step of one request that leaves the map alone. *)
LEMMA QuietStep ==
    ASSUME Inductive, NEW t \in Tasks, NEW r \in Request, task' = [task EXCEPT ![t] = r],
           content' = content, sent' \in [Urls -> Edition \cup {Nothing}],
           shared' \subseteq Urls, cached' = cached,
           r.pc = "idle" => r.url = Nothing,
           r.pc \notin {"idle", "error"} => r.url \in Urls /\ AskedFor(r.uri) = r.url,
           r.pc \in {"status", "transfer", "body", "done"} => /\ r.response \in Responses
                                                              /\ ResponseOf(r.response, r.url),
           r.pc = "get" => cached[r.url] \in Responses
    PROVE  Inductive'
  <1>1. /\ cached' \in [Urls -> Responses \cup {Nothing}]
        /\ \A u \in Urls : cached[u] \in Responses => cached'[u] \in Responses
        /\ \A u \in Urls : cached'[u] # Nothing => ResponseOf(cached'[u], u)
    BY DEF Inductive, Typed, OfTheirUrl
  <1> QED  BY <1>1, RequestStep

LEMMA BeginInductive ==
    ASSUME Inductive, NEW t \in Tasks, NEW uri \in Uris, NEW method \in Methods, Begin(t, uri, method)
    PROVE  Inductive'
  <1> DEFINE url == LocalhostUri(uri)
             r == NewTask(uri, method)
  <1>1. task' = [task EXCEPT ![t] = r] /\ content' = content /\ sent' = sent /\ cached' = cached
    BY DEF Begin
  <1>2. /\ url \in Urls \cup {Nothing} /\ (url # Nothing => url = AskedFor(uri))
        /\ (url = Nothing \/ content[url] \in Edition) /\ 0 \in Edition
    BY UrlOfUri, LocalAssumption DEF Inductive, Typed, Edition
  <1>3. shared' \subseteq Urls  BY DEF Begin, Inductive, Typed
  <1>4. r \in Request  BY <1>2, LocalAssumption DEF NewTask, FailedTask, Request, Pcs, IdleTask
  <1>5. /\ r.pc \in {"send", "error"}
        /\ r.pc = "send" => url # Nothing /\ r.url = url /\ r.uri = uri
    BY DEF NewTask, FailedTask, IdleTask
  <1> HIDE DEF url
  <1>6. sent' \in [Urls -> Edition \cup {Nothing}]  BY <1>1 DEF Inductive, Typed
  <1> HIDE DEF r
  <1> QED  BY <1>1, <1>2, <1>3, <1>4, <1>5, <1>6, QuietStep

(* The server answers a request: in full, that nothing changed, or not at all. *)
LEMMA ServerInductive ==
    ASSUME Inductive, NEW t \in Tasks, FullResponse(t) \/ NotModified(t) \/ Fail(t)
    PROVE  Inductive'
  <1> DEFINE u == task[t].url
             answer == [status |-> 200, body |-> IF task[t].method = "HEAD" THEN Nothing
                                                 ELSE [url |-> u, edit |-> content[u]]]
  <1>1. /\ task[t] \in Request /\ UNCHANGED <<content, cached, shared, sent>>
        /\ task[t].pc = "send" => u \in Urls /\ AskedFor(task[t].uri) = u
    BY DEF FullResponse, NotModified, Fail, Inductive, Typed, Shape
  <1>2. /\ sent' \in [Urls -> Edition \cup {Nothing}] /\ shared' \subseteq Urls /\ cached' = cached
        /\ content' = content
    BY <1>1 DEF Inductive, Typed
  <1>3. CASE FullResponse(t)
    <2> DEFINE r == [task[t] EXCEPT !.pc = "status", !.response = answer]
    <2>1. task' = [task EXCEPT ![t] = r] /\ task[t].pc = "send"
      BY <1>3 DEF FullResponse, Inductive, Typed
    <2>2. content[u] \in Edition  BY <1>1, <2>1 DEF Inductive, Typed
    <2>3. answer \in Responses /\ ResponseOf(answer, u)
      BY <1>1, <2>1, <2>2 DEF Responses, Bodies, ResponseOf
    <2> HIDE DEF answer
    <2>4. r \in Request /\ r.pc = "status" /\ r.url = u /\ AskedFor(r.uri) = u /\ r.response = answer
      BY <1>1, <2>1, <2>3 DEF Request, Pcs
    <2> HIDE DEF r
    <2> QED  BY <1>1, <1>2, <2>1, <2>3, <2>4, QuietStep
  <1>4. CASE NotModified(t)
    <2> DEFINE same == [status |-> 304, body |-> Nothing]
               r == [task[t] EXCEPT !.pc = "status", !.response = same]
    <2>1. task' = [task EXCEPT ![t] = r] /\ task[t].pc = "send"
      BY <1>4 DEF NotModified, Inductive, Typed
    <2>2. same \in Responses /\ same.body = Nothing  BY DEF Responses
    <2> HIDE DEF same
    <2>3. r \in Request  BY <1>1, <2>2 DEF Request, Pcs
    <2>4. r.pc = "status" /\ r.response = same  BY <1>1 DEF Request
    <2>5. r.url = u /\ AskedFor(r.uri) = u  BY <1>1, <2>1 DEF Request
    <2>6. r.response \in Responses /\ r.response.body = Nothing  BY <2>2, <2>4
    <2> HIDE DEF r
    <2> QED  BY <1>1, <1>2, <2>1, <2>3, <2>4, <2>5, <2>6, QuietStep DEF ResponseOf
  <1>5. CASE Fail(t)
    <2> DEFINE r == FailedTask
    <2>1. task' = [task EXCEPT ![t] = r]  BY <1>5 DEF Fail
    <2>2. r \in Request /\ r.pc = "error"  BY LocalAssumption DEF FailedTask, IdleTask, Request, Pcs, Edition
    <2> HIDE DEF r
    <2> QED  BY <1>2, <2>1, <2>2, QuietStep
  <1> QED  BY <1>3, <1>4, <1>5

(* The last byte goes out; the status arrives; the answer is taken out. *)
LEMMA DeliverInductive ==
    ASSUME Inductive, NEW t \in Tasks, Deliver(t)
    PROVE  Inductive'
  <1> DEFINE r == [task[t] EXCEPT !.pc = "body"]
  <1>1. /\ task[t] \in Request /\ task[t].pc = "transfer" /\ task[t].url \in Urls
        /\ AskedFor(task[t].uri) = task[t].url /\ task[t].response \in Responses
        /\ ResponseOf(task[t].response, task[t].url)
    BY DEF Deliver, Inductive, Typed, Shape, OfTheirUrl
  <1>2. task' = [task EXCEPT ![t] = r] /\ UNCHANGED <<content, cached, shared>>
    BY DEF Deliver, Inductive, Typed
  <1>3. /\ r \in Request /\ r.pc = "body" /\ r.url = task[t].url /\ r.uri = task[t].uri
        /\ r.response = task[t].response
    BY <1>1 DEF Request, Pcs
  <1> HIDE DEF r
  <1>4. sent' \in [Urls -> Edition \cup {Nothing}] /\ shared' \subseteq Urls
    <2>1. task[t].response.body # Nothing => task[t].response.body.edit \in Edition
      BY <1>1 DEF Responses, Bodies
    <2> QED  BY <1>2, <2>1 DEF Deliver, Inductive, Typed
  <1> QED  BY <1>1, <1>2, <1>3, <1>4, QuietStep

LEMMA StatusInductive ==
    ASSUME Inductive, NEW t \in Tasks, OnStatus(t) \/ TakeOut(t)
    PROVE  Inductive'
  <1> DEFINE u == task[t].url
             taken == [task[t] EXCEPT !.pc = "done", !.response = cached[u]]
             read == [task[t] EXCEPT !.pc = "transfer"]
  <1>1. /\ task[t] \in Request /\ task[t].pc \in {"status", "get"} /\ u \in Urls
        /\ AskedFor(task[t].uri) = u
        /\ task[t].pc = "status" => task[t].response \in Responses /\ ResponseOf(task[t].response, u)
        /\ task[t].pc = "get" => cached[u] # Nothing
        /\ cached[u] # Nothing => cached[u] \in Responses /\ ResponseOf(cached[u], u)
    BY LocalAssumption DEF OnStatus, TakeOut, Inductive, Typed, Shape, OfTheirUrl
  <1>2. UNCHANGED <<content, cached, shared, sent>>  BY DEF OnStatus, TakeOut
  <1>3. /\ sent' \in [Urls -> Edition \cup {Nothing}] /\ shared' \subseteq Urls
        /\ content' = content /\ cached' = cached
    BY <1>2 DEF Inductive, Typed
  <1>4. CASE task' = [task EXCEPT ![t] = taken] /\ cached[u] # Nothing
    <2>1. taken \in Request /\ taken.pc = "done" /\ taken.url = u /\ AskedFor(taken.uri) = u /\ taken.response = cached[u]
      BY <1>1, <1>4 DEF Request, Pcs
    <2> HIDE DEF taken
    <2> QED  BY <1>1, <1>3, <1>4, <2>1, QuietStep
  <1>5. CASE task' = [task EXCEPT ![t] = read] /\ task[t].pc = "status"
    <2>1. /\ read \in Request /\ read.pc = "transfer" /\ read.url = u /\ AskedFor(read.uri) = u
          /\ read.response = task[t].response
      BY <1>1 DEF Request, Pcs
    <2> HIDE DEF read
    <2> QED  BY <1>1, <1>3, <1>5, <2>1, QuietStep
  <1> QED  BY <1>1, <1>4, <1>5 DEF OnStatus, TakeOut, Inductive, Typed

LEMMA InsertInductive ==
    ASSUME Inductive, NEW t \in Tasks, Insert(t)
    PROVE  Inductive'
  <1> DEFINE r == [task[t] EXCEPT !.pc = "get"]
             u == task[t].url
  <1>1. /\ task[t] \in Request /\ task[t].pc = "body" /\ u \in Urls /\ AskedFor(task[t].uri) = u
        /\ task[t].response \in Responses /\ ResponseOf(task[t].response, u)
    BY DEF Insert, Inductive, Typed, Shape, OfTheirUrl
  <1>2. /\ task' = [task EXCEPT ![t] = r] /\ UNCHANGED <<content, sent, shared>>
        /\ cached' = [cached EXCEPT ![u] = task[t].response]
    BY DEF Insert, Inductive, Typed
  <1>3. r \in Request /\ r.pc = "get" /\ r.url = u /\ AskedFor(r.uri) = u
    BY <1>1 DEF Request, Pcs
  <1> HIDE DEF r, u
  <1>4. /\ cached' \in [Urls -> Responses \cup {Nothing}] /\ cached'[u] = task[t].response
        /\ \A w \in Urls \ {u} : cached'[w] = cached[w]
    BY <1>1, <1>2 DEF Inductive, Typed
  <1>5. /\ \A w \in Urls : cached[w] \in Responses => cached'[w] \in Responses
        /\ \A w \in Urls : cached'[w] # Nothing => ResponseOf(cached'[w], w)
    BY <1>1, <1>4 DEF Inductive, OfTheirUrl
  <1>6. sent' \in [Urls -> Edition \cup {Nothing}] /\ shared' \subseteq Urls /\ content' = content
    BY <1>2 DEF Inductive, Typed
  <1>7. r.pc = "get" => cached'[r.url] \in Responses  BY <1>1, <1>3, <1>4
  <1> QED  BY <1>1, <1>2, <1>3, <1>4, <1>5, <1>6, <1>7, RequestStep

LEMMA FinishInductive ==
    ASSUME Inductive, NEW t \in Tasks, Finish(t)
    PROVE  Inductive'
  <1>1. task' = [task EXCEPT ![t] = IdleTask] /\ UNCHANGED <<content, sent, cached, shared>>
    BY DEF Finish
  <1>2. IdleTask \in Request /\ IdleTask.pc = "idle" /\ IdleTask.url = Nothing
    BY LocalAssumption DEF IdleTask, Request, Pcs, Edition
  <1>3. /\ sent' \in [Urls -> Edition \cup {Nothing}] /\ shared' \subseteq Urls
        /\ content' = content /\ cached' = cached
    BY <1>1 DEF Inductive, Typed
  <1> QED  BY <1>1, <1>2, <1>3, QuietStep

LEMMA NextInductive == Inductive /\ [LocalNext]_localVars => Inductive'
  <1> SUFFICES ASSUME Inductive, [LocalNext]_localVars PROVE Inductive'  OBVIOUS
  <1>1. CASE \E url \in Urls : EditResource(url)
    BY <1>1, LocalAssumption
    DEF EditResource, Inductive, Typed, Shape, OfTheirUrl, Edition
  <1>2. ASSUME NEW t \in Tasks, NEW uri \in Uris, NEW method \in Methods, Begin(t, uri, method)
        PROVE  Inductive'
    BY <1>2, BeginInductive
  <1>3. ASSUME NEW t \in Tasks,
               \/ FullResponse(t) \/ NotModified(t) \/ Deliver(t)
               \/ OnStatus(t) \/ Insert(t) \/ TakeOut(t) \/ Fail(t) \/ Finish(t)
        PROVE  Inductive'
    BY <1>3, ServerInductive, DeliverInductive, StatusInductive, InsertInductive, FinishInductive
  <1>4. CASE UNCHANGED localVars
    BY <1>4 DEF localVars, Inductive, Typed, Shape, OfTheirUrl
  <1> QED  BY <1>1, <1>2, <1>3, <1>4 DEF LocalNext

(* However requests overlap, no one is given the resource of another URL. *)
THEOREM AnswersAreOfTheirUrl == LocalSpec => []AnswerOfItsUrl
  <1>1. Inductive => AnswerOfItsUrl
    BY DEF Inductive, Shape, OfTheirUrl, ResponseOf, AnswerOfItsUrl
  <1> QED  BY <1>1, InitInductive, NextInductive, PTL DEF LocalSpec

-----------------------------------------------------------------------------
(* Answers are current, for what is read by one GET at a time              *)

\* A response is there, with a body that is not older than an edition.
Keeps(r, n) == r # Nothing /\ r.body # Nothing /\ r.body.edit >= n

\* How far a GET is, given what the server has last sent of its URL, what the
\* map keeps of it, and how often it has changed.
OnItsWay(r, given, kept, now) ==
    /\ r.method = "GET" /\ r.since <= now
    /\ r.pc = "status" /\ r.response.status = 304 => given # Nothing /\ given >= r.since
    /\ (r.pc = "status" /\ r.response.status = 200) \/ r.pc \in {"transfer", "body"} =>
          Keeps(r.response, r.since) /\ r.response.body.edit <= now
    /\ r.pc = "body" => given = r.response.body.edit
    /\ r.pc = "get" => Keeps(kept, r.since)
    /\ r.pc = "done" => Keeps(r.response, r.since)

\* The map keeps what the server has last sent, unless that is being inserted.
InStep(u) ==
    /\ sent[u] # Nothing => sent[u] <= content[u]
    /\ sent[u] # Nothing /\ (\A t \in Tasks : task[t].url = u => task[t].pc # "body") =>
          Keeps(cached[u], sent[u])
    /\ \A t \in Tasks : task[t].url = u => OnItsWay(task[t], sent[u], cached[u], content[u])

Alone(u) == \A s, t \in Tasks : task[s].url = u /\ task[t].url = u => s = t

Unshared == \A u \in Urls \ shared : Alone(u) /\ InStep(u)

LEMMA InitUnshared == LocalInit => Unshared
  BY LocalAssumption DEF LocalInit, Unshared, Alone, InStep, IdleTask

(***************************************************************************)
(* A step of one request can only disturb the URL it was for, or is for    *)
(* now: there it has to be the only one, and to leave server, map and      *)
(* itself in step.                                                         *)
(***************************************************************************)
LEMMA UnsharedStep ==
    ASSUME Inductive, Unshared, NEW t \in Tasks, NEW r \in Request, task' = [task EXCEPT ![t] = r],
           content' = content, shared \subseteq shared',
           \A u \in Urls \ {task[t].url} : sent'[u] = sent[u] /\ cached'[u] = cached[u],
           \A u \in Urls \ shared' : task[t].url = u \/ r.url = u =>
              /\ \A s \in Tasks \ {t} : task[s].url # u
              /\ sent'[u] # Nothing => sent'[u] <= content[u]
              /\ sent'[u] # Nothing /\ ~(r.url = u /\ r.pc = "body") => Keeps(cached'[u], sent'[u])
              /\ r.url = u => OnItsWay(r, sent'[u], cached'[u], content[u])
    PROVE  Unshared'
  <1>1. task'[t] = r /\ \A s \in Tasks \ {t} : task'[s] = task[s]
    BY DEF Inductive, Typed
  <1> SUFFICES ASSUME NEW u \in Urls \ shared'
               PROVE  /\ \A x, y \in Tasks : task'[x].url = u /\ task'[y].url = u => x = y
                      /\ sent'[u] # Nothing => sent'[u] <= content'[u]
                      /\ sent'[u] # Nothing /\ (\A x \in Tasks : task'[x].url = u => task'[x].pc # "body") =>
                            Keeps(cached'[u], sent'[u])
                      /\ \A x \in Tasks : task'[x].url = u => OnItsWay(task'[x], sent'[u], cached'[u], content'[u])
    BY DEF Unshared, Alone, InStep
  <1>2. CASE task[t].url = u \/ r.url = u
    BY <1>1, <1>2
  <1>3. CASE ~(task[t].url = u \/ r.url = u)
    <2>1. u \in Urls \ shared /\ sent'[u] = sent[u] /\ cached'[u] = cached[u]
      BY <1>3
    <2>2. Alone(u) /\ InStep(u)  BY <2>1 DEF Unshared
    <2>3. \A x \in Tasks : task'[x].url = u => x # t /\ task'[x] = task[x]
      BY <1>1, <1>3
    <2>4. \A x \in Tasks : task[x].url = u => x # t /\ task'[x] = task[x]
      BY <1>1, <1>3
    <2>5. \A x, y \in Tasks : task'[x].url = u /\ task'[y].url = u => x = y
      BY <2>2, <2>3 DEF Alone
    <2>6. sent'[u] # Nothing /\ (\A x \in Tasks : task'[x].url = u => task'[x].pc # "body") =>
                            Keeps(cached'[u], sent'[u])
      BY <2>1, <2>2, <2>4 DEF InStep
    <2>7. \A x \in Tasks : task'[x].url = u => OnItsWay(task'[x], sent'[u], cached'[u], content'[u])
      BY <2>1, <2>2, <2>3 DEF InStep
    <2> QED  BY <2>1, <2>2, <2>5, <2>6, <2>7 DEF InStep
  <1> QED  BY <1>2, <1>3

LEMMA BeginUnshared ==
    ASSUME Inductive, Unshared, NEW t \in Tasks, NEW uri \in Uris, NEW method \in Methods,
           Begin(t, uri, method)
    PROVE  Unshared'
  <1> DEFINE url == LocalhostUri(uri)
             r == NewTask(uri, method)
  <1>1. /\ task' = [task EXCEPT ![t] = r] /\ content' = content /\ sent' = sent /\ cached' = cached
        /\ task[t].url = Nothing
    BY DEF Begin, Inductive, Shape
  <1>2. /\ url \in Urls \cup {Nothing} /\ (url # Nothing => url = AskedFor(uri))
        /\ (url = Nothing \/ content[url] \in Edition) /\ 0 \in Edition
    BY UrlOfUri, LocalAssumption DEF Inductive, Typed, Edition
  <1>3. shared \subseteq shared'  BY DEF Begin
  <1>4. \A u \in Urls \ shared' : u = url => method = "GET" /\ \A s \in Tasks : task[s].url # u
    BY DEF Begin
  <1>5. r \in Request  BY <1>2, LocalAssumption DEF NewTask, FailedTask, Request, Pcs, IdleTask
  <1>6. /\ r.pc \in {"send", "error"} /\ r.url = url
        /\ url # Nothing => r.since = content[url] /\ r.method = method
    BY DEF NewTask, FailedTask, IdleTask
  <1> HIDE DEF url
  <1> HIDE DEF r
  <1>7. ASSUME NEW u \in Urls \ shared', task[t].url = u \/ r.url = u
        PROVE  /\ \A s \in Tasks \ {t} : task[s].url # u
               /\ sent'[u] # Nothing => sent'[u] <= content[u]
               /\ sent'[u] # Nothing /\ ~(r.url = u /\ r.pc = "body") => Keeps(cached'[u], sent'[u])
               /\ r.url = u => OnItsWay(r, sent'[u], cached'[u], content[u])
    <2>1. u = url /\ u # Nothing  BY <1>1, <1>6, <1>7, LocalAssumption
    <2>2. method = "GET" /\ \A s \in Tasks : task[s].url # u  BY <1>4, <2>1
    <2>3. InStep(u)  BY <1>3 DEF Unshared
    <2>4. content[u] \in Nat  BY <1>2, LocalAssumption, <2>1 DEF Edition
    <2>5. OnItsWay(r, sent'[u], cached'[u], content[u])
      BY <1>6, <2>1, <2>2, <2>4 DEF OnItsWay
    <2> QED  BY <1>1, <2>2, <2>3, <2>5 DEF InStep
  <1> QED  BY <1>1, <1>3, <1>5, <1>7, UnsharedStep

(* A request for a URL that is not shared is the only one for it, and in step. *)
LEMMA TheOnlyOne ==
    ASSUME Inductive, Unshared, NEW t \in Tasks, NEW u \in Urls \ shared, task[t].url = u
    PROVE  /\ \A s \in Tasks \ {t} : task[s].url # u
           /\ sent[u] # Nothing => sent[u] <= content[u]
           /\ sent[u] # Nothing /\ task[t].pc # "body" => Keeps(cached[u], sent[u])
           /\ OnItsWay(task[t], sent[u], cached[u], content[u])
           /\ content[u] \in Nat
  <1>1. Alone(u) /\ InStep(u)  BY DEF Unshared
  <1>2. \A s \in Tasks \ {t} : task[s].url # u  BY <1>1 DEF Alone
  <1>3. content[u] \in Nat  BY LocalAssumption DEF Inductive, Typed, Edition
  <1> QED  BY <1>1, <1>2, <1>3 DEF InStep

(***************************************************************************)
(* A step of a request that stays on its URL.  It is enough to look at     *)
(* that URL.                                                               *)
(***************************************************************************)
LEMMA SameUrlUnshared ==
    ASSUME Inductive, Unshared, NEW t \in Tasks, NEW r \in Request, task' = [task EXCEPT ![t] = r],
           content' = content, shared' = shared, r.url = task[t].url,
           \A u \in Urls \ {task[t].url} : sent'[u] = sent[u] /\ cached'[u] = cached[u],
           \A u \in Urls \ shared : task[t].url = u =>
              /\ sent'[u] # Nothing => sent'[u] <= content[u]
              /\ sent'[u] # Nothing /\ r.pc # "body" => Keeps(cached'[u], sent'[u])
              /\ OnItsWay(r, sent'[u], cached'[u], content[u])
    PROVE  Unshared'
  <1>1. ASSUME NEW u \in Urls \ shared', task[t].url = u \/ r.url = u
        PROVE  /\ \A s \in Tasks \ {t} : task[s].url # u
               /\ sent'[u] # Nothing => sent'[u] <= content[u]
               /\ sent'[u] # Nothing /\ ~(r.url = u /\ r.pc = "body") => Keeps(cached'[u], sent'[u])
               /\ r.url = u => OnItsWay(r, sent'[u], cached'[u], content[u])
    BY <1>1, TheOnlyOne
  <1>2. shared \subseteq shared'  OBVIOUS
  <1> QED  BY <1>1, <1>2, UnsharedStep

LEMMA ServerUnshared ==
    ASSUME Inductive, Unshared, NEW t \in Tasks, FullResponse(t) \/ NotModified(t) \/ Fail(t)
    PROVE  Unshared'
  <1> DEFINE answer == [status |-> 200,
                        body |-> IF task[t].method = "HEAD" THEN Nothing
                                 ELSE [url |-> task[t].url, edit |-> content[task[t].url]]]
             unchanged == [status |-> 304, body |-> Nothing]
  <1>1. task[t] \in Request /\ UNCHANGED <<content, cached, shared, sent>>
        /\ (task[t].pc = "send" => task[t].url \in Urls)
    BY DEF FullResponse, NotModified, Fail, Inductive, Typed, Shape
  <1>2. CASE FullResponse(t)
    <2> DEFINE r == [task[t] EXCEPT !.pc = "status", !.response = answer]
    <2>1. task' = [task EXCEPT ![t] = r] /\ task[t].pc = "send" /\ task[t].url \in Urls
      BY <1>1, <1>2 DEF FullResponse, Inductive, Typed
    <2>2. answer \in Responses
      <3>1. content[task[t].url] \in Edition  BY <2>1 DEF Inductive, Typed
      <3> QED  BY <2>1, <3>1 DEF Responses, Bodies
    <2>3. /\ answer.status = 200
          /\ task[t].method = "GET" =>
                answer.body = [url |-> task[t].url, edit |-> content[task[t].url]]
      OBVIOUS
    <2> HIDE DEF answer
    <2>4. /\ r \in Request /\ r.pc = "status" /\ r.url = task[t].url /\ r.method = task[t].method
          /\ r.since = task[t].since /\ r.response = answer
      BY <1>1, <2>2 DEF Request, Pcs
    <2>5. ASSUME NEW u \in Urls \ shared, task[t].url = u
          PROVE  /\ sent'[u] # Nothing => sent'[u] <= content[u]
                 /\ sent'[u] # Nothing /\ r.pc # "body" => Keeps(cached'[u], sent'[u])
                 /\ OnItsWay(r, sent'[u], cached'[u], content[u])
      <3>1. /\ sent[u] # Nothing => sent[u] <= content[u]
            /\ sent[u] # Nothing /\ task[t].pc # "body" => Keeps(cached[u], sent[u])
            /\ OnItsWay(task[t], sent[u], cached[u], content[u])
            /\ content[u] \in Nat
        BY <2>5, TheOnlyOne
      <3>2. task[t].method = "GET" /\ task[t].since <= content[u]  BY <3>1 DEF OnItsWay
      <3>3. answer.status = 200 /\ answer.body = [url |-> u, edit |-> content[u]]
        BY <2>5, <2>3, <3>2
      <3>4. answer # Nothing /\ answer.body # Nothing
        BY <2>2, <3>3, <3>1, LocalAssumption DEF Bodies, Inductive, Typed
      <3>5. Keeps(answer, task[t].since) /\ answer.body.edit <= content[u]
        BY <3>1, <3>2, <3>3, <3>4 DEF Keeps
      <3> HIDE DEF r
      <3> QED  BY <1>1, <2>1, <2>4, <3>1, <3>2, <3>3, <3>5 DEF OnItsWay
    <2> HIDE DEF r
    <2> QED  BY <1>1, <2>1, <2>4, <2>5, SameUrlUnshared
  <1>3. CASE NotModified(t)
    <2> DEFINE r == [task[t] EXCEPT !.pc = "status", !.response = unchanged]
    <2>1. task' = [task EXCEPT ![t] = r] /\ task[t].pc = "send"
          /\ sent[task[t].url] = content[task[t].url]
      BY <1>3 DEF NotModified, Inductive, Typed
    <2>2. unchanged \in Responses /\ unchanged.status = 304  BY DEF Responses
    <2> HIDE DEF unchanged
    <2>3. /\ r \in Request /\ r.pc = "status" /\ r.url = task[t].url /\ r.method = task[t].method
          /\ r.since = task[t].since /\ r.response = unchanged
      BY <1>1, <2>2 DEF Request, Pcs
    <2> HIDE DEF r
    <2>4. ASSUME NEW u \in Urls \ shared, task[t].url = u
          PROVE  /\ sent'[u] # Nothing => sent'[u] <= content[u]
                 /\ sent'[u] # Nothing /\ r.pc # "body" => Keeps(cached'[u], sent'[u])
                 /\ OnItsWay(r, sent'[u], cached'[u], content[u])
      <3>1. /\ sent[u] # Nothing => sent[u] <= content[u]
            /\ sent[u] # Nothing /\ task[t].pc # "body" => Keeps(cached[u], sent[u])
            /\ OnItsWay(task[t], sent[u], cached[u], content[u])
            /\ content[u] \in Nat
        BY <2>4, TheOnlyOne
      <3>2. sent[u] = content[u] /\ sent[u] # Nothing
        BY <2>1, <2>4, LocalAssumption DEF Inductive, Typed
      <3> QED  BY <1>1, <2>1, <2>2, <2>3, <3>1, <3>2 DEF OnItsWay
    <2> QED  BY <1>1, <2>1, <2>3, <2>4, SameUrlUnshared
  <1>4. CASE Fail(t)
    <2> DEFINE r == FailedTask
    <2>1. task' = [task EXCEPT ![t] = r] /\ task[t].pc # "body"  BY <1>4 DEF Fail
    <2>2. r \in Request /\ r.url = Nothing  BY LocalAssumption DEF FailedTask, IdleTask, Request, Pcs, Edition
    <2> HIDE DEF r
    <2>3. ASSUME NEW u \in Urls \ shared', task[t].url = u \/ r.url = u
          PROVE  /\ \A s \in Tasks \ {t} : task[s].url # u
                 /\ sent'[u] # Nothing => sent'[u] <= content[u]
                 /\ sent'[u] # Nothing /\ ~(r.url = u /\ r.pc = "body") => Keeps(cached'[u], sent'[u])
                 /\ r.url = u => OnItsWay(r, sent'[u], cached'[u], content[u])
      <3>1. u # Nothing /\ u \in Urls \ shared /\ task[t].url = u
        BY <1>1, <2>2, <2>3, LocalAssumption
      <3> QED  BY <1>1, <2>1, <2>2, <3>1, TheOnlyOne
    <2> QED  BY <1>1, <2>1, <2>2, <2>3, UnsharedStep
  <1> QED  BY <1>2, <1>3, <1>4

LEMMA DeliverUnshared ==
    ASSUME Inductive, Unshared, NEW t \in Tasks, Deliver(t)
    PROVE  Unshared'
  <1> DEFINE r == [task[t] EXCEPT !.pc = "body"]
  <1>1. /\ task[t] \in Request /\ task[t].pc = "transfer" /\ task[t].url \in Urls
        /\ UNCHANGED <<content, cached, shared>> /\ task' = [task EXCEPT ![t] = r]
    BY DEF Deliver, Inductive, Typed, Shape
  <1>2. /\ r \in Request /\ r.pc = "body" /\ r.url = task[t].url /\ r.method = task[t].method
        /\ r.since = task[t].since /\ r.response = task[t].response
    BY <1>1 DEF Request, Pcs
  <1> HIDE DEF r
  <1>3. /\ \A w \in Urls \ {task[t].url} : sent'[w] = sent[w]
        /\ task[t].response.body # Nothing => sent'[task[t].url] = task[t].response.body.edit
    BY <1>1 DEF Deliver, Inductive, Typed
  <1>4. ASSUME NEW u \in Urls \ shared, task[t].url = u
        PROVE  /\ sent'[u] # Nothing => sent'[u] <= content[u]
               /\ sent'[u] # Nothing /\ r.pc # "body" => Keeps(cached'[u], sent'[u])
               /\ OnItsWay(r, sent'[u], cached'[u], content[u])
    <2>1. OnItsWay(task[t], sent[u], cached[u], content[u])  BY <1>4, TheOnlyOne
    <2>2. /\ task[t].response.body # Nothing /\ task[t].response.body.edit <= content[u]
          /\ sent'[u] = task[t].response.body.edit
      BY <1>1, <1>3, <1>4, <2>1 DEF OnItsWay, Keeps
    <2> QED  BY <1>1, <1>2, <2>1, <2>2 DEF OnItsWay
  <1> QED  BY <1>1, <1>2, <1>3, <1>4, SameUrlUnshared

LEMMA StatusUnshared ==
    ASSUME Inductive, Unshared, NEW t \in Tasks, OnStatus(t) \/ TakeOut(t)
    PROVE  Unshared'
  <1> DEFINE url == task[t].url
             taken == [task[t] EXCEPT !.pc = "done", !.response = cached[url]]
             read == [task[t] EXCEPT !.pc = "transfer"]
  <1>1. /\ task[t] \in Request /\ task[t].pc \in {"status", "get"} /\ url \in Urls
        /\ task[t].pc = "status" => task[t].response \in Responses
        /\ task[t].pc = "get" => cached[url] # Nothing
        /\ cached[url] # Nothing => cached[url] \in Responses
    BY LocalAssumption DEF OnStatus, TakeOut, Inductive, Typed, Shape
  <1>2. UNCHANGED <<content, cached, shared, sent>>  BY DEF OnStatus, TakeOut
  <1>3. CASE /\ task' = [task EXCEPT ![t] = taken] /\ cached[url] # Nothing
             /\ task[t].pc = "status" => task[t].response.status = 304
    <2>1. /\ taken \in Request /\ taken.pc = "done" /\ taken.url = url /\ taken.response = cached[url]
          /\ taken.method = task[t].method /\ taken.since = task[t].since
      BY <1>1, <1>3 DEF Request, Pcs
    <2> HIDE DEF taken
    <2>2. ASSUME NEW u \in Urls \ shared, task[t].url = u
          PROVE  /\ sent'[u] # Nothing => sent'[u] <= content[u]
                 /\ sent'[u] # Nothing /\ taken.pc # "body" => Keeps(cached'[u], sent'[u])
                 /\ OnItsWay(taken, sent'[u], cached'[u], content[u])
      <3>1. /\ sent[u] # Nothing => sent[u] <= content[u]
            /\ sent[u] # Nothing /\ task[t].pc # "body" => Keeps(cached[u], sent[u])
            /\ OnItsWay(task[t], sent[u], cached[u], content[u])
        BY <2>2, TheOnlyOne
      <3>2. task[t].since \in Nat /\ (sent[u] # Nothing => sent[u] \in Nat)
            /\ (cached[u].body # Nothing => cached[u].body.edit \in Nat)
        BY <1>1, <1>3, <2>2, LocalAssumption
        DEF Request, Edition, Inductive, Typed, Responses, Bodies
      <3>3. Keeps(cached[u], task[t].since)
        BY <1>1, <1>3, <2>2, <3>1, <3>2 DEF OnItsWay, Keeps
      <3> QED  BY <1>1, <1>2, <2>1, <2>2, <3>1, <3>3 DEF OnItsWay
    <2> QED  BY <1>2, <1>3, <2>1, <2>2, SameUrlUnshared
  <1>4. CASE /\ task' = [task EXCEPT ![t] = read] /\ task[t].pc = "status"
             /\ ~(task[t].response.status = 304 /\ cached[url] # Nothing)
    <2>1. /\ read \in Request /\ read.pc = "transfer" /\ read.url = url
          /\ read.response = task[t].response
          /\ read.method = task[t].method /\ read.since = task[t].since
      BY <1>1 DEF Request, Pcs
    <2> HIDE DEF read
    <2>2. ASSUME NEW u \in Urls \ shared, task[t].url = u
          PROVE  /\ sent'[u] # Nothing => sent'[u] <= content[u]
                 /\ sent'[u] # Nothing /\ read.pc # "body" => Keeps(cached'[u], sent'[u])
                 /\ OnItsWay(read, sent'[u], cached'[u], content[u])
      <3>1. /\ sent[u] # Nothing => sent[u] <= content[u]
            /\ sent[u] # Nothing /\ task[t].pc # "body" => Keeps(cached[u], sent[u])
            /\ OnItsWay(task[t], sent[u], cached[u], content[u])
        BY <2>2, TheOnlyOne
      <3>2. task[t].response.status = 200
        <4>1. task[t].response.status = 304 => cached[u] # Nothing
          BY <1>4, <3>1 DEF OnItsWay, Keeps
        <4>2. task[t].response.status \in {200, 304}  BY <1>1, <1>4 DEF Responses
        <4> QED  BY <1>4, <2>2, <4>1, <4>2
      <3> QED  BY <1>2, <1>4, <2>1, <2>2, <3>1, <3>2 DEF OnItsWay
    <2> QED  BY <1>2, <1>4, <2>1, <2>2, SameUrlUnshared
  <1> QED  BY <1>1, <1>3, <1>4 DEF OnStatus, TakeOut, Inductive, Typed

LEMMA InsertUnshared ==
    ASSUME Inductive, Unshared, NEW t \in Tasks, Insert(t)
    PROVE  Unshared'
  <1> DEFINE r == [task[t] EXCEPT !.pc = "get"]
  <1>1. /\ task[t] \in Request /\ task[t].pc = "body" /\ task[t].url \in Urls
        /\ UNCHANGED <<content, sent, shared>> /\ task' = [task EXCEPT ![t] = r]
    BY DEF Insert, Inductive, Typed, Shape
  <1>2. /\ cached'[task[t].url] = task[t].response
        /\ \A w \in Urls \ {task[t].url} : cached'[w] = cached[w]
    BY <1>1 DEF Insert, Inductive, Typed
  <1>3. /\ r \in Request /\ r.pc = "get" /\ r.url = task[t].url /\ r.method = task[t].method
        /\ r.since = task[t].since
    BY <1>1 DEF Request, Pcs
  <1> HIDE DEF r
  <1>4. ASSUME NEW u \in Urls \ shared, task[t].url = u
        PROVE  /\ sent'[u] # Nothing => sent'[u] <= content[u]
               /\ sent'[u] # Nothing /\ r.pc # "body" => Keeps(cached'[u], sent'[u])
               /\ OnItsWay(r, sent'[u], cached'[u], content[u])
    <2>1. OnItsWay(task[t], sent[u], cached[u], content[u])
          /\ (sent[u] # Nothing => sent[u] <= content[u])
      BY <1>4, TheOnlyOne
    <2>2. task[t].response.body.edit \in Nat
      <3>1. task[t].response \in Responses /\ task[t].response.body # Nothing
        BY <1>1, <2>1 DEF OnItsWay, Keeps, Inductive, Shape
      <3> QED  BY <3>1, LocalAssumption DEF Responses, Bodies, Edition
    <2>3. sent[u] = task[t].response.body.edit /\ Keeps(task[t].response, task[t].since)
      BY <1>1, <2>1 DEF OnItsWay
    <2>4. Keeps(task[t].response, sent[u])  BY <2>2, <2>3 DEF Keeps
    <2> QED  BY <1>1, <1>2, <1>3, <1>4, <2>1, <2>3, <2>4 DEF OnItsWay
  <1> QED  BY <1>1, <1>2, <1>3, <1>4, SameUrlUnshared

LEMMA FinishUnshared ==
    ASSUME Inductive, Unshared, NEW t \in Tasks, Finish(t)
    PROVE  Unshared'
  <1>1. /\ task' = [task EXCEPT ![t] = IdleTask] /\ UNCHANGED <<content, sent, cached, shared>>
        /\ task[t].pc # "body"
    BY DEF Finish
  <1>2. IdleTask \in Request /\ IdleTask.url = Nothing
    BY LocalAssumption DEF IdleTask, Request, Pcs, Edition
  <1>3. ASSUME NEW u \in Urls \ shared', task[t].url = u \/ IdleTask.url = u
        PROVE  /\ \A s \in Tasks \ {t} : task[s].url # u
               /\ sent'[u] # Nothing => sent'[u] <= content[u]
               /\ sent'[u] # Nothing /\ ~(IdleTask.url = u /\ IdleTask.pc = "body") =>
                     Keeps(cached'[u], sent'[u])
               /\ IdleTask.url # u
    <2>1. IdleTask.url # u /\ task[t].url = u  BY <1>2, <1>3, LocalAssumption
    <2> QED  BY <1>1, <2>1, TheOnlyOne
  <1>4. PICK r \in Request : r = IdleTask  BY <1>2
  <1>5. /\ shared \subseteq shared' /\ content' = content /\ task' = [task EXCEPT ![t] = r]
        /\ \A u \in Urls \ {task[t].url} : sent'[u] = sent[u] /\ cached'[u] = cached[u]
    BY <1>1, <1>4
  <1>6. \A u \in Urls \ shared' : task[t].url = u \/ r.url = u =>
           /\ \A s \in Tasks \ {t} : task[s].url # u
           /\ sent'[u] # Nothing => sent'[u] <= content[u]
           /\ sent'[u] # Nothing /\ ~(r.url = u /\ r.pc = "body") => Keeps(cached'[u], sent'[u])
           /\ r.url = u => OnItsWay(r, sent'[u], cached'[u], content[u])
    BY <1>3, <1>4
  <1> QED  BY <1>5, <1>6, UnsharedStep

LEMMA EditUnshared ==
    ASSUME Inductive, Unshared, NEW url \in Urls, EditResource(url)
    PROVE  Unshared'
  <1>1. /\ UNCHANGED <<sent, cached, task, shared>>
        /\ \A u \in Urls : content[u] \in Nat /\ content'[u] \in Nat /\ content'[u] >= content[u]
    BY LocalAssumption DEF EditResource, Inductive, Typed, Edition
  <1>2. ASSUME NEW u \in Urls \ shared
        PROVE  Alone(u)' /\ InStep(u)'
    <2>1. Alone(u) /\ InStep(u)  BY DEF Unshared
    <2>2. sent[u] # Nothing => sent[u] \in Nat
      BY LocalAssumption DEF Inductive, Typed, Edition
    <2>3. ASSUME NEW s \in Tasks, task[s].url = u
          PROVE  OnItsWay(task[s], sent[u], cached[u], content'[u])
      <3>1. OnItsWay(task[s], sent[u], cached[u], content[u])  BY <2>1, <2>3 DEF InStep
      <3>2. task[s].since \in Nat  BY LocalAssumption DEF Inductive, Typed, Request, Edition
      <3>3. /\ task[s].pc \in {"status", "transfer", "body"} => task[s].response \in Responses
            /\ \A x \in Responses : x.body # Nothing => x.body.edit \in Nat
        BY LocalAssumption DEF Inductive, Shape, Responses, Bodies, Edition
      <3>4. (task[s].pc = "status" /\ task[s].response.status = 200) \/ task[s].pc \in {"transfer", "body"} =>
                task[s].response.body.edit <= content'[u]
        BY <1>1, <3>1, <3>3 DEF OnItsWay, Keeps
      <3> QED  BY <1>1, <3>1, <3>2, <3>4 DEF OnItsWay
    <2> QED  BY <1>1, <2>1, <2>2, <2>3 DEF Alone, InStep
  <1> QED  BY <1>1, <1>2 DEF Unshared

LEMMA NextUnshared == Inductive /\ Unshared /\ [LocalNext]_localVars => Unshared'
  <1> SUFFICES ASSUME Inductive, Unshared, [LocalNext]_localVars PROVE Unshared'  OBVIOUS
  <1>1. ASSUME NEW t \in Tasks, NEW uri \in Uris, NEW method \in Methods, Begin(t, uri, method)
        PROVE  Unshared'
    BY <1>1, BeginUnshared
  <1>2. ASSUME NEW t \in Tasks,
               \/ FullResponse(t) \/ NotModified(t) \/ Deliver(t)
               \/ OnStatus(t) \/ Insert(t) \/ TakeOut(t) \/ Fail(t) \/ Finish(t)
        PROVE  Unshared'
    BY <1>2, ServerUnshared, DeliverUnshared, StatusUnshared, InsertUnshared, FinishUnshared
  <1>3. CASE UNCHANGED localVars
    BY <1>3 DEF localVars, Unshared, Alone, InStep
  <1> QED  BY <1>1, <1>2, <1>3, EditUnshared DEF LocalNext

(***************************************************************************)
(* Whatever requests for other URLs do to the shared map, a URL that is    *)
(* read by one GET at a time is answered as it was when the request came   *)
(* in, or newer, also when the server says 304.                            *)
(***************************************************************************)
THEOREM UnsharedAnswersAreCurrent == LocalSpec => []UnsharedAnswerIsCurrent
  <1>1. Inductive /\ Unshared => UnsharedAnswerIsCurrent
    <2> SUFFICES ASSUME Inductive, Unshared, NEW t \in Tasks, task[t].url \notin shared,
                        task[t].pc = "done", task[t].method = "GET"
                 PROVE  /\ task[t].response.body # Nothing
                        /\ task[t].response.body.edit >= task[t].since
      BY DEF UnsharedAnswerIsCurrent, AnswerIsCurrent
    <2>1. task[t].url \in Urls  BY DEF Inductive, Shape
    <2>2. OnItsWay(task[t], sent[task[t].url], cached[task[t].url], content[task[t].url])
      BY <2>1, TheOnlyOne
    <2> QED  BY <2>2 DEF OnItsWay, Keeps
  <1> QED  BY <1>1, InitInductive, NextInductive, InitUnshared, NextUnshared, PTL DEF LocalSpec

-----------------------------------------------------------------------------
(***************************************************************************)
(* BuiltinManifestWhole speaks of the end of a run; what makes it true is  *)
(* that during the run every name that was selected is still to be         *)
(* downloaded, has an entry, or has failed, and that a file whose write    *)
(* has ended is whole and stays so, because no other download writes it.   *)
(***************************************************************************)
RemoteVersion == RemoteVersions \cup {Unset}

VersionsOfSome == UNION {[names -> RemoteVersion] : names \in SUBSET RemoteNames}

FileStates == UNION {[fs -> {"torn", "whole"}] : fs \in SUBSET (RemoteNames \X RemoteVersion)}

Run ==
    [step : {"clean", "list", "install", "manifest"}, clean : BOOLEAN, filter : Filters,
     selected : SUBSET RemoteNames, todo : SUBSET RemoteNames, active : VersionsOfSome,
     entries : VersionsOfSome, failed : SUBSET RemoteNames]

BuiltinTyped ==
    /\ deployed \in [RemoteNames -> RemoteVersion]
    /\ dir \in [manifest : VersionsOfSome \cup {Unset, Torn}, files : FileStates]
    /\ install = NoInstall \/ install \in Run
    /\ outcome \in [end : {"none", "failed", "installed", "lost"}, cleaned : BOOLEAN,
                    selected : SUBSET RemoteNames]

(* The file of a name and a version is there and complete. *)
IsWhole(n, v) == <<n, v>> \in DOMAIN dir.files /\ dir.files[<<n, v>>] = "whole"

RunInOrder ==
    install # NoInstall =>
        /\ outcome = NoOutcome
        /\ install.step = "clean" => install.clean
        /\ install.step # "clean" /\ install.clean => dir.manifest \in {Unset, Torn}
        /\ install.step \in {"clean", "list"} =>
              install.selected = {} /\ install.todo = {} /\ install.failed = {}
              /\ DOMAIN install.entries = {} /\ DOMAIN install.active = {}
        /\ install.step = "manifest" =>
              install.todo = {} /\ install.failed = {} /\ DOMAIN install.active = {}
        /\ install.selected = install.todo \cup DOMAIN install.entries \cup install.failed
        /\ install.todo \cap DOMAIN install.entries = {}
        /\ DOMAIN install.active \subseteq DOMAIN install.entries
        /\ \A n \in DOMAIN install.active : install.active[n] = install.entries[n]
        /\ \A n \in DOMAIN install.entries \ (DOMAIN install.active \cup install.failed) :
              IsWhole(n, install.entries[n])

Installing == BuiltinTyped /\ RunInOrder /\ BuiltinManifestWhole

LEMMA EmptyVersions == << >> \in VersionsOfSome /\ << >> \in FileStates /\ DOMAIN << >> = {}
  <1>1. DOMAIN << >> = {} /\ << >> = [x \in {} |-> x]  OBVIOUS
  <1>2. << >> \in [{} -> RemoteVersion] /\ << >> \in [{} -> {"torn", "whole"}]  BY <1>1
  <1>3. {} \in SUBSET RemoteNames /\ {} \in SUBSET (RemoteNames \X RemoteVersion)  OBVIOUS
  <1>4. QED  BY <1>1, <1>2, <1>3 DEF VersionsOfSome, FileStates

LEMMA InitInstalling == BuiltinInit => Installing
  BY EmptyVersions DEF BuiltinInit, Installing, BuiltinTyped, RunInOrder, BuiltinManifestWhole, RemoteVersion,
     NoOutcome

(* A run that ends without an installed manifest, for what reason ever. *)
LEMMA EndInstalling ==
    ASSUME Installing, install # NoInstall, NEW end \in {"failed", "lost"}, EndInstall(end),
           UNCHANGED <<deployed, dir>>
    PROVE  Installing'
  <1>1. install \in Run  BY DEF Installing, BuiltinTyped
  <1>2. install' = NoInstall
        /\ outcome' = [end |-> end, cleaned |-> install.clean /\ install.step # "clean",
                       selected |-> install.selected]
    BY DEF EndInstall
  <1>3. BuiltinTyped'  BY <1>1, <1>2 DEF Installing, BuiltinTyped, Run
  <1>4. RunInOrder'  BY <1>2 DEF RunInOrder
  <1>5. install.clean /\ install.step # "clean" => dir.manifest \in {Unset, Torn}
    BY DEF Installing, RunInOrder
  <1>6. BuiltinManifestWhole'  BY <1>2, <1>5 DEF BuiltinManifestWhole
  <1>7. QED  BY <1>3, <1>4, <1>6 DEF Installing

LEMMA StartInstalling ==
    ASSUME Installing, NEW clean \in BOOLEAN, NEW filter \in Filters, StartInstall(clean, filter)
    PROVE  Installing'
  <1>1. install' \in Run /\ install'.step = (IF clean THEN "clean" ELSE "list")
        /\ install'.clean = clean
    BY EmptyVersions DEF StartInstall, Run
  <1>2. outcome' = NoOutcome /\ UNCHANGED <<deployed, dir>>  BY DEF StartInstall
  <1>3. BuiltinTyped'  BY <1>1, <1>2 DEF Installing, BuiltinTyped, NoOutcome
  <1>4. /\ install'.selected = {} /\ install'.todo = {} /\ install'.failed = {}
        /\ DOMAIN install'.entries = {} /\ DOMAIN install'.active = {}
    BY EmptyVersions DEF StartInstall
  <1>5. RunInOrder'  BY <1>1, <1>2, <1>4 DEF RunInOrder
  <1>6. BuiltinManifestWhole'  BY <1>2 DEF BuiltinManifestWhole, NoOutcome
  <1>7. QED  BY <1>3, <1>5, <1>6 DEF Installing

LEMMA RemoveInstalling ==
    ASSUME Installing, RemoveOne
    PROVE  Installing'
  <1>0. install \in Run /\ install.step = "clean" /\ install # NoInstall /\ UNCHANGED <<deployed, outcome>>
    BY DEF RemoveOne, Installing, BuiltinTyped, NoInstall
  <1>1. outcome' = NoOutcome  BY <1>0 DEF Installing, RunInOrder
  <1>2. BuiltinManifestWhole'  BY <1>1 DEF BuiltinManifestWhole, NoOutcome
  <1>3. CASE UNCHANGED install /\ dir' \in [manifest : VersionsOfSome \cup {Unset, Torn}, files : FileStates]
    <2>1. BuiltinTyped'  BY <1>0, <1>3 DEF Installing, BuiltinTyped
    <2>2. DOMAIN install.entries = {}  BY <1>0 DEF Installing, RunInOrder
    <2>3. RunInOrder'  BY <1>0, <1>3, <2>2 DEF Installing, RunInOrder
    <2>4. QED  BY <1>2, <2>1, <2>3 DEF Installing
  <1>4. CASE install' = [install EXCEPT !.step = "list"] /\ UNCHANGED dir /\ dir.manifest = Unset
    <2>1. install' \in Run /\ install'.step = "list"  BY <1>0, <1>4 DEF Run
    <2>2. BuiltinTyped'  BY <1>0, <1>4, <2>1 DEF Installing, BuiltinTyped
    <2>3. RunInOrder'  BY <1>0, <1>4, <2>1 DEF Installing, RunInOrder, Run
    <2>4. QED  BY <1>2, <2>2, <2>3 DEF Installing
  <1>5. dir \in [manifest : VersionsOfSome \cup {Unset, Torn}, files : FileStates]
    BY DEF Installing, BuiltinTyped
  <1>6. ASSUME NEW f \in DOMAIN dir.files,
               dir' = [dir EXCEPT !.files = [g \in DOMAIN @ \ {f} |-> @[g]]]
        PROVE  dir' \in [manifest : VersionsOfSome \cup {Unset, Torn}, files : FileStates]
    <2>1. [g \in DOMAIN dir.files \ {f} |-> dir.files[g]] \in FileStates
      <3>1. PICK fs \in SUBSET (RemoteNames \X RemoteVersion) : dir.files \in [fs -> {"torn", "whole"}]
        BY <1>5 DEF FileStates
      <3>2. [g \in DOMAIN dir.files \ {f} |-> dir.files[g]] \in [fs \ {f} -> {"torn", "whole"}]
        BY <3>1
      <3>3. fs \ {f} \in SUBSET (RemoteNames \X RemoteVersion)  BY <3>1
      <3>4. QED  BY <3>2, <3>3 DEF FileStates
    <2>2. QED  BY <1>5, <1>6, <2>1
  <1>7. QED  BY <1>3, <1>4, <1>5, <1>6 DEF RemoveOne

LEMMA ListInstalling ==
    ASSUME Installing, ListBundles
    PROVE  Installing'
  <1>0. install \in Run /\ install.step = "list" /\ install # NoInstall /\ UNCHANGED <<deployed, dir>>
    BY DEF ListBundles, Installing, BuiltinTyped, NoInstall
  <1>1. CASE EndInstall("failed")
    BY <1>0, <1>1, EndInstalling
  <1>2. CASE install' = [install EXCEPT !.step = "install", !.selected = Selected, !.todo = Selected]
             /\ UNCHANGED outcome
    <2>1. Selected \subseteq RemoteNames  BY DEF Selected
    <2>2. /\ install' \in Run /\ install'.step = "install" /\ install'.selected = Selected
          /\ install'.todo = Selected /\ install'.clean = install.clean
          /\ install'.failed = install.failed /\ install'.entries = install.entries
          /\ install'.active = install.active
      BY <1>0, <1>2, <2>1 DEF Run
    <2>3. BuiltinTyped'  BY <1>0, <1>2, <2>2 DEF Installing, BuiltinTyped
    <2>4. RunInOrder'  BY <1>0, <1>2, <2>2 DEF Installing, RunInOrder
    <2>5. outcome = NoOutcome  BY <1>0 DEF Installing, RunInOrder
    <2>6. BuiltinManifestWhole'  BY <1>2, <2>5 DEF BuiltinManifestWhole, NoOutcome
    <2>7. QED  BY <2>3, <2>4, <2>6 DEF Installing
  <1>3. QED  BY <1>1, <1>2 DEF ListBundles

(* While downloads are under way the outcome is not known: only the run matters. *)
LEMMA RunInstalling ==
    ASSUME Installing, install.step = "install"
    PROVE  /\ install \in Run /\ install # NoInstall
           /\ UNCHANGED outcome => BuiltinManifestWhole'
  <1>1. install \in Run /\ install # NoInstall
    BY DEF Installing, BuiltinTyped, NoInstall
  <1>2. outcome = NoOutcome  BY <1>1 DEF Installing, RunInOrder
  <1>3. QED  BY <1>1, <1>2 DEF BuiltinManifestWhole, NoOutcome

LEMMA DownloadInstalling ==
    ASSUME Installing, NEW n \in RemoteNames, Download(n)
    PROVE  Installing'
  <1>0. install \in Run /\ install # NoInstall /\ UNCHANGED <<deployed, dir, outcome>>
        /\ BuiltinManifestWhole' /\ install.step = "install" /\ n \in install.todo
    BY RunInstalling DEF Download
  <1>1. deployed[n] \in RemoteVersion  BY DEF Installing, BuiltinTyped
  <1> DEFINE begun == [a \in DOMAIN install.active \cup {n} |-> IF a = n THEN deployed[n] ELSE install.active[a]]
             entries == [e \in DOMAIN install.entries \cup {n} |-> IF e = n THEN deployed[n] ELSE install.entries[e]]
  <1>2. begun \in VersionsOfSome /\ entries \in VersionsOfSome
    <2>1. install.active \in VersionsOfSome /\ install.entries \in VersionsOfSome
      BY <1>0 DEF Run
    <2>2. PICK some \in SUBSET RemoteNames : install.active \in [some -> RemoteVersion]
      BY <2>1 DEF VersionsOfSome
    <2>3. PICK more \in SUBSET RemoteNames : install.entries \in [more -> RemoteVersion]
      BY <2>1 DEF VersionsOfSome
    <2>4. begun \in [some \cup {n} -> RemoteVersion] /\ entries \in [more \cup {n} -> RemoteVersion]
      BY <1>1, <2>2, <2>3
    <2>5. some \cup {n} \in SUBSET RemoteNames /\ more \cup {n} \in SUBSET RemoteNames
      BY <2>2, <2>3
    <2>6. QED  BY <2>4, <2>5 DEF VersionsOfSome
  <1>3. /\ install' \in Run /\ install'.step = "install"
        /\ install'.todo = install.todo \ {n} /\ install'.active = begun
        /\ install'.entries = entries /\ install'.selected = install.selected
        /\ install'.failed = install.failed /\ install'.clean = install.clean
    BY <1>0, <1>2 DEF Download, Run
  <1>4. BuiltinTyped'  BY <1>0, <1>3 DEF Installing, BuiltinTyped
  <1>5. RunInOrder'
    <2>1. n \notin DOMAIN install.entries  BY <1>0 DEF Installing, RunInOrder
    <2>2. /\ DOMAIN entries = DOMAIN install.entries \cup {n}
          /\ DOMAIN begun = DOMAIN install.active \cup {n}
          /\ entries[n] = deployed[n] /\ begun[n] = deployed[n]
          /\ \A m \in DOMAIN install.entries : entries[m] = install.entries[m]
          /\ \A m \in DOMAIN install.active : m # n => begun[m] = install.active[m]
      BY <2>1
    <2> HIDE DEF entries, begun
    <2>3. DOMAIN install.active \subseteq DOMAIN install.entries
      BY <1>0 DEF Installing, RunInOrder
    <2>4. QED  BY <1>0, <1>3, <2>1, <2>2, <2>3 DEF Installing, RunInOrder, IsWhole
  <1>6. QED  BY <1>0, <1>4, <1>5 DEF Installing

(* Writing the file of a download that is under way touches no other's. *)
LEMMA SetFileKeeps ==
    ASSUME BuiltinTyped, install \in Run, NEW n \in DOMAIN install.active, NEW state \in {"torn", "whole"},
           NEW v, v = install.active[n], dir' = SetFile(FileOf(n), state)
    PROVE  /\ dir' \in [manifest : VersionsOfSome \cup {Unset, Torn}, files : FileStates]
           /\ dir'.manifest = dir.manifest
           /\ \A m, w : m # n /\ IsWhole(m, w) => IsWhole(m, w)'
           /\ state = "whole" => IsWhole(n, v)'
  <1>1. n \in RemoteNames /\ install.active[n] \in RemoteVersion
    BY DEF Run, VersionsOfSome
  <1>2. FileOf(n) = <<n, v>> /\ FileOf(n) \in RemoteNames \X RemoteVersion
    BY <1>1 DEF FileOf
  <1> DEFINE files == [g \in DOMAIN dir.files \cup {FileOf(n)} |->
                          IF g = FileOf(n) THEN state ELSE dir.files[g]]
  <1>3. dir.files \in FileStates /\ dir.manifest \in VersionsOfSome \cup {Unset, Torn}
    BY DEF BuiltinTyped
  <1>4. files \in FileStates
    <2>1. PICK fs \in SUBSET (RemoteNames \X RemoteVersion) : dir.files \in [fs -> {"torn", "whole"}]
      BY <1>3 DEF FileStates
    <2>2. files \in [fs \cup {FileOf(n)} -> {"torn", "whole"}]  BY <2>1
    <2>3. fs \cup {FileOf(n)} \in SUBSET (RemoteNames \X RemoteVersion)  BY <1>2, <2>1
    <2>4. QED  BY <2>2, <2>3 DEF FileStates
  <1>5. dir' = [dir EXCEPT !.files = files]  BY DEF SetFile
  <1>6. /\ dir' \in [manifest : VersionsOfSome \cup {Unset, Torn}, files : FileStates]
        /\ dir'.manifest = dir.manifest /\ dir'.files = files
    BY <1>3, <1>4, <1>5 DEF BuiltinTyped
  <1>7. ASSUME NEW m, NEW w, m # n, IsWhole(m, w)
        PROVE  IsWhole(m, w)'
    <2>1. <<m, w>> # FileOf(n)  BY <1>2, <1>7
    <2>2. QED  BY <1>6, <1>7, <2>1 DEF IsWhole
  <1>8. state = "whole" => IsWhole(n, v)'
    BY <1>2, <1>6 DEF IsWhole
  <1>9. QED  BY <1>6, <1>7, <1>8

(* The download of n leaves the set of those under way. *)
LEMMA EndedIsTyped ==
    ASSUME install \in Run, NEW n
    PROVE  /\ Ended(n) \in VersionsOfSome
           /\ DOMAIN Ended(n) = DOMAIN install.active \ {n}
           /\ \A m \in DOMAIN Ended(n) : Ended(n)[m] = install.active[m]
  <1>1. PICK names \in SUBSET RemoteNames : install.active \in [names -> RemoteVersion]
    BY DEF Run, VersionsOfSome
  <1>2. Ended(n) \in [names \ {n} -> RemoteVersion]  BY <1>1 DEF Ended
  <1>3. names \ {n} \in SUBSET RemoteNames  BY <1>1
  <1>4. QED  BY <1>2, <1>3 DEF VersionsOfSome, Ended

LEMMA BeginWriteInstalling ==
    ASSUME Installing, NEW n \in RemoteNames, BeginWrite(n)
    PROVE  Installing'
  <1>0. install \in Run /\ install # NoInstall /\ UNCHANGED <<deployed, install, outcome>>
        /\ BuiltinManifestWhole' /\ install.step = "install" /\ n \in DOMAIN install.active
        /\ BuiltinTyped
    BY RunInstalling DEF BeginWrite, Installing
  <1>1. /\ dir' \in [manifest : VersionsOfSome \cup {Unset, Torn}, files : FileStates]
        /\ dir'.manifest = dir.manifest
        /\ \A m, w : m # n /\ IsWhole(m, w) => IsWhole(m, w)'
    BY <1>0, SetFileKeeps DEF BeginWrite
  <1>2. BuiltinTyped'  BY <1>0, <1>1 DEF BuiltinTyped
  <1>3. RunInOrder'
    <2>1. ASSUME NEW m \in DOMAIN install.entries \ (DOMAIN install.active \cup install.failed)
          PROVE  IsWhole(m, install.entries[m])'
      <3>1. IsWhole(m, install.entries[m])  BY <1>0 DEF Installing, RunInOrder
      <3>2. m # n  BY <1>0
      <3>3. PICK w : w = install.entries[m]  OBVIOUS
      <3>4. IsWhole(m, w)'  BY <1>1, <3>1, <3>2, <3>3
      <3>5. install'.entries[m] = w  BY <1>0, <3>3
      <3>6. QED  BY <3>4, <3>5 DEF IsWhole
    <2>2. QED  BY <1>0, <1>1, <2>1 DEF Installing, RunInOrder
  <1>4. QED  BY <1>0, <1>2, <1>3 DEF Installing

LEMMA EndWriteInstalling ==
    ASSUME Installing, NEW n \in RemoteNames, EndWrite(n)
    PROVE  Installing'
  <1>0. install \in Run /\ install # NoInstall /\ UNCHANGED <<deployed, outcome>>
        /\ BuiltinManifestWhole' /\ install.step = "install" /\ n \in DOMAIN install.active
        /\ BuiltinTyped
    BY RunInstalling DEF EndWrite, Installing
  <1>1. PICK v : v = install.active[n]  OBVIOUS
  <1>2. /\ dir' \in [manifest : VersionsOfSome \cup {Unset, Torn}, files : FileStates]
        /\ dir'.manifest = dir.manifest
        /\ \A m, w : m # n /\ IsWhole(m, w) => IsWhole(m, w)'
        /\ IsWhole(n, v)'
    BY <1>0, <1>1, SetFileKeeps DEF EndWrite
  <1>3. /\ install' \in Run /\ install'.step = "install" /\ install'.clean = install.clean
        /\ install'.todo = install.todo /\ install'.entries = install.entries
        /\ install'.selected = install.selected /\ install'.failed = install.failed
        /\ install'.active = Ended(n)
    BY <1>0, EndedIsTyped DEF EndWrite, Run
  <1>4. BuiltinTyped'  BY <1>0, <1>2, <1>3 DEF BuiltinTyped
  <1>5. /\ DOMAIN Ended(n) = DOMAIN install.active \ {n}
        /\ \A m \in DOMAIN Ended(n) : Ended(n)[m] = install.active[m]
    BY <1>0, EndedIsTyped
  <1>6. install.entries[n] = v /\ n \in DOMAIN install.entries
    BY <1>0, <1>1 DEF Installing, RunInOrder
  <1>7. RunInOrder'
    <2>1. ASSUME NEW m \in DOMAIN install'.entries \ (DOMAIN install'.active \cup install'.failed)
          PROVE  IsWhole(m, install.entries[m])'
      <3>1. PICK w : w = install.entries[m]  OBVIOUS
      <3>2. CASE m = n  BY <1>2, <1>3, <1>6, <3>1, <3>2 DEF IsWhole
      <3>3. CASE m # n
        <4>1. m \in DOMAIN install.entries \ (DOMAIN install.active \cup install.failed)
          BY <1>3, <1>5, <3>3
        <4>2. IsWhole(m, install.entries[m])  BY <1>0, <4>1 DEF Installing, RunInOrder
        <4>3. IsWhole(m, w)'  BY <1>2, <3>1, <3>3, <4>2
        <4>4. QED  BY <1>3, <3>1, <4>3 DEF IsWhole
      <3>4. QED  BY <3>2, <3>3
    <2>2. QED  BY <1>0, <1>2, <1>3, <1>5, <2>1 DEF Installing, RunInOrder
  <1>8. QED  BY <1>0, <1>4, <1>7 DEF Installing

LEMMA FailOneInstalling ==
    ASSUME Installing, NEW n \in RemoteNames, FailOne(n)
    PROVE  Installing'
  <1>0. install \in Run /\ install # NoInstall /\ UNCHANGED <<deployed, dir, outcome>>
        /\ BuiltinManifestWhole' /\ install.step = "install"
        /\ n \in install.todo \cup DOMAIN install.active /\ BuiltinTyped
    BY RunInstalling DEF FailOne, Installing
  <1>1. /\ install' \in Run /\ install'.step = "install" /\ install'.clean = install.clean
        /\ install'.todo = install.todo \ {n} /\ install'.entries = install.entries
        /\ install'.selected = install.selected /\ install'.failed = install.failed \cup {n}
        /\ install'.active = Ended(n)
    BY <1>0, EndedIsTyped DEF FailOne, Run
  <1>2. BuiltinTyped'  BY <1>0, <1>1 DEF BuiltinTyped
  <1>3. /\ DOMAIN Ended(n) = DOMAIN install.active \ {n}
        /\ \A m \in DOMAIN Ended(n) : Ended(n)[m] = install.active[m]
    BY <1>0, EndedIsTyped
  <1>4. RunInOrder'
    <2>1. ASSUME NEW m \in DOMAIN install'.entries \ (DOMAIN install'.active \cup install'.failed)
          PROVE  IsWhole(m, install.entries[m])'
      <3>1. m \in DOMAIN install.entries \ (DOMAIN install.active \cup install.failed)
        BY <1>1, <1>3
      <3>2. IsWhole(m, install.entries[m])  BY <1>0, <3>1 DEF Installing, RunInOrder
      <3>3. QED  BY <1>0, <1>1, <3>2 DEF IsWhole
    <2>2. install.selected = install.todo \cup DOMAIN install.entries \cup install.failed
          /\ n \in install.selected
      BY <1>0 DEF Installing, RunInOrder
    <2>3. QED  BY <1>0, <1>1, <1>3, <2>1, <2>2 DEF Installing, RunInOrder
  <1>5. QED  BY <1>0, <1>2, <1>4 DEF Installing

LEMMA FinishInstalling ==
    ASSUME Installing, FinishInstall
    PROVE  Installing'
  <1>0. install \in Run /\ install # NoInstall /\ UNCHANGED <<deployed, deploys>>
        /\ install.step = "install" /\ install.todo = {} /\ DOMAIN install.active = {}
        /\ BuiltinTyped /\ (UNCHANGED outcome => BuiltinManifestWhole')
    BY RunInstalling DEF FinishInstall, Installing
  <1>1. CASE install.failed = {} /\ UNCHANGED outcome
    <2>1. dir' = [dir EXCEPT !.manifest = Torn] /\ install' = [install EXCEPT !.step = "manifest"]
      BY <1>1 DEF FinishInstall, MayWriteManifest
    <2>2. dir'.manifest = Torn /\ dir'.files = dir.files
          /\ dir' \in [manifest : VersionsOfSome \cup {Unset, Torn}, files : FileStates]
      BY <1>0, <2>1 DEF BuiltinTyped
    <2>3. /\ install' \in Run /\ install'.step = "manifest"
          /\ install'.selected = install.selected /\ install'.entries = install.entries
          /\ install'.failed = {} /\ install'.todo = {} /\ install'.active = install.active
      BY <1>0, <1>1, <2>1 DEF Run
    <2>4. BuiltinTyped'  BY <1>0, <1>1, <2>2, <2>3 DEF BuiltinTyped
    <2>5. RunInOrder'
      BY <1>0, <1>1, <2>2, <2>3 DEF Installing, RunInOrder, IsWhole
    <2>6. QED  BY <1>0, <1>1, <2>4, <2>5 DEF Installing
  <1>2. CASE EndInstall("failed") /\ UNCHANGED dir
    BY <1>0, <1>2, EndInstalling
  <1>3. QED  BY <1>1, <1>2 DEF FinishInstall, MayWriteManifest

LEMMA WriteManifestInstalling ==
    ASSUME Installing, WriteManifest
    PROVE  Installing'
  <1>0. install \in Run /\ install # NoInstall /\ UNCHANGED deployed
        /\ install.step = "manifest" /\ BuiltinTyped
    BY DEF WriteManifest, Installing, BuiltinTyped, NoInstall
  <1>1. /\ dir' = [dir EXCEPT !.manifest = install.entries] /\ install' = NoInstall
        /\ outcome' = [end |-> "installed", cleaned |-> install.clean /\ install.step # "clean",
                       selected |-> install.selected]
    BY DEF WriteManifest, EndInstall
  <1>2. install.entries \in VersionsOfSome /\ install.selected \subseteq RemoteNames
    BY <1>0 DEF Run
  <1>3. dir'.manifest = install.entries /\ dir'.files = dir.files
        /\ dir' \in [manifest : VersionsOfSome \cup {Unset, Torn}, files : FileStates]
    BY <1>0, <1>1, <1>2 DEF BuiltinTyped
  <1>4. BuiltinTyped'  BY <1>0, <1>1, <1>2, <1>3 DEF BuiltinTyped
  <1>5. install.selected = DOMAIN install.entries
        /\ \A m \in DOMAIN install.entries : IsWhole(m, install.entries[m])
    BY <1>0 DEF Installing, RunInOrder
  <1>6. BuiltinManifestWhole'  BY <1>1, <1>3, <1>5 DEF BuiltinManifestWhole, IsWhole
  <1>7. RunInOrder'  BY <1>1 DEF RunInOrder
  <1>8. QED  BY <1>4, <1>6, <1>7 DEF Installing

LEMMA NextInstalling == Installing /\ [BuiltinNext]_builtinVars => Installing'
  <1> SUFFICES ASSUME Installing, [BuiltinNext]_builtinVars PROVE Installing'  OBVIOUS
  <1>1. ASSUME NEW n \in RemoteNames, NEW v \in RemoteVersions, RemoteDeploy(n, v) PROVE Installing'
    <2>1. BuiltinTyped'  BY <1>1 DEF RemoteDeploy, Installing, BuiltinTyped, RemoteVersion
    <2>2. RunInOrder'  BY <1>1 DEF RemoteDeploy, Installing, RunInOrder, IsWhole
    <2>3. BuiltinManifestWhole'  BY <1>1 DEF RemoteDeploy, Installing, BuiltinManifestWhole
    <2>4. QED  BY <2>1, <2>2, <2>3 DEF Installing
  <1>2. ASSUME NEW n \in RemoteNames, Download(n) \/ BeginWrite(n) \/ EndWrite(n) \/ FailOne(n)
        PROVE  Installing'
    BY <1>2, DownloadInstalling, BeginWriteInstalling, EndWriteInstalling, FailOneInstalling
  <1>3. ASSUME LoseInstall \/ FailInstall PROVE Installing'
    BY <1>3, EndInstalling DEF LoseInstall, FailInstall, NoInstall
  <1>4. CASE UNCHANGED builtinVars
    <2>1. BuiltinTyped'  BY <1>4 DEF builtinVars, Installing, BuiltinTyped
    <2>2. RunInOrder'  BY <1>4 DEF builtinVars, Installing, RunInOrder, IsWhole
    <2>3. BuiltinManifestWhole'  BY <1>4 DEF builtinVars, Installing, BuiltinManifestWhole
    <2>4. QED  BY <2>1, <2>2, <2>3 DEF Installing
  <1>5. QED
    BY <1>1, <1>2, <1>3, <1>4, StartInstalling, RemoveInstalling, ListInstalling, FinishInstalling,
       WriteManifestInstalling
    DEF BuiltinNext

(* builtin: a run that says it has installed the bundles leaves a manifest *)
(* that names each of those it selected, in a whole file of that version,  *)
(* for every number of downloads at a time; one that fails after it has    *)
(* emptied the directory leaves none that can be read.                     *)
THEOREM InstalledManifestIsWhole == BuiltinSpec => []BuiltinManifestWhole
  <1>1. Installing => BuiltinManifestWhole  BY DEF Installing
  <1>2. QED  BY <1>1, InitInstalling, NextInstalling, PTL DEF BuiltinSpec

-----------------------------------------------------------------------------
(***************************************************************************)
(* ExtractedIsBundle: whatever a file or a version of the remote holds is  *)
(* a bundle that create made, or torn, and an extraction that writes has   *)
(* in the directory the files it is done with and nothing else.            *)
(***************************************************************************)
Made == {m.bundle : m \in made}

(* A function from paths to entries that hold a content of the source. *)
PackedWell(bundle) ==
    /\ bundle = [p \in DOMAIN bundle |-> bundle[p]]
    /\ DOMAIN bundle \subseteq SitePaths
    /\ \A p \in DOMAIN bundle : bundle[p].content \in SiteContents

Directories == UNION {[paths -> SiteContents \cup {Torn}] : paths \in SUBSET SitePaths}

OutPaths == IF outdir = Unset THEN {} ELSE DOMAIN outdir

FilesSound ==
    /\ site \in [SitePaths -> SiteContents \cup {Unset}]
    /\ disk \in [BundleFiles -> Made \cup {Torn, Unset}]
    /\ \A v \in DOMAIN stored : stored[v] \in Made \cup {Torn}
    /\ \A bundle \in Made : PackedWell(bundle)

Creating ==
    /\ shell = [command |-> "create", step |-> shell.step, options |-> shell.options,
                todo |-> shell.todo, packed |-> shell.packed]
    /\ shell.todo \subseteq SitePaths
    /\ PackedWell(shell.packed)
    /\ shell.step = "read" \/ shell.packed \in Made

Extracting ==
    /\ shell = [command |-> "extract", bundle |-> shell.bundle, todo |-> shell.todo, step |-> shell.step]
    /\ shell.bundle \in Made /\ shell.todo \subseteq DOMAIN shell.bundle
    /\ shell.step \in {"remove", "write"}
    /\ shell.step = "remove" => outdir # Unset /\ shell.todo = DOMAIN shell.bundle
    /\ shell.step = "write" =>
          /\ ~ extracted
          /\ OutPaths = DOMAIN shell.bundle \ shell.todo
          /\ \A p \in OutPaths : outdir[p] = shell.bundle[p].content

Serving == shell = [command |-> "serve", bundle |-> shell.bundle, answer |-> shell.answer]

ShellSound == shell = Idling \/ Creating \/ Extracting \/ Serving

BundleKept ==
    /\ FilesSound
    /\ outdir \in Directories \cup {Unset}
    /\ ShellSound
    /\ ExtractedIsBundle

(* The files of a bundle are a directory, and not the absence of one. *)
LEMMA BundleIsDirectory ==
    ASSUME NEW bundle, PackedWell(bundle)
    PROVE  /\ [p \in DOMAIN bundle |-> bundle[p].content] \in Directories
           /\ [p \in DOMAIN bundle |-> bundle[p].content] # Unset
  <1>1. [p \in DOMAIN bundle |-> bundle[p].content] \in [DOMAIN bundle -> SiteContents \cup {Torn}]
    BY DEF PackedWell
  <1>2. DOMAIN bundle \in SUBSET SitePaths  BY DEF PackedWell
  <1>3. [p \in DOMAIN bundle |-> bundle[p].content] \in Directories
    BY <1>1, <1>2 DEF Directories
  <1>4. QED  BY <1>3, UnsetIsNoDirectory DEF Directories

LEMMA ExtractedIsThere ==
    ASSUME BundleKept, extracted
    PROVE  outdir # Unset
  <1>1. PICK m \in made : outdir = [p \in DOMAIN m.bundle |-> m.bundle[p].content]
    BY DEF BundleKept, ExtractedIsBundle
  <1>2. PackedWell(m.bundle)  BY <1>1 DEF BundleKept, FilesSound, Made
  <1>3. QED  BY <1>1, <1>2, BundleIsDirectory

LEMMA InitKept == BundlesInit => BundleKept
  <1> SUFFICES ASSUME BundlesInit PROVE BundleKept  OBVIOUS
  <1>1. made = {} /\ Made = {}  BY DEF BundlesInit, Made
  <1>2. FilesSound  BY <1>1 DEF BundlesInit, FilesSound, SiteContents
  <1>3. QED  BY <1>2 DEF BundlesInit, BundleKept, ShellSound, ExtractedIsBundle

(* What a step leaves alone keeps its part of the invariant. *)
LEMMA SameMade == UNCHANGED made => Made' = Made
  BY DEF Made

LEMMA DirectoryKept ==
    ASSUME BundleKept, UNCHANGED <<made, outdir, extracted>>, FilesSound', ShellSound'
    PROVE  BundleKept'
  BY DEF BundleKept, ExtractedIsBundle

LEMMA FilesKept ==
    ASSUME BundleKept, UNCHANGED <<site, disk, stored, made>>
    PROVE  FilesSound'
  <1>1. Made' = Made  BY SameMade
  <1>2. \A bundle : PackedWell(bundle) => PackedWell(bundle)'  BY DEF PackedWell
  <1>3. QED  BY <1>1, <1>2 DEF BundleKept, FilesSound

LEMMA EndKept ==
    ASSUME BundleKept, NEW code, ExitWith(code), FilesSound', UNCHANGED <<made, outdir, extracted>>
    PROVE  BundleKept'
  <1>1. ShellSound'  BY DEF ExitWith, ShellSound
  <1>2. QED  BY <1>1, DirectoryKept

LEMMA ShellKept ==
    ASSUME BundleKept, UNCHANGED <<shell, made, outdir, extracted>>
    PROVE  ShellSound'
  <1>1. Made' = Made /\ OutPaths' = OutPaths  BY SameMade DEF OutPaths
  <1>2. \A bundle : PackedWell(bundle) => PackedWell(bundle)'  BY DEF PackedWell
  <1>3. CASE shell = Idling  BY <1>3 DEF ShellSound
  <1>4. CASE Creating  
    <2>1. Creating'  BY <1>1, <1>2, <1>4 DEF Creating, PackedWell
    <2>2. QED  BY <2>1 DEF ShellSound
  <1>5. CASE Extracting
    <2>1. Extracting'  BY <1>1, <1>5 DEF Extracting
    <2>2. QED  BY <2>1 DEF ShellSound
  <1>6. CASE Serving
    <2>1. Serving'  BY <1>6 DEF Serving
    <2>2. QED  BY <2>1 DEF ShellSound
  <1>7. QED  BY <1>3, <1>4, <1>5, <1>6 DEF BundleKept, ShellSound

(* Which of the commands runs. *)
LEMMA CreateRuns == ASSUME ShellSound, shell.command = "create" PROVE Creating /\ shell # Idling
  BY DEF ShellSound, Creating, Extracting, Serving, Idling

LEMMA ExtractRuns == ASSUME ShellSound, shell.command = "extract" PROVE Extracting /\ shell # Idling
  BY DEF ShellSound, Creating, Extracting, Serving, Idling

LEMMA ServeRuns == ASSUME ShellSound, shell.command = "serve" PROVE Serving /\ shell # Idling
  BY DEF ShellSound, Creating, Extracting, Serving, Idling

-----------------------------------------------------------------------------
(* create                                                                  *)

LEMMA EditKept ==
    ASSUME BundleKept, NEW e \in Edits, EditSite(e[1], e[2])
    PROVE  BundleKept'
  <1>1. e[2] \in SiteContents \cup {Unset}  BY DEF SiteContents
  <1>2. Made' = Made  BY SameMade DEF EditSite
  <1>3. \A bundle : PackedWell(bundle) => PackedWell(bundle)'  BY DEF PackedWell
  <1>4. FilesSound'  BY <1>1, <1>2, <1>3 DEF EditSite, BundleKept, FilesSound
  <1>5. QED  BY <1>4, ShellKept, DirectoryKept DEF EditSite

LEMMA StartCreateKept ==
    ASSUME BundleKept, NEW o, StartCreate(o)
    PROVE  BundleKept'
  <1>1. FilesSound' /\ UNCHANGED <<made, outdir, extracted>>  BY FilesKept DEF StartCreate
  <1>2. CASE ExitWith(1)  BY <1>1, <1>2, EndKept
  <1>3. ASSUME NEW files \in SUBSET SitePaths,
               shell' = [command |-> "create", step |-> "read", options |-> o,
                         todo |-> files, packed |-> << >>]
        PROVE  BundleKept'
    <2>1. PackedWell(<< >>)  BY DEF PackedWell
    <2>2. Creating'  BY <1>3, <2>1 DEF Creating, PackedWell
    <2>3. QED  BY <1>1, <2>2, DirectoryKept DEF ShellSound
  <1>4. {p \in Present : ~ IsFileIgnored(p, IgnoreInputs(o.ignore))} \in SUBSET SitePaths
    BY DEF Present
  <1>5. QED  BY <1>2, <1>3, <1>4 DEF StartCreate

LEMMA PackFileKept ==
    ASSUME BundleKept, NEW p \in SitePaths, PackFile(p)
    PROVE  BundleKept'
  <1>1. FilesSound' /\ UNCHANGED <<made, outdir, extracted>>  BY FilesKept DEF PackFile
  <1>2. CASE site[p] = Unset  BY <1>1, <1>2, EndKept DEF PackFile
  <1>3. CASE site[p] # Unset
    <2> DEFINE entry == [content |-> site[p],
                         headers |-> GetHeaders(p, HeaderInputs(shell.options.headers))]
               packed == Overlay(shell.packed, [q \in {p} |-> entry])
    <2>1. Creating /\ shell.step = "read"  BY CreateRuns DEF PackFile, BundleKept
    <2>2. shell' = [shell EXCEPT !.todo = @ \ {p}, !.packed = packed]  BY <1>3 DEF PackFile
    <2>3. entry.content \in SiteContents  BY <1>3 DEF BundleKept, FilesSound
    <2> HIDE DEF entry
    <2>4. PackedWell(packed)
      <3>1. PackedWell(shell.packed)  BY <2>1 DEF Creating
      <3>2. DOMAIN packed = DOMAIN shell.packed \cup {p}  BY DEF Overlay
      <3>3. \A q \in DOMAIN packed : packed[q] = IF q = p THEN entry ELSE shell.packed[q]
        BY DEF Overlay
      <3>4. packed = [q \in DOMAIN packed |-> packed[q]]  BY DEF Overlay
      <3> HIDE DEF packed
      <3>5. QED  BY <2>3, <3>1, <3>2, <3>3, <3>4 DEF PackedWell
    <2> HIDE DEF packed
    <2>5. Creating'
      <3>1. shell' = [command |-> "create", step |-> "read", options |-> shell.options,
                      todo |-> shell.todo \ {p}, packed |-> packed]
        <4>1. PICK before, options, todo :
                  shell = [command |-> "create", step |-> "read", options |-> options,
                           todo |-> todo, packed |-> before]
          BY <2>1 DEF Creating
        <4>2. QED  BY <2>2, <4>1
      <3>2. shell.todo \subseteq SitePaths  BY <2>1 DEF Creating
      <3>3. QED  BY <2>4, <3>1, <3>2 DEF Creating, PackedWell
    <2>6. QED  BY <1>1, <2>5, DirectoryKept DEF ShellSound
  <1>4. QED  BY <1>2, <1>3

LEMMA OpenOutFileKept ==
    ASSUME BundleKept, OpenOutFile
    PROVE  BundleKept'
  <1>1. Creating /\ shell.step = "read"  BY CreateRuns DEF OpenOutFile, BundleKept
  <1>2. CASE ExitWith(1) /\ UNCHANGED <<disk, made>>
    <2>1. FilesSound' /\ UNCHANGED <<made, outdir, extracted>>  BY <1>2, FilesKept DEF OpenOutFile
    <2>2. QED  BY <1>2, <2>1, EndKept
  <1>3. CASE /\ disk' = [disk EXCEPT ![CreatedFile] = Torn]
             /\ shell' = [shell EXCEPT !.step = "write"]
             /\ made' = made \cup {[bundle |-> shell.packed, options |-> shell.options]}
    <2>1. UNCHANGED <<site, outdir, stored, extracted>>  BY DEF OpenOutFile
    <2>2. Made' = Made \cup {shell.packed}
      <3>1. PICK m : m = [bundle |-> shell.packed, options |-> shell.options]  OBVIOUS
      <3>2. m.bundle = shell.packed /\ made' = made \cup {m}  BY <1>3, <3>1
      <3>3. QED  BY <3>2 DEF Made
    <2>3. PackedWell(shell.packed)  BY <1>1 DEF Creating
    <2>4. \A bundle : PackedWell(bundle) => PackedWell(bundle)'  BY DEF PackedWell
    <2>5. FilesSound'
      BY <1>3, <2>1, <2>2, <2>3, <2>4 DEF BundleKept, FilesSound
    <2>6. shell' = [command |-> "create", step |-> "write", options |-> shell.options,
                    todo |-> shell.todo, packed |-> shell.packed]
      <3>1. PICK packed, options, todo :
                shell = [command |-> "create", step |-> "read", options |-> options,
                         todo |-> todo, packed |-> packed]
        BY <1>1 DEF Creating
      <3>2. QED  BY <1>3, <3>1
    <2>7. Creating'  BY <1>1, <2>2, <2>3, <2>6 DEF Creating, PackedWell
    <2>8. ExtractedIsBundle'  BY <1>3, <2>1 DEF BundleKept, ExtractedIsBundle
    <2>9. QED  BY <2>1, <2>5, <2>7, <2>8 DEF BundleKept, ShellSound
  <1>4. QED  BY <1>2, <1>3 DEF OpenOutFile

LEMMA WriteOutFileKept ==
    ASSUME BundleKept, WriteOutFile
    PROVE  BundleKept'
  <1>1. Creating /\ shell.packed \in Made
    <2>1. Creating /\ shell.step = "write"  BY CreateRuns DEF WriteOutFile, BundleKept
    <2>2. QED  BY <2>1 DEF Creating
  <1>2. Made' = Made  BY SameMade DEF WriteOutFile
  <1>3. \A bundle : PackedWell(bundle) => PackedWell(bundle)'  BY DEF PackedWell
  <1>4. FilesSound'  BY <1>1, <1>2, <1>3 DEF WriteOutFile, BundleKept, FilesSound
  <1>5. QED  BY <1>4, EndKept DEF WriteOutFile

-----------------------------------------------------------------------------
(* extract and serve                                                       *)

LEMMA FileIsMade ==
    ASSUME BundleKept, NEW f
    PROVE  FileAt(f) \in Made \cup {Torn, Unset}
  BY DEF FileAt, BundleKept, FilesSound

LEMMA StartExtractKept ==
    ASSUME BundleKept, NEW option, NEW clean, StartExtract(option, clean)
    PROVE  BundleKept'
  <1> DEFINE bundle == IF Refused THEN Unset ELSE FileAt(ReadFile(option, Settings.extractFile))
  <1>1. FilesSound' /\ UNCHANGED <<made, outdir, extracted>>  BY FilesKept DEF StartExtract
  <1>2. CASE ExitWith(1)  BY <1>1, <1>2, EndKept
  <1>3. CASE /\ bundle \notin {Unset, Torn}
             /\ shell' = [command |-> "extract", bundle |-> bundle, todo |-> DOMAIN bundle,
                          step |-> IF outdir = Unset THEN "write" ELSE "remove"]
    <2>1. bundle \in Made  BY <1>3, FileIsMade
    <2> HIDE DEF bundle
    <2>2. Made' = Made /\ OutPaths' = OutPaths  BY <1>1, SameMade DEF OutPaths
    <2>3. outdir = Unset => ~ extracted /\ OutPaths = {}  BY ExtractedIsThere DEF OutPaths
    <2>4. Extracting'  BY <1>1, <1>3, <2>1, <2>2, <2>3 DEF Extracting
    <2>5. QED  BY <1>1, <2>4, DirectoryKept DEF ShellSound
  <1>4. QED  BY <1>2, <1>3 DEF StartExtract

LEMMA RemoveExtractedKept ==
    ASSUME BundleKept, RemoveExtracted
    PROVE  BundleKept'
  <1>1. Extracting /\ shell.step = "remove"  BY ExtractRuns DEF RemoveExtracted, BundleKept
  <1>2. UNCHANGED <<site, disk, stored, made>> /\ ~ extracted'  BY DEF RemoveExtracted
  <1>3. FilesSound' /\ ExtractedIsBundle'  BY <1>2, FilesKept DEF ExtractedIsBundle
  <1>4. Made' = Made  BY <1>2, SameMade
  <1>5. outdir \in Directories  BY <1>1 DEF Extracting, BundleKept
  <1>6. ASSUME NEW p \in DOMAIN outdir, outdir' = [q \in DOMAIN outdir \ {p} |-> outdir[q]],
               UNCHANGED shell
        PROVE  BundleKept'
    <2>1. PICK paths \in SUBSET SitePaths : outdir \in [paths -> SiteContents \cup {Torn}]
      BY <1>5 DEF Directories
    <2>2. outdir' \in [paths \ {p} -> SiteContents \cup {Torn}] /\ paths \ {p} \in SUBSET SitePaths
      BY <1>6, <2>1
    <2>3. outdir' \in Directories /\ outdir' # Unset
      BY <2>2, UnsetIsNoDirectory DEF Directories
    <2>4. Extracting'  BY <1>1, <1>4, <1>6, <2>3 DEF Extracting
    <2>5. QED  BY <1>3, <2>3, <2>4 DEF BundleKept, ShellSound
  <1>7. CASE outdir' = Unset /\ shell' = [shell EXCEPT !.step = "write"]
    <2>1. shell' = [command |-> "extract", bundle |-> shell.bundle, todo |-> shell.todo, step |-> "write"]
      BY <1>1, <1>7 DEF Extracting
    <2>2. OutPaths' = {}  BY <1>7 DEF OutPaths
    <2>3. shell.todo = DOMAIN shell.bundle /\ shell.bundle \in Made  BY <1>1 DEF Extracting
    <2>4. Extracting'  BY <1>2, <1>4, <2>1, <2>2, <2>3 DEF Extracting
    <2>5. QED  BY <1>3, <1>7, <2>4 DEF BundleKept, ShellSound
  <1>8. QED  BY <1>6, <1>7 DEF RemoveExtracted

LEMMA WithFileIsDirectory ==
    ASSUME BundleKept, NEW p \in SitePaths, NEW text \in SiteContents \cup {Torn}
    PROVE  /\ WithFile(p, text) \in Directories
           /\ WithFile(p, text) # Unset
           /\ DOMAIN WithFile(p, text) = OutPaths \cup {p}
           /\ \A q \in OutPaths \cup {p} :
                 WithFile(p, text)[q] = IF q = p THEN text ELSE outdir[q]
  <1>1. DOMAIN WithFile(p, text) = OutPaths \cup {p}
        /\ \A q \in OutPaths \cup {p} :
              WithFile(p, text)[q] = IF q = p THEN text ELSE outdir[q]
    BY DEF WithFile, OutPaths
  <1>2. OutPaths \subseteq SitePaths /\ \A q \in OutPaths : outdir[q] \in SiteContents \cup {Torn}
    <2>1. CASE outdir = Unset  BY <2>1 DEF OutPaths
    <2>2. CASE outdir # Unset
      <3>1. PICK paths \in SUBSET SitePaths : outdir \in [paths -> SiteContents \cup {Torn}]
        BY <2>2 DEF BundleKept, Directories
      <3>2. QED  BY <2>2, <3>1 DEF OutPaths
    <2>3. QED  BY <2>1, <2>2
  <1>3. WithFile(p, text) \in [OutPaths \cup {p} -> SiteContents \cup {Torn}]
    BY <1>2 DEF WithFile, OutPaths
  <1>4. OutPaths \cup {p} \in SUBSET SitePaths  BY <1>2
  <1>5. WithFile(p, text) \in Directories  BY <1>3, <1>4 DEF Directories
  <1>6. QED  BY <1>1, <1>5, UnsetIsNoDirectory DEF Directories

LEMMA ExtractFileKept ==
    ASSUME BundleKept, NEW p \in SitePaths, ExtractFile(p)
    PROVE  BundleKept'
  <1>1. Extracting /\ shell.step = "write" /\ p \in shell.todo
    BY ExtractRuns DEF ExtractFile, BundleKept
  <1> DEFINE bundle == shell.bundle
             text == bundle[p].content
  <1>2. bundle \in Made /\ PackedWell(bundle) /\ shell.todo \subseteq DOMAIN bundle
        /\ OutPaths = DOMAIN bundle \ shell.todo
        /\ \A q \in OutPaths : outdir[q] = bundle[q].content
    BY <1>1 DEF Extracting, BundleKept, FilesSound
  <1>3. text \in SiteContents  BY <1>1, <1>2 DEF PackedWell
  <1>4. UNCHANGED <<site, disk, stored, made>> /\ outdir' = WithFile(p, text)
        /\ extracted' = (shell.todo = {p})
    BY DEF ExtractFile
  <1>5. FilesSound' /\ Made' = Made  BY <1>4, FilesKept, SameMade
  <1>6. /\ outdir' \in Directories /\ outdir' # Unset
        /\ DOMAIN outdir' = OutPaths \cup {p}
        /\ \A q \in OutPaths \cup {p} : outdir'[q] = IF q = p THEN text ELSE outdir[q]
    BY <1>3, <1>4, WithFileIsDirectory
  <1>7. /\ DOMAIN outdir' = DOMAIN bundle \ (shell.todo \ {p})
        /\ \A q \in DOMAIN outdir' : outdir'[q] = bundle[q].content
    BY <1>1, <1>2, <1>6
  <1>8. CASE shell.todo = {p}
    <2>1. ShellSound'  BY <1>8 DEF ExtractFile, ExitWith, ShellSound
    <2>2. PICK m \in made : m.bundle = bundle  BY <1>2 DEF Made
    <2>3. DOMAIN outdir' = DOMAIN bundle  BY <1>7, <1>8
    <2>4. outdir' = [q \in DOMAIN outdir' |-> outdir'[q]]
      BY <1>4 DEF WithFile
    <2>5. outdir' = [q \in DOMAIN bundle |-> bundle[q].content]
      BY <1>7, <2>3, <2>4
    <2>6. ExtractedIsBundle'  BY <1>4, <2>2, <2>5 DEF ExtractedIsBundle
    <2>7. QED  BY <1>5, <1>6, <2>1, <2>6 DEF BundleKept
  <1>9. CASE shell.todo # {p}
    <2>1. ~ extracted'  BY <1>4, <1>9
    <2>2. shell' = [command |-> "extract", bundle |-> bundle, todo |-> shell.todo \ {p}, step |-> "write"]
      <3>1. shell' = [shell EXCEPT !.todo = @ \ {p}]  BY <1>9 DEF ExtractFile
      <3>2. PICK b, todo : shell = [command |-> "extract", bundle |-> b, todo |-> todo, step |-> "write"]
        BY <1>1 DEF Extracting
      <3>3. QED  BY <3>1, <3>2
    <2>3. OutPaths' = DOMAIN outdir'  BY <1>6 DEF OutPaths
    <2> HIDE DEF bundle, text
    <2>4. Extracting'  BY <1>2, <1>5, <1>7, <2>1, <2>2, <2>3 DEF Extracting
    <2>5. ExtractedIsBundle'  BY <2>1 DEF ExtractedIsBundle
    <2>6. QED  BY <1>5, <1>6, <2>4, <2>5 DEF BundleKept, ShellSound
  <1>10. QED  BY <1>8, <1>9

LEMMA StartServeKept ==
    ASSUME BundleKept, NEW option, StartServe(option)
    PROVE  BundleKept'
  <1> DEFINE bundle == IF Refused THEN Unset ELSE FileAt(ReadFile(option, Settings.serveFile))
  <1>1. FilesSound' /\ UNCHANGED <<made, outdir, extracted>>  BY FilesKept DEF StartServe
  <1>2. CASE ExitWith(1)  BY <1>1, <1>2, EndKept
  <1>3. CASE shell' = [command |-> "serve", bundle |-> bundle, answer |-> Unset]
    <2> HIDE DEF bundle
    <2>1. Serving'  BY <1>3 DEF Serving
    <2>2. QED  BY <1>1, <2>1, DirectoryKept DEF ShellSound
  <1>4. QED  BY <1>2, <1>3 DEF StartServe

LEMMA AnswerKept ==
    ASSUME BundleKept, NEW p, AnswerRequest(p)
    PROVE  BundleKept'
  <1>1. FilesSound' /\ UNCHANGED <<made, outdir, extracted>>  BY FilesKept DEF AnswerRequest
  <1>2. Serving  BY ServeRuns DEF AnswerRequest, BundleKept
  <1>3. PICK answer : shell' = [shell EXCEPT !.answer = answer]  BY DEF AnswerRequest
  <1>4. shell' = [command |-> "serve", bundle |-> shell.bundle, answer |-> answer]
    BY <1>2, <1>3 DEF Serving
  <1>5. Serving'  BY <1>4 DEF Serving
  <1>6. QED  BY <1>1, <1>5, DirectoryKept DEF ShellSound

-----------------------------------------------------------------------------
(* The remote, and the end of a process                                    *)

LEMMA UploadKept ==
    ASSUME BundleKept, NEW option, NEW version, NEW force, RemoteUpload(option, version, force)
    PROVE  BundleKept'
  <1> DEFINE bundle == IF NoRemote THEN Unset ELSE FileAt(UploadedFile(option))
  <1>1. ExitWith(1) \/ ExitWith(0)  BY DEF RemoteUpload
  <1>2. UNCHANGED <<site, disk, outdir, made, extracted>>  BY DEF RemoteUpload
  <1>3. bundle \in Made \cup {Torn, Unset}  BY FileIsMade
  <1>4. UNCHANGED stored \/ (bundle # Unset /\ stored' = Overlay(stored, [v \in {version} |-> bundle]))
    BY DEF RemoteUpload
  <1> HIDE DEF bundle
  <1>5. \A v \in DOMAIN stored' : stored'[v] \in Made \cup {Torn}
    <2>1. CASE UNCHANGED stored  BY <2>1 DEF BundleKept, FilesSound
    <2>2. CASE bundle # Unset /\ stored' = Overlay(stored, [v \in {version} |-> bundle])
      <3>1. DOMAIN stored' = DOMAIN stored \cup {version}  BY <2>2 DEF Overlay
      <3>2. \A v \in DOMAIN stored' : stored'[v] = IF v = version THEN bundle ELSE stored[v]
        BY <2>2 DEF Overlay
      <3>3. QED  BY <1>3, <2>2, <3>1, <3>2 DEF BundleKept, FilesSound
    <2>3. QED  BY <1>4, <2>1, <2>2
  <1>6. Made' = Made  BY <1>2, SameMade
  <1>7. \A b : PackedWell(b) => PackedWell(b)'  BY DEF PackedWell
  <1>8. FilesSound'  BY <1>2, <1>5, <1>6, <1>7 DEF BundleKept, FilesSound
  <1>9. QED  BY <1>1, <1>2, <1>8, EndKept

LEMMA DownloadKept ==
    ASSUME BundleKept, NEW version, NEW overwrite, RemoteDownload(version, overwrite)
    PROVE  BundleKept'
  <1>1. ExitWith(1) \/ ExitWith(0)  BY DEF RemoteDownload
  <1>2. UNCHANGED <<site, stored, outdir, made, extracted>>  BY DEF RemoteDownload
  <1>3. \/ UNCHANGED disk
        \/ disk' = [disk EXCEPT ![DownloadedFile] = Torn]
        \/ version \in DOMAIN stored /\ disk' = [disk EXCEPT ![DownloadedFile] = stored[version]]
    BY DEF RemoteDownload
  <1>4. disk \in [BundleFiles -> Made \cup {Torn, Unset}]
        /\ \A v \in DOMAIN stored : stored[v] \in Made \cup {Torn}
    BY DEF BundleKept, FilesSound
  <1>5. disk' \in [BundleFiles -> Made \cup {Torn, Unset}]
    <2>1. PICK f : f = DownloadedFile  OBVIOUS
    <2>2. QED  BY <1>3, <1>4, <2>1
  <1>6. Made' = Made  BY <1>2, SameMade
  <1>7. \A b : PackedWell(b) => PackedWell(b)'  BY DEF PackedWell
  <1>8. FilesSound'  BY <1>2, <1>5, <1>6, <1>7 DEF BundleKept, FilesSound
  <1>9. QED  BY <1>1, <1>2, <1>8, EndKept

LEMMA KillKept ==
    ASSUME BundleKept, Kill
    PROVE  BundleKept'
  <1>1. UNCHANGED <<site, disk, stored, made, extracted>> /\ ExitWith(1)  BY DEF Kill
  <1>2. FilesSound'  BY <1>1, FilesKept
  <1>3. CASE UNCHANGED outdir  BY <1>1, <1>2, <1>3, EndKept
  <1>4. ASSUME shell.command = "extract", shell.step = "write",
               NEW p \in shell.todo, outdir' = WithFile(p, Torn)
        PROVE  BundleKept'
    <2>1. Extracting  BY <1>4, ExtractRuns DEF BundleKept
    <2>2. ~ extracted /\ p \in SitePaths
      <3>1. PackedWell(shell.bundle)  BY <2>1 DEF Extracting, BundleKept, FilesSound
      <3>2. QED  BY <1>4, <2>1, <3>1 DEF Extracting, PackedWell
    <2>3. outdir' \in Directories  BY <1>4, <2>2, WithFileIsDirectory
    <2>4. ExtractedIsBundle'  BY <1>1, <2>2 DEF ExtractedIsBundle
    <2>5. ShellSound'  BY <1>1 DEF ExitWith, ShellSound
    <2>6. QED  BY <1>2, <2>3, <2>4, <2>5 DEF BundleKept
  <1>5. QED  BY <1>3, <1>4 DEF Kill

LEMMA NextKept == BundleKept /\ [BundlesNext]_bundlesVars => BundleKept'
  <1> SUFFICES ASSUME BundleKept, [BundlesNext]_bundlesVars PROVE BundleKept'  OBVIOUS
  <1>1. CASE StopServe  
    <2>1. FilesSound'  BY <1>1, FilesKept DEF StopServe
    <2>2. QED  BY <1>1, <2>1, EndKept DEF StopServe
  <1>2. CASE RemoteCurrent
    <2>1. FilesSound'  BY <1>2, FilesKept DEF RemoteCurrent
    <2>2. QED  BY <1>2, <2>1, EndKept DEF RemoteCurrent
  <1>3. CASE RemoteList
    <2>1. FilesSound'  BY <1>3, FilesKept DEF RemoteList
    <2>2. QED  BY <1>3, <2>1, EndKept DEF RemoteList
  <1>4. ASSUME NEW v \in BundleVersions, RemoteDeployCommand(v) PROVE BundleKept'
    <2>1. FilesSound'  BY <1>4, FilesKept DEF RemoteDeployCommand
    <2>2. ExitWith(1) \/ ExitWith(0)  BY <1>4 DEF RemoteDeployCommand
    <2>3. QED  BY <1>4, <2>1, <2>2, EndKept DEF RemoteDeployCommand
  <1>5. CASE UNCHANGED bundlesVars
    <2>1. FilesSound'  BY <1>5, FilesKept DEF bundlesVars
    <2>2. ShellSound'  BY <1>5, ShellKept DEF bundlesVars
    <2>3. QED  BY <1>5, <2>1, <2>2, DirectoryKept DEF bundlesVars
  <1>6. QED
    BY <1>1, <1>2, <1>3, <1>4, <1>5, EditKept, StartCreateKept, PackFileKept, OpenOutFileKept,
       WriteOutFileKept, StartExtractKept, RemoveExtractedKept, ExtractFileKept, StartServeKept,
       AnswerKept, UploadKept, DownloadKept, KillKept
    DEF BundlesNext

(* extract: when it says it is done, the directory holds the files of one  *)
(* bundle that create has made, whatever was killed before and whatever    *)
(* way the file has taken.                                                 *)
THEOREM ExtractedIsAlwaysBundle == BundlesSpec => []ExtractedIsBundle
  <1>1. BundleKept => ExtractedIsBundle  BY DEF BundleKept
  <1>2. QED  BY <1>1, InitKept, NextKept, PTL DEF BundlesSpec

-----------------------------------------------------------------------------
(***************************************************************************)
(* CommandLineDecides: the config does not change while a command runs, so *)
(* create packs what it listed and nothing that is ignored, each file with *)
(* the headers its options and the config give it.                         *)
(***************************************************************************)
IsIgnored(p, options) == IsFileIgnored(p, IgnoreInputs(options.ignore))

PackedAsTold(options, bundle) ==
    \A p \in DOMAIN bundle :
        ~ IsIgnored(p, options) /\ bundle[p].headers = GetHeaders(p, HeaderInputs(options.headers))

ListedAsTold(options, todo) == \A p \in todo : ~ IsIgnored(p, options)

AsTold ==
    /\ shell.command = "create" =>
          /\ shell.options \in CreateOptions
          /\ ListedAsTold(shell.options, shell.todo)
          /\ PackedAsTold(shell.options, shell.packed)
    /\ \A m \in made : m.options \in CreateOptions /\ PackedAsTold(m.options, m.bundle)

(* A set of places in a list has a last one. *)
LEMMA LastPlace ==
    ASSUME NEW n \in Nat, NEW places \in SUBSET (1..n), places # {}
    PROVE  Max(places) \in places /\ \A i \in places : i <= Max(places)
  <1> DEFINE left == {n - i : i \in places}
  <1>1. left \subseteq Nat /\ left # {}
    <2>1. \A i \in places : n - i \in Nat  OBVIOUS
    <2>2. QED  BY <2>1
  <1>2. PICK l \in left : \A k \in left : ~ (<<k, l>> \in OpToRel(<, Nat))
    BY <1>1, WFMin, NatLessThanWellFounded
  <1>3. PICK i \in places : l = n - i  OBVIOUS
  <1>4. \A j \in places : i >= j
    <2>1. \A j \in places : ~ (n - j < n - i)  BY <1>1, <1>2, <1>3 DEF OpToRel
    <2>2. \A j \in places : i \in Int /\ j \in Int  OBVIOUS
    <2>3. QED  BY <2>1, <2>2
  <1>5. Max(places) \in places /\ \A j \in places : Max(places) >= j  BY <1>3, <1>4 DEF Max
  <1>6. QED  BY <1>5

(* A file that the option of the command line matches is ignored. *)
LEMMA ToldIgnored ==
    ASSUME NEW options, options.ignore # Unset, NEW p \in options.ignore.paths
    PROVE  IsIgnored(p, options)
  <1> DEFINE inputs == IgnoreInputs(options.ignore)
  <1>1. 1 \in DOMAIN inputs /\ inputs[1] = options.ignore /\ DOMAIN inputs \subseteq Nat \ {0}
    BY DEF IgnoreInputs, Given
  <1> HIDE DEF inputs
  <1>2. IsFileIgnored(p, inputs)  BY <1>1 DEF IsFileIgnored
  <1>3. QED  BY <1>2 DEF inputs, IsIgnored

(* The headers of the last input go before those of every other. *)
LEMMA LastInputDecides ==
    ASSUME NEW T, NEW inputs \in Seq(T), NEW p, inputs # << >>,
           inputs[Len(inputs)].kind = "patterns"
    PROVE  LET told == HeadersOfRules(p, inputs[Len(inputs)].rules)
           IN  \A k \in DOMAIN told :
                  k \in DOMAIN GetHeaders(p, inputs) /\ GetHeaders(p, inputs)[k] = told[k]
  <1> DEFINE n == Len(inputs)
             anew == {i \in DOMAIN inputs : inputs[i].kind = "function" /\ p \in DOMAIN inputs[i].gives}
             counting == {i \in DOMAIN inputs :
                            (inputs[i].kind = "patterns" \/ i \in anew) /\ \A j \in anew : j <= i}
             told == HeadersOfRules(p, inputs[n].rules)
             layers == [i \in counting |-> IF i \in anew THEN inputs[i].gives[p]
                                             ELSE HeadersOfRules(p, inputs[i].rules)]
  <1>1. GetHeaders(p, inputs) = LastOfEach(layers)  BY DEF GetHeaders
  <1>2. n \in counting /\ n \notin anew /\ counting \subseteq 1..n /\ n \in Nat
    <2>1. n \in Nat /\ DOMAIN inputs = 1..n /\ n # 0  OBVIOUS
    <2>2. n \in DOMAIN inputs /\ \A j \in DOMAIN inputs : j <= n  BY <2>1
    <2>3. QED  BY <2>1, <2>2
  <1> HIDE DEF n, anew, counting
  <1>3. layers[n] = told /\ DOMAIN layers = counting  BY <1>2
  <1> HIDE DEF told, layers
  <1>4. ASSUME NEW k \in DOMAIN told
        PROVE  k \in DOMAIN LastOfEach(layers) /\ LastOfEach(layers)[k] = told[k]
    <2> DEFINE having == {i \in DOMAIN layers : k \in DOMAIN layers[i]}
    <2>1. n \in having /\ having \subseteq 1..n  BY <1>2, <1>3, <1>4
    <2> HIDE DEF having
    <2>2. Max(having) \in having /\ \A i \in having : i <= Max(having)
      BY <1>2, <2>1, LastPlace
    <2>3. Max(having) = n
      <3>1. n <= Max(having) /\ Max(having) \in 1..n  BY <2>1, <2>2
      <3>2. QED  BY <1>2, <3>1
    <2>4. LastOfEach(layers)[k] = layers[Max(having)][k] /\ k \in DOMAIN LastOfEach(layers)
      BY <2>1 DEF LastOfEach, having
    <2>5. QED  BY <1>3, <2>3, <2>4
  <1>5. QED  BY <1>1, <1>4 DEF told, n

(* The entry of a pattern has the values that were given with it, and only *)
(* those.                                                                  *)
LEMMA RulesAsTold ==
    ASSUME NEW o \in CreateOptions, NEW p, NEW h \in ToSet(o.headers), p \in h.paths
    PROVE  LET told == HeadersOfRules(p, IntoHeaderConfig(o.headers).rules)
           IN  /\ h.key \in DOMAIN told
               /\ told[h.key] \subseteq
                    {g.value : g \in {g \in ToSet(o.headers) : p \in g.paths /\ g.key = h.key}}
  <1> DEFINE options == o.headers
             same(i) == {j \in DOMAIN options : options[j].paths = options[i].paths}
             joined(i) == [k \in {options[j].key : j \in same(i)} |->
                             {options[j].value : j \in {l \in same(i) : options[l].key = k}}]
             rule(i) == IF \E j \in same(i) : j < i THEN [paths |-> {}, headers |-> << >>]
                        ELSE [paths |-> options[i].paths, headers |-> joined(i)]
             rules == [i \in DOMAIN options |-> rule(i)]
             layers == [r \in {r \in DOMAIN rules : p \in rules[r].paths} |-> rules[r].headers]
             having == {i \in DOMAIN layers : h.key \in DOMAIN layers[i]}
             values == {g.value : g \in {g \in ToSet(o.headers) : p \in g.paths /\ g.key = h.key}}
  <1>1. IntoHeaderConfig(o.headers).rules = rules  BY DEF IntoHeaderConfig
  <1>2. PICK n \in Nat : DOMAIN options = 1..n
    <2>1. options \in Seq(ToSet(options))  BY CreateOptionsAssumption
    <2>2. QED  BY <2>1
  <1>3. PICK i \in DOMAIN options : options[i] = h  BY DEF ToSet
  <1>4. \A j \in DOMAIN options : same(j) \subseteq DOMAIN options  OBVIOUS
  <1>5. PICK first \in same(i) : \A j \in same(i) : ~ (j < first)
    <2>1. same(i) \subseteq Nat /\ same(i) # {}  BY <1>2, <1>3
    <2>2. PICK first \in same(i) : \A j \in same(i) : ~ (<<j, first>> \in OpToRel(<, Nat))
      BY <2>1, WFMin, NatLessThanWellFounded
    <2>3. QED  BY <2>1, <2>2 DEF OpToRel
  <1>6. same(first) = same(i) /\ options[first].paths = h.paths  BY <1>3, <1>5
  <1>7. rules[first] = [paths |-> options[first].paths, headers |-> joined(first)]
    BY <1>5, <1>6
  <1>8. h.key \in DOMAIN joined(first)
    <2>1. i \in same(first)  BY <1>6, <1>3
    <2>2. QED  BY <2>1, <1>3
  <1>9. \A r \in having : layers[r][h.key] \subseteq values
    <2> SUFFICES ASSUME NEW r \in having PROVE layers[r][h.key] \subseteq values  OBVIOUS
    <2>1. r \in DOMAIN options /\ layers[r] = rules[r].headers /\ rules[r] = rule(r) /\ p \in rules[r].paths
      OBVIOUS
    <2>2. rule(r) = [paths |-> options[r].paths, headers |-> joined(r)]  BY <2>1
    <2>3. p \in options[r].paths /\ layers[r] = joined(r) /\ h.key \in DOMAIN joined(r)  BY <2>1, <2>2
    <2>4. joined(r)[h.key] = {options[j].value : j \in {l \in same(r) : options[l].key = h.key}}
      BY <2>3
    <2>5. \A j \in same(r) : options[j] \in ToSet(o.headers) /\ p \in options[j].paths
      BY <2>3 DEF ToSet
    <2>6. QED  BY <2>3, <2>4, <2>5
  <1>10. first \in having
    <2>1. first \in DOMAIN rules /\ p \in rules[first].paths  BY <1>5, <1>6, <1>7
    <2>2. layers[first] = joined(first)  BY <1>7, <2>1
    <2>3. QED  BY <1>8, <2>1, <2>2
  <1>11. having \subseteq 1..n  BY <1>2
  <1> HIDE DEF having, layers, values
  <1>12. Max(having) \in having  BY <1>10, <1>11, LastPlace
  <1>13. h.key \in DOMAIN LastOfEach(layers) /\ LastOfEach(layers)[h.key] = layers[Max(having)][h.key]
    BY <1>10 DEF LastOfEach, having
  <1>14. h.key \in DOMAIN LastOfEach(layers) /\ LastOfEach(layers)[h.key] \subseteq values
    BY <1>9, <1>12, <1>13
  <1>15. HeadersOfRules(p, rules) = LastOfEach(layers)  BY DEF HeadersOfRules, layers
  <1> HIDE DEF rules
  <1>16. QED  BY <1>1, <1>14, <1>15 DEF values

LEMMA ToldHeadersAreLast ==
    ASSUME NEW options, options # << >>
    PROVE  LET inputs == HeaderInputs(options)
           IN  /\ inputs \in Seq({Settings.headers, IntoHeaderConfig(options)}) /\ inputs # << >>
               /\ inputs[Len(inputs)] = IntoHeaderConfig(options)
  <1> DEFINE told == IntoHeaderConfig(options)
             config == Settings.headers
  <1>1. HeaderInputs(options) = (IF config = Unset THEN << >> ELSE <<config>>) \o <<told>>
    BY DEF HeaderInputs, Given, ToldHeaders
  <1> HIDE DEF told, config
  <1>2. HeaderInputs(options) = IF config = Unset THEN <<told>> ELSE <<config, told>>
    BY <1>1
  <1>3. QED  BY <1>2 DEF told, config

(* While the config stays, so does what it says of every file. *)
LEMMA ConfigKept ==
    ASSUME UNCHANGED project
    PROVE  /\ \A p, options : IsIgnored(p, options)' = IsIgnored(p, options)
           /\ \A options, todo : ListedAsTold(options, todo)' = ListedAsTold(options, todo)
           /\ \A options, bundle : PackedAsTold(options, bundle)' = PackedAsTold(options, bundle)
  <1>1. Settings' = Settings  BY DEF Settings
  <1>2. QED
    BY <1>1 DEF IsIgnored, IgnoreInputs, ListedAsTold, PackedAsTold, HeaderInputs

LEMMA InitAsTold == BundlesInit => AsTold
  BY DEF BundlesInit, AsTold, Idling

LEMMA MadeAsTold ==
    ASSUME AsTold, UNCHANGED <<project, made>>
    PROVE  \A m \in made' : m.options \in CreateOptions /\ PackedAsTold(m.options, m.bundle)'
  BY ConfigKept DEF AsTold

(* A step of another command, and one that creates and keeps at it. *)
LEMMA QuietAsTold ==
    ASSUME AsTold, UNCHANGED <<project, made>>, shell'.command # "create"
    PROVE  AsTold'
  BY MadeAsTold DEF AsTold

LEMMA SameShellAsTold ==
    ASSUME AsTold, UNCHANGED <<project, made, shell>>
    PROVE  AsTold'
  <1>1. shell'.command = "create" =>
            /\ shell'.options \in CreateOptions
            /\ ListedAsTold(shell.options, shell.todo)' /\ PackedAsTold(shell.options, shell.packed)'
    BY DEF AsTold, ListedAsTold, PackedAsTold, IsIgnored, IgnoreInputs, HeaderInputs, Settings
  <1>2. QED  BY <1>1, MadeAsTold DEF AsTold

LEMMA ExitAsTold ==
    ASSUME AsTold, UNCHANGED <<project, made>>, NEW code, ExitWith(code)
    PROVE  AsTold'
  BY QuietAsTold DEF ExitWith, Idling

LEMMA StartCreateAsTold ==
    ASSUME AsTold, NEW o \in CreateOptions, StartCreate(o)
    PROVE  AsTold'
  <1> DEFINE files == {p \in Present : ~ IsFileIgnored(p, IgnoreInputs(o.ignore))}
  <1>1. UNCHANGED <<project, made>>  BY DEF StartCreate
  <1>2. CASE ExitWith(1)  BY <1>1, <1>2, ExitAsTold
  <1>3. CASE shell' = [command |-> "create", step |-> "read", options |-> o,
                       todo |-> files, packed |-> << >>]
    <2>1. ListedAsTold(o, files)  BY DEF ListedAsTold, IsIgnored
    <2> HIDE DEF files
    <2>2. shell'.options = o /\ shell'.todo = files /\ shell'.packed = << >>  BY <1>3
    <2>3. ListedAsTold(shell.options, shell.todo)' /\ PackedAsTold(shell.options, shell.packed)'
      BY <1>1, <2>1, <2>2
      DEF ListedAsTold, PackedAsTold, IsIgnored, IgnoreInputs, HeaderInputs, Settings
    <2>4. QED  BY <1>1, <2>2, <2>3, MadeAsTold DEF AsTold
  <1>4. QED  BY <1>2, <1>3 DEF StartCreate

LEMMA PackFileAsTold ==
    ASSUME BundleKept, AsTold, NEW p \in SitePaths, PackFile(p)
    PROVE  AsTold'
  <1>1. UNCHANGED <<project, made>>  BY DEF PackFile
  <1>2. CASE site[p] = Unset  BY <1>1, <1>2, ExitAsTold DEF PackFile
  <1>3. CASE site[p] # Unset
    <2> DEFINE options == shell.options
               entry == [content |-> site[p], headers |-> GetHeaders(p, HeaderInputs(options.headers))]
               packed == Overlay(shell.packed, [q \in {p} |-> entry])
    <2>1. /\ shell = [command |-> "create", step |-> shell.step, options |-> options,
                      todo |-> shell.todo, packed |-> shell.packed]
          /\ p \in shell.todo
      BY CreateRuns DEF PackFile, BundleKept, Creating
    <2>2. options \in CreateOptions /\ ListedAsTold(options, shell.todo) /\ PackedAsTold(options, shell.packed)
      BY <2>1 DEF AsTold
    <2>3. PackedAsTold(options, packed)
      <3>1. entry.headers = GetHeaders(p, HeaderInputs(options.headers))  OBVIOUS
      <3> HIDE DEF entry
      <3>2. \A q \in DOMAIN packed : packed[q] = IF q = p THEN entry ELSE shell.packed[q]
        BY DEF Overlay
      <3>3. DOMAIN packed = DOMAIN shell.packed \cup {p}  BY DEF Overlay
      <3> HIDE DEF packed, options
      <3>4. QED  BY <2>1, <2>2, <3>1, <3>2, <3>3 DEF PackedAsTold, ListedAsTold
    <2>4. shell' = [shell EXCEPT !.todo = @ \ {p}, !.packed = packed]  BY <1>3 DEF PackFile
    <2> HIDE DEF packed
    <2>5. shell'.options = options /\ shell'.todo \subseteq shell.todo /\ shell'.packed = packed
      BY <2>1, <2>4
    <2> HIDE DEF options
    <2>6. ListedAsTold(shell.options, shell.todo)' /\ PackedAsTold(shell.options, shell.packed)'
      BY <1>1, <2>2, <2>3, <2>5
      DEF ListedAsTold, PackedAsTold, IsIgnored, IgnoreInputs, HeaderInputs, Settings
    <2>7. QED  BY <1>1, <2>2, <2>5, <2>6, MadeAsTold DEF AsTold
  <1>4. QED  BY <1>2, <1>3

LEMMA OpenOutFileAsTold ==
    ASSUME BundleKept, AsTold, OpenOutFile
    PROVE  AsTold'
  <1>1. UNCHANGED project  BY DEF OpenOutFile
  <1>2. CASE ExitWith(1) /\ UNCHANGED <<disk, made>>  BY <1>1, <1>2, ExitAsTold
  <1>3. CASE /\ shell' = [shell EXCEPT !.step = "write"]
             /\ made' = made \cup {[bundle |-> shell.packed, options |-> shell.options]}
    <2>1. shell = [command |-> "create", step |-> shell.step, options |-> shell.options,
                   todo |-> shell.todo, packed |-> shell.packed]
      BY CreateRuns DEF OpenOutFile, BundleKept, Creating
    <2>2. /\ shell.options \in CreateOptions
          /\ ListedAsTold(shell.options, shell.todo) /\ PackedAsTold(shell.options, shell.packed)
      BY <2>1 DEF AsTold
    <2>3. shell'.options = shell.options /\ shell'.todo = shell.todo /\ shell'.packed = shell.packed
      BY <1>3, <2>1
    <2>4. ListedAsTold(shell.options, shell.todo)' /\ PackedAsTold(shell.options, shell.packed)'
      BY <1>1, <2>2, <2>3
      DEF ListedAsTold, PackedAsTold, IsIgnored, IgnoreInputs, HeaderInputs, Settings
    <2>5. ASSUME NEW m \in made' PROVE m.options \in CreateOptions /\ PackedAsTold(m.options, m.bundle)'
      <3>1. m.options \in CreateOptions /\ PackedAsTold(m.options, m.bundle)
        BY <1>3, <2>2, <2>5 DEF AsTold
      <3>2. QED  BY <1>1, <3>1, ConfigKept
    <2>6. QED  BY <2>2, <2>3, <2>4, <2>5 DEF AsTold
  <1>4. QED  BY <1>2, <1>3 DEF OpenOutFile

LEMMA NextAsTold == BundleKept /\ AsTold /\ [BundlesNext]_bundlesVars => AsTold'
  <1> SUFFICES ASSUME BundleKept, AsTold, [BundlesNext]_bundlesVars PROVE AsTold'  OBVIOUS
  <1>1. ASSUME NEW e \in Edits, EditSite(e[1], e[2]) PROVE AsTold'
    BY <1>1, SameShellAsTold DEF EditSite
  <1>2. CASE \/ WriteOutFile \/ StopServe \/ RemoteCurrent \/ RemoteList \/ Kill
             \/ \E v \in BundleVersions : RemoteDeployCommand(v)
    <2>1. UNCHANGED <<project, made>> /\ (ExitWith(0) \/ ExitWith(1))
      BY <1>2 DEF WriteOutFile, StopServe, RemoteCurrent, RemoteList, Kill, RemoteDeployCommand
    <2>2. QED  BY <2>1, ExitAsTold
  <1>3. ASSUME NEW v \in BundleVersions, NEW option, NEW b \in BOOLEAN,
               RemoteUpload(option, v, b) \/ RemoteDownload(v, b)
        PROVE  AsTold'
    <2>1. UNCHANGED <<project, made>> /\ (ExitWith(0) \/ ExitWith(1))
      BY <1>3 DEF RemoteUpload, RemoteDownload
    <2>2. QED  BY <2>1, ExitAsTold
  <1>4. ASSUME NEW option, NEW clean, StartExtract(option, clean) \/ StartServe(option) PROVE AsTold'
    <2>1. UNCHANGED <<project, made>>  BY <1>4 DEF StartExtract, StartServe
    <2>2. ExitWith(1) \/ shell'.command # "create"  BY <1>4 DEF StartExtract, StartServe
    <2>3. QED  BY <2>1, <2>2, ExitAsTold, QuietAsTold
  <1>5. ASSUME NEW p, RemoveExtracted \/ ExtractFile(p) PROVE AsTold'
    <2>1. UNCHANGED <<project, made>> /\ Extracting
      BY <1>5, ExtractRuns DEF RemoveExtracted, ExtractFile, BundleKept
    <2>2. PICK bundle, todo, step :
              shell = [command |-> "extract", bundle |-> bundle, todo |-> todo, step |-> step]
      BY <2>1 DEF Extracting
    <2>3. ExitWith(0) \/ shell'.command # "create"
      BY <1>5, <2>2 DEF RemoveExtracted, ExtractFile
    <2>4. QED  BY <2>1, <2>3, ExitAsTold, QuietAsTold
  <1>6. ASSUME NEW p, AnswerRequest(p) PROVE AsTold'
    <2>1. UNCHANGED <<project, made>> /\ Serving
      BY <1>6, ServeRuns DEF AnswerRequest, BundleKept
    <2>2. PICK bundle, answer : shell = [command |-> "serve", bundle |-> bundle, answer |-> answer]
      BY <2>1 DEF Serving
    <2>3. shell'.command # "create"  BY <1>6, <2>2 DEF AnswerRequest
    <2>4. QED  BY <2>1, <2>3, QuietAsTold
  <1>7. CASE UNCHANGED bundlesVars  BY <1>7, SameShellAsTold DEF bundlesVars
  <1>8. QED
    BY <1>1, <1>2, <1>3, <1>4, <1>5, <1>6, <1>7, StartCreateAsTold, PackFileAsTold, OpenOutFileAsTold
    DEF BundlesNext

(* What was packed as its options say has no file they ignore, and of each *)
(* header they give the values they give.                                  *)
LEMMA ToldDecides ==
    ASSUME NEW options \in CreateOptions, NEW bundle, PackedAsTold(options, bundle),
           NEW p \in DOMAIN bundle
    PROVE  /\ options.ignore # Unset => p \notin options.ignore.paths
           /\ LET told == {h \in ToSet(options.headers) : p \in h.paths}
                  values(k) == {h.value : h \in {g \in told : g.key = k}}
              IN  \A h \in told :
                     /\ h.key \in DOMAIN bundle[p].headers
                     /\ bundle[p].headers[h.key] \subseteq values(h.key)
  <1>1. options.ignore # Unset => p \notin options.ignore.paths
    BY ToldIgnored DEF PackedAsTold
  <1>2. ASSUME NEW h \in ToSet(options.headers), p \in h.paths
        PROVE  /\ h.key \in DOMAIN bundle[p].headers
               /\ bundle[p].headers[h.key] \subseteq
                    {g.value : g \in {g \in ToSet(options.headers) : p \in g.paths /\ g.key = h.key}}
    <2> DEFINE inputs == HeaderInputs(options.headers)
               rules == IntoHeaderConfig(options.headers).rules
    <2>1. options.headers # << >>  BY <1>2 DEF ToSet
    <2>2. /\ inputs \in Seq({Settings.headers, IntoHeaderConfig(options.headers)}) /\ inputs # << >>
          /\ inputs[Len(inputs)] = IntoHeaderConfig(options.headers)
      BY <2>1, ToldHeadersAreLast
    <2>3. IntoHeaderConfig(options.headers).kind = "patterns"  BY DEF IntoHeaderConfig
    <2> HIDE DEF inputs
    <2>4. \A k \in DOMAIN HeadersOfRules(p, rules) :
             k \in DOMAIN GetHeaders(p, inputs) /\ GetHeaders(p, inputs)[k] = HeadersOfRules(p, rules)[k]
      BY <2>2, <2>3, LastInputDecides
    <2>5. bundle[p].headers = GetHeaders(p, inputs)  BY DEF PackedAsTold, inputs
    <2>6. /\ h.key \in DOMAIN HeadersOfRules(p, rules)
          /\ HeadersOfRules(p, rules)[h.key] \subseteq
                {g.value : g \in {g \in ToSet(options.headers) : p \in g.paths /\ g.key = h.key}}
      BY <1>2, RulesAsTold
    <2> HIDE DEF rules
    <2>7. QED  BY <2>4, <2>5, <2>6
  <1>3. QED  BY <1>1, <1>2

(* create: what the command line says goes before the config file, for any *)
(* options, patterns and settings; a file that --ignore matches is never   *)
(* packed, and a header given with -H has the values given.                *)
THEOREM CommandLineAlwaysDecides == BundlesSpec => []CommandLineDecides
  <1>1. AsTold => CommandLineDecides
    <2> SUFFICES ASSUME AsTold, NEW m \in made, NEW p \in DOMAIN m.bundle
                 PROVE  /\ m.options.ignore # Unset => p \notin m.options.ignore.paths
                        /\ LET told == {h \in ToSet(m.options.headers) : p \in h.paths}
                               values(k) == {h.value : h \in {g \in told : g.key = k}}
                           IN  \A h \in told :
                                  /\ h.key \in DOMAIN m.bundle[p].headers
                                  /\ m.bundle[p].headers[h.key] \subseteq values(h.key)
      BY DEF CommandLineDecides
    <2>1. m.options \in CreateOptions /\ PackedAsTold(m.options, m.bundle)  BY DEF AsTold
    <2>2. QED  BY <2>1, ToldDecides
  <1>2. QED  BY <1>1, InitKept, NextKept, InitAsTold, NextAsTold, PTL DEF BundlesSpec

-----------------------------------------------------------------------------
(***************************************************************************)
(* The release.  Main and its tags are related all the time: the commits   *)
(* of a changelog are on the tag of the version the package has, so what   *)
(* prepare-release offers and what is staged is never in it already.  A    *)
(* job knows of each target what it has published, and with no failure so  *)
(* far also that it published all of the targets it is through with.       *)
(***************************************************************************)
Rules == {"major", "minor", "patch"}

Section == [package : AllPackages, version : Version, commits : SUBSET Commits]

Branch ==
    [commits : SUBSET Commits, versions : [Files -> Version], root : [Crates -> Version],
     staged : [AllPackages -> [commits : SUBSET Commits, rule : Rules \cup {"none"}]],
     log : SUBSET Section, rootLog : SUBSET Section]

ReleaseJob ==
    [step : {"publish", "announce"}, base : Branch, prerelease : BOOLEAN, next : [Files -> Version],
     targets : SUBSET AllPackages, queue : SUBSET AllPackages, files : SUBSET Files,
     ok : BOOLEAN, done : SUBSET AllPackages, sections : SUBSET Section]

ReleaseTyped ==
    /\ main \in Branch
    /\ job = NoJob \/ job \in ReleaseJob
    /\ prereleases \in Nat /\ faults \in Nat

TaggedCommits(p) == UNION {t.commits : t \in FindTag(p)}

BranchInOrder ==
    /\ \A p \in AllPackages :
          /\ main.staged[p].commits # {} => main.staged[p].rule \in Rules
          /\ main.staged[p].commits \subseteq main.commits
    /\ \A t \in tags : t.commits \subseteq main.commits
    /\ \A s \in main.log :
          /\ s.commits \subseteq TaggedCommits(s.package)
          /\ s.commits \cap main.staged[s.package].commits = {}
    /\ main.log \subseteq main.rootLog
    /\ \A s1, s2 \in main.log :
          s1.package = s2.package /\ s1 # s2 => s1.commits \cap s2.commits = {}

(* The file of the item is in its registry. *)
IsPublished(f) == <<f, job.next[f]>> \in published

TargetPublished(p) == \A f \in FilesToPublish(p) : IsPublished(f)

JobInOrder ==
    job # NoJob =>
        /\ job.queue \subseteq job.targets /\ job.done \subseteq job.targets \ job.queue
        /\ job.sections = {[package |-> p, version |-> VersionOf(job.next, p),
                            commits |-> Conventional(job.base.staged[p].commits)] : p \in job.targets}
        /\ ~ job.prerelease => \A p \in job.targets : \A f \in ToSet(FilesOf[p]) : job.next[f][4] = 0
        /\ \A p \in job.done : TargetPublished(p)
        /\ job.queue # {} =>
              /\ job.files \subseteq FilesToPublish(Package) /\ job.files # {}
              /\ job.ok \/ faults = 0 => \A f \in FilesToPublish(Package) \ job.files : IsPublished(f)
        /\ faults = 0 =>
              \A p \in job.targets \ job.queue : TargetPublished(p) \/ NapiArtifactsFails(p)

Releasing == ReleaseTyped /\ BranchInOrder /\ JobInOrder /\ MainNamesPublished
-----------------------------------------------------------------------------
(* Orders and versions                                                     *)

(* The first of the items of an order is one of them. *)
LEMMA FirstIsItem ==
    ASSUME NEW T, NEW order \in Seq(T), NEW items, items \cap ToSet(order) # {}
    PROVE  FirstOf(items, order) \in items \cap ToSet(order)
  <1> DEFINE places == {i \in DOMAIN order : order[i] \in items}
  <1>1. places \subseteq Nat /\ places # {}  BY DEF ToSet
  <1>2. PICK i \in places : \A j \in places : ~ (<<j, i>> \in OpToRel(<, Nat))
    BY <1>1, WFMin, NatLessThanWellFounded
  <1>3. \A j \in places : ~ (j < i)  BY <1>1, <1>2 DEF OpToRel
  <1>4. \A j \in 1..(i - 1) : order[j] \notin items
    <2>1. ASSUME NEW j \in 1..(i - 1) PROVE order[j] \notin items
      <3>1. i \in 1..Len(order)  OBVIOUS
      <3>2. j \in DOMAIN order /\ j < i  BY <3>1
      <3>3. QED  BY <1>3, <3>2
    <2>2. QED  BY <2>1
  <1>5. i \in DOMAIN order /\ order[i] \in items  OBVIOUS
  <1> DEFINE first == CHOOSE k \in DOMAIN order :
                          order[k] \in items /\ \A j \in 1..(k - 1) : order[j] \notin items
  <1>6. first \in DOMAIN order /\ order[first] \in items  BY <1>4, <1>5
  <1> HIDE DEF first
  <1>7. order[first] \in ToSet(order)  BY <1>6 DEF ToSet
  <1>8. FirstOf(items, order) = order[first]  BY DEF FirstOf, first
  <1>9. QED  BY <1>6, <1>7, <1>8

LEMMA FilesOfPackage ==
    ASSUME NEW p \in AllPackages
    PROVE  /\ ToSet(FilesOf[p]) \subseteq Files
           /\ Head(FilesOf[p]) \in ToSet(FilesOf[p])
           /\ FilesToPublish(p) # {} /\ FilesToPublish(p) \subseteq ToSet(FilesOf[p])
  <1>1. ToSet(FilesOf[p]) \subseteq Files  BY DEF Files
  <1>2. FilesToPublish(p) # {} /\ FilesToPublish(p) \subseteq ToSet(FilesOf[p])
    BY ReleaseAssumption DEF FilesToPublish
  <1>3. FilesOf[p] \in Seq(Files) /\ FilesOf[p] # << >>
    BY <1>2, ReleaseAssumption DEF ToSet
  <1>4. Head(FilesOf[p]) = FilesOf[p][1] /\ 1 \in DOMAIN FilesOf[p]  BY <1>3
  <1>5. QED  BY <1>1, <1>2, <1>4 DEF ToSet

(* Packages share no file. *)
LEMMA OwnFiles ==
    ASSUME NEW p \in AllPackages, NEW q \in AllPackages, NEW f \in ToSet(FilesOf[p]), f \in ToSet(FilesOf[q])
    PROVE  p = q
  BY ReleaseAssumption

LEMMA BumpIsRelease ==
    ASSUME NEW v \in Version, NEW rule \in Rules
    PROVE  Bump(v, rule) \in Version /\ Bump(v, rule)[4] = 0
  <1>1. v[1] \in Nat /\ v[2] \in Nat /\ v[3] \in Nat  BY DEF Version
  <1>2. CASE rule = "major"  BY <1>1, <1>2 DEF Bump, Version
  <1>3. CASE rule = "minor"  BY <1>1, <1>3 DEF Bump, Version
  <1>4. CASE rule = "patch"  BY <1>1, <1>4 DEF Bump, Version
  <1>5. QED  BY <1>2, <1>3, <1>4 DEF Rules

-----------------------------------------------------------------------------
(* What a step leaves alone                                                *)

LEMMA BranchKept ==
    ASSUME BranchInOrder, UNCHANGED <<main, tags>>
    PROVE  BranchInOrder'
  BY DEF BranchInOrder, TaggedCommits, FindTag

LEMMA NamesKept ==
    ASSUME MainNamesPublished, UNCHANGED <<main, tags>>, published \subseteq published',
           faults' = 0 => faults = 0
    PROVE  MainNamesPublished'
  BY DEF MainNamesPublished, PublishedAt

LEMMA NoJobInOrder == job' = NoJob => JobInOrder'
  BY DEF JobInOrder

LEMMA SameJobInOrder ==
    ASSUME JobInOrder, UNCHANGED <<job, published>>, faults' = 0 => faults = 0
    PROVE  JobInOrder'
  <1>1. Package' = Package /\ \A f : IsPublished(f)' <=> IsPublished(f)
    BY DEF Package, IsPublished
  <1>2. \A p : TargetPublished(p)' <=> TargetPublished(p)  BY <1>1 DEF TargetPublished
  <1>3. QED  BY <1>1, <1>2 DEF JobInOrder

(* A job that ends without a push. *)
LEMMA JobEnds ==
    ASSUME Releasing, job' = NoJob, UNCHANGED <<main, tags, published, prereleases>>,
           faults' = faults \/ faults' = faults + 1
    PROVE  Releasing'
  <1>1. ReleaseTyped'  BY DEF Releasing, ReleaseTyped
  <1>2. faults' = 0 => faults = 0  BY DEF Releasing, ReleaseTyped
  <1>3. QED  BY <1>1, <1>2, BranchKept, NamesKept, NoJobInOrder DEF Releasing

-----------------------------------------------------------------------------
(* The branch                                                              *)

LEMMA InitReleasing == ReleaseInit => Releasing
  <1> SUFFICES ASSUME ReleaseInit PROVE Releasing  OBVIOUS
  <1>1. FirstVersions \in [Files -> Version] /\ Crates \subseteq Files  BY ReleaseAssumption
  <1>2. [f \in Crates |-> FirstVersions[f]] \in [Crates -> Version]  BY <1>1
  <1>3. [p \in AllPackages |-> NotStaged]
            \in [AllPackages -> [commits : SUBSET Commits, rule : Rules \cup {"none"}]]
    BY DEF NotStaged
  <1>4. main \in Branch  BY <1>1, <1>2, <1>3 DEF ReleaseInit, Branch
  <1>5. ReleaseTyped  BY <1>4 DEF ReleaseInit, ReleaseTyped
  <1>6. main.log = {} /\ tags = {} /\ \A p \in AllPackages : main.staged[p].commits = {}
    BY DEF ReleaseInit, NotStaged
  <1>7. BranchInOrder  BY <1>6 DEF BranchInOrder
  <1>8. main.versions = FirstVersions /\ main.root = [f \in Crates |-> FirstVersions[f]]
    BY DEF ReleaseInit
  <1>9. MainNamesPublished  BY <1>6, <1>8 DEF MainNamesPublished
  <1>10. QED  BY <1>5, <1>7, <1>9 DEF ReleaseInit, Releasing, JobInOrder

LEMMA MergeReleasing ==
    ASSUME Releasing, NEW c \in Commits, Merge(c)
    PROVE  Releasing'
  <1>1. main \in Branch  BY DEF Releasing, ReleaseTyped
  <1>2. /\ main' \in Branch /\ main'.commits = main.commits \cup {c}
        /\ main'.versions = main.versions /\ main'.root = main.root
        /\ main'.staged = main.staged /\ main'.log = main.log /\ main'.rootLog = main.rootLog
    BY <1>1 DEF Merge, Branch
  <1>3. UNCHANGED <<tags, published, job, prereleases, faults>>  BY DEF Merge
  <1>4. ReleaseTyped'  BY <1>2, <1>3 DEF Releasing, ReleaseTyped
  <1>5. \A p : TaggedCommits(p)' = TaggedCommits(p)
    BY <1>2, <1>3 DEF TaggedCommits, FindTag, VersionOf
  <1>6. BranchInOrder'  BY <1>2, <1>3, <1>5 DEF Releasing, BranchInOrder
  <1>7. MainNamesPublished'
    BY <1>2, <1>3 DEF Releasing, MainNamesPublished, PublishedAt, VersionOf
  <1>8. QED  BY <1>3, <1>4, <1>6, <1>7, SameJobInOrder DEF Releasing

LEMMA PrepareReleasing ==
    ASSUME Releasing, NEW selected \in [AllPackages -> SUBSET Commits], PrepareRelease(selected)
    PROVE  Releasing'
  <1>1. main \in Branch  BY DEF Releasing, ReleaseTyped
  <1>2. PICK rule \in [AllPackages -> {"major", "minor", "patch"}] :
            main' = [main EXCEPT !.staged = [p \in AllPackages |->
                        IF Unreleased(p) = {} THEN main.staged[p]
                        ELSE IF Conventional(selected[p]) = {} THEN NotStaged
                        ELSE [commits |-> selected[p], rule |-> rule[p]]]]
    BY DEF PrepareRelease
  <1> DEFINE staged == [p \in AllPackages |->
                        IF Unreleased(p) = {} THEN main.staged[p]
                        ELSE IF Conventional(selected[p]) = {} THEN NotStaged
                        ELSE [commits |-> selected[p], rule |-> rule[p]]]
  <1>3. main.staged \in [AllPackages -> [commits : SUBSET Commits, rule : Rules \cup {"none"}]]
    BY <1>1 DEF Branch
  <1>4. staged \in [AllPackages -> [commits : SUBSET Commits, rule : Rules \cup {"none"}]]
    BY <1>3 DEF NotStaged, Rules
  <1>5. /\ main' \in Branch /\ main'.commits = main.commits
        /\ main'.versions = main.versions /\ main'.root = main.root
        /\ main'.staged = staged /\ main'.log = main.log /\ main'.rootLog = main.rootLog
    BY <1>1, <1>2, <1>4 DEF Branch
  <1>6. UNCHANGED <<tags, published, job, prereleases, faults>>  BY DEF PrepareRelease
  <1>7. ReleaseTyped'  BY <1>5, <1>6 DEF Releasing, ReleaseTyped
  <1>8. \A p : TaggedCommits(p)' = TaggedCommits(p)
    BY <1>5, <1>6 DEF TaggedCommits, FindTag, VersionOf
  <1>9. ASSUME NEW p \in AllPackages
        PROVE  /\ staged[p].commits # {} => staged[p].rule \in Rules
               /\ staged[p].commits \subseteq main.commits
               /\ \A s \in main.log : s.package = p => s.commits \cap staged[p].commits = {}
    <2>1. selected[p] \subseteq Unreleased(p)  BY DEF PrepareRelease
    <2>2. Unreleased(p) = main.commits \ TaggedCommits(p)  BY DEF Unreleased, TaggedCommits
    <2>3. CASE staged[p] = main.staged[p]
      BY <2>3 DEF Releasing, BranchInOrder
    <2>4. CASE staged[p] = NotStaged
      BY <2>4 DEF NotStaged
    <2>5. CASE staged[p] = [commits |-> selected[p], rule |-> rule[p]]
      <3>1. staged[p].commits = selected[p] /\ staged[p].rule \in Rules  BY <2>5 DEF Rules
      <3>2. \A s \in main.log : s.package = p => s.commits \subseteq TaggedCommits(p)
        BY DEF Releasing, BranchInOrder
      <3> HIDE DEF staged
      <3>3. QED  BY <2>1, <2>2, <3>1, <3>2
    <2>6. QED  BY <2>3, <2>4, <2>5
  <1> HIDE DEF staged
  <1>10. \A s \in main.log : s.package \in AllPackages  BY <1>1 DEF Branch, Section
  <1>11. BranchInOrder'
    BY <1>5, <1>6, <1>8, <1>9, <1>10 DEF Releasing, BranchInOrder
  <1>12. MainNamesPublished'
    BY <1>5, <1>6 DEF Releasing, MainNamesPublished, PublishedAt, VersionOf
  <1>13. QED  BY <1>6, <1>7, <1>11, <1>12, SameJobInOrder DEF Releasing

-----------------------------------------------------------------------------
(* A job                                                                   *)

(* Bumped versions are versions, and releases unless they are prereleases. *)
LEMMA NextVersionsTyped ==
    ASSUME Releasing, NEW prerelease \in BOOLEAN, NEW targets \in SUBSET Targets
    PROVE  LET next == NextVersions(targets, prerelease)
           IN  /\ next \in [Files -> Version]
               /\ ~ prerelease => \A p \in targets : \A f \in ToSet(FilesOf[p]) : next[f][4] = 0
  <1>1. main.versions \in [Files -> Version]  BY DEF Releasing, ReleaseTyped, Branch
  <1>2. ASSUME NEW p \in targets PROVE p \in AllPackages /\ main.staged[p].rule \in Rules
    <2>1. p \in AllPackages /\ Conventional(main.staged[p].commits) # {}  BY DEF Targets, IsTarget
    <2>2. main.staged[p].commits # {}  BY <2>1 DEF Conventional
    <2>3. QED  BY <2>1, <2>2 DEF Releasing, BranchInOrder
  <1>3. ASSUME NEW f \in Files, NEW p \in targets
        PROVE  /\ NextVersion(f, p, prerelease) \in Version
               /\ ~ prerelease => NextVersion(f, p, prerelease)[4] = 0
    <2>1. main.versions[f] \in Version  BY <1>1
    <2>2. CASE prerelease
      <3>1. prereleases + 1 \in Nat  BY DEF Releasing, ReleaseTyped
      <3>2. QED  BY <2>1, <2>2, <3>1 DEF NextVersion, PrereleaseOf, Version
    <2>3. CASE ~ prerelease
      BY <1>2, <2>1, <2>3, BumpIsRelease DEF NextVersion
    <2>4. QED  BY <2>2, <2>3
  <1>4. ASSUME NEW f \in Files, \E p \in targets : f \in ToSet(FilesOf[p])
        PROVE  \E q \in targets : NextVersions(targets, prerelease)[f] = NextVersion(f, q, prerelease)
    <2> DEFINE q == CHOOSE q \in targets : f \in ToSet(FilesOf[q])
    <2>1. q \in targets  BY <1>4
    <2>2. NextVersions(targets, prerelease)[f] = NextVersion(f, q, prerelease)
      BY <1>4 DEF NextVersions
    <2> HIDE DEF q
    <2>3. QED  BY <2>1, <2>2
  <1>5. ASSUME NEW f \in Files PROVE NextVersions(targets, prerelease)[f] \in Version
    <2>1. CASE \E p \in targets : f \in ToSet(FilesOf[p])  BY <1>3, <1>4, <2>1
    <2>2. CASE ~ \E p \in targets : f \in ToSet(FilesOf[p])
      BY <1>1, <2>2 DEF NextVersions
    <2>3. QED  BY <2>1, <2>2
  <1>6. NextVersions(targets, prerelease) \in [Files -> Version]
    <2>1. DOMAIN NextVersions(targets, prerelease) = Files
          /\ NextVersions(targets, prerelease)
                = [f \in Files |-> NextVersions(targets, prerelease)[f]]
      BY DEF NextVersions
    <2>2. QED  BY <1>5, <2>1
  <1>7. ASSUME ~ prerelease, NEW p \in targets, NEW f \in ToSet(FilesOf[p])
        PROVE  NextVersions(targets, prerelease)[f][4] = 0
    <2>1. f \in Files  BY <1>2, FilesOfPackage
    <2>2. QED  BY <1>3, <1>4, <1>7, <2>1
  <1>8. QED  BY <1>6, <1>7

(* The files of the first target of a queue are all still to be published. *)
LEMMA FirstFilesOfQueue ==
    ASSUME NEW queue \in SUBSET AllPackages
    PROVE  /\ FirstFiles(queue) \subseteq Files
           /\ queue # {} =>
                 /\ FirstOf(queue, Packages) \in queue
                 /\ FirstFiles(queue) = FilesToPublish(FirstOf(queue, Packages))
                 /\ FirstFiles(queue) # {}
  <1>1. CASE queue = {}  BY <1>1 DEF FirstFiles
  <1>2. CASE queue # {}
    <2>1. queue \cap ToSet(Packages) # {}  BY <1>2 DEF AllPackages
    <2>2. FirstOf(queue, Packages) \in queue  BY <2>1, FirstIsItem, ReleaseAssumption
    <2>3. QED  BY <1>2, <2>2, FilesOfPackage DEF FirstFiles
  <1>3. QED  BY <1>1, <1>2

LEMMA StartReleasing ==
    ASSUME Releasing, NEW prerelease \in BOOLEAN, NEW selected, StartJob(prerelease, selected)
    PROVE  Releasing'
  <1> DEFINE targets == SelectTargets(selected)
             next == NextVersions(targets, prerelease)
             sections == Sections(targets, next)
  <1>1. main \in Branch /\ prereleases \in Nat  BY DEF Releasing, ReleaseTyped
  <1>2. targets \in SUBSET Targets /\ targets \in SUBSET AllPackages
    BY DEF SelectTargets, Targets
  <1>3. /\ next \in [Files -> Version]
        /\ ~ prerelease => \A p \in targets : \A f \in ToSet(FilesOf[p]) : next[f][4] = 0
    BY <1>2, NextVersionsTyped
  <1>4. UNCHANGED <<main, tags, published, faults>> /\ prereleases' \in Nat
    BY <1>1 DEF StartJob
  <1>5. job' = [step |-> "publish", base |-> main, prerelease |-> prerelease, next |-> next,
                targets |-> targets, queue |-> targets, files |-> FirstFiles(targets),
                ok |-> TRUE, done |-> {}, sections |-> sections]
    BY DEF StartJob
  <1> HIDE DEF targets, next
  <1>6. sections = {[package |-> p, version |-> VersionOf(next, p),
                     commits |-> Conventional(main.staged[p].commits)] : p \in targets}
    BY DEF Sections
  <1>7. sections \subseteq Section
    <2>1. \A p \in targets : VersionOf(next, p) \in Version
      BY <1>2, <1>3, FilesOfPackage DEF VersionOf
    <2>2. \A p \in targets : Conventional(main.staged[p].commits) \subseteq Commits
      BY <1>1, <1>2 DEF Branch, Conventional
    <2>3. QED  BY <1>2, <1>6, <2>1, <2>2 DEF Section
  <1> HIDE DEF sections
  <1>8. FirstFiles(targets) \subseteq Files
        /\ (targets # {} => FirstFiles(targets) = FilesToPublish(FirstOf(targets, Packages))
                            /\ FirstFiles(targets) # {})
    BY <1>2, FirstFilesOfQueue
  <1>9. job' \in ReleaseJob  BY <1>1, <1>2, <1>3, <1>5, <1>7, <1>8 DEF ReleaseJob
  <1>10. ReleaseTyped'  BY <1>4, <1>9 DEF Releasing, ReleaseTyped
  <1>11. /\ job'.queue = targets /\ job'.targets = targets /\ job'.done = {} /\ job'.base = main
         /\ job'.sections = sections /\ job'.next = next /\ job'.files = FirstFiles(targets)
         /\ job'.prerelease = prerelease
    BY <1>5
  <1>12. Package' = FirstOf(targets, Packages)  BY <1>11 DEF Package
  <1>13. JobInOrder'  BY <1>3, <1>6, <1>8, <1>11, <1>12 DEF JobInOrder
  <1>14. QED  BY <1>4, <1>10, <1>13, BranchKept, NamesKept DEF Releasing

(* While a job publishes, main is out of its reach. *)
LEMMA PublishingJob ==
    ASSUME Releasing, job.step = "publish"
    PROVE  job \in ReleaseJob /\ job # NoJob
  BY DEF Releasing, ReleaseTyped, NoJob

(* The job goes on to the next target; of the one it is through with it    *)
(* knows that it was published, if it has succeeded or nothing has failed. *)
LEMMA NextTargetReleasing ==
    ASSUME Releasing, job.step = "publish", job.queue # {}, NEW done \in SUBSET {Package},
           job' = [job EXCEPT !.queue = @ \ {Package}, !.files = FirstFiles(job.queue \ {Package}),
                              !.ok = TRUE, !.done = @ \cup done],
           UNCHANGED <<main, tags, prereleases>>, published \subseteq published',
           faults' \in Nat, faults' = 0 => faults = 0,
           done # {} => \A f \in FilesToPublish(Package) : <<f, job.next[f]>> \in published',
           faults' = 0 => \/ NapiArtifactsFails(Package)
                          \/ \A f \in FilesToPublish(Package) : <<f, job.next[f]>> \in published'
    PROVE  Releasing'
  <1>1. job \in ReleaseJob /\ job # NoJob  BY PublishingJob
  <1>2. job.queue \in SUBSET AllPackages /\ job.queue \subseteq job.targets
        /\ job.done \subseteq job.targets \ job.queue
    BY <1>1 DEF ReleaseJob, Releasing, JobInOrder
  <1>3. Package \in job.queue  BY <1>2, FirstFilesOfQueue DEF Package
  <1> DEFINE queue == job.queue \ {Package}
  <1>4. queue \in SUBSET AllPackages  BY <1>2
  <1>5. FirstFiles(queue) \subseteq Files
        /\ (queue # {} => FirstFiles(queue) = FilesToPublish(FirstOf(queue, Packages))
                          /\ FirstFiles(queue) # {})
    BY <1>4, FirstFilesOfQueue
  <1>6. PICK p : p = Package  OBVIOUS
  <1>7. p \in AllPackages /\ p \in job.queue  BY <1>2, <1>3, <1>6
  <1> HIDE DEF queue
  <1>8. /\ job' \in ReleaseJob
        /\ job'.queue = queue /\ job'.files = FirstFiles(queue) /\ job'.done = job.done \cup done
        /\ job'.targets = job.targets /\ job'.base = job.base /\ job'.sections = job.sections
        /\ job'.next = job.next /\ job'.prerelease = job.prerelease
    <2>1. job' = [job EXCEPT !.queue = queue, !.files = FirstFiles(queue),
                             !.ok = TRUE, !.done = job.done \cup done]
      BY DEF queue
    <2>2. done \subseteq AllPackages  BY <1>6, <1>7
    <2>3. QED  BY <1>1, <1>4, <1>5, <2>1, <2>2 DEF ReleaseJob
  <1>9. ReleaseTyped'  BY <1>8 DEF Releasing, ReleaseTyped
  <1>10. \A f : IsPublished(f) => IsPublished(f)'  BY <1>8 DEF IsPublished
  <1>11. \A q : TargetPublished(q) => TargetPublished(q)'  BY <1>10 DEF TargetPublished
  <1>12. done # {} => TargetPublished(p)'
    BY <1>6, <1>8 DEF TargetPublished, IsPublished
  <1>13. faults' = 0 => TargetPublished(p)' \/ NapiArtifactsFails(p)
    BY <1>6, <1>8 DEF TargetPublished, IsPublished
  <1>14. Package' = FirstOf(queue, Packages)  BY <1>8 DEF Package
  <1>15. queue = job.queue \ {p} /\ done \subseteq {p}  BY <1>6 DEF queue
  <1>16. /\ job'.queue \subseteq job'.targets
         /\ job'.done \subseteq job'.targets \ job'.queue
    BY <1>2, <1>7, <1>8, <1>15
  <1>17. \A q \in job'.done : TargetPublished(q)'
    BY <1>1, <1>8, <1>11, <1>12, <1>15 DEF Releasing, JobInOrder
  <1>18. faults' = 0 => \A q \in job'.targets \ job'.queue : TargetPublished(q)' \/ NapiArtifactsFails(q)
    <2>1. ASSUME faults' = 0, NEW q \in job.targets \ queue, q # p
          PROVE  TargetPublished(q) \/ NapiArtifactsFails(q)
      BY <1>1, <1>15, <2>1 DEF Releasing, JobInOrder
    <2>2. QED  BY <1>8, <1>11, <1>13, <2>1
  <1>19. job'.queue # {} => job'.files = FilesToPublish(Package') /\ job'.files # {}
    BY <1>5, <1>8, <1>14
  <1>20. /\ job'.sections = {[package |-> q, version |-> VersionOf(job'.next, q),
                              commits |-> Conventional(job'.base.staged[q].commits)] : q \in job'.targets}
         /\ ~ job'.prerelease => \A q \in job'.targets : \A f \in ToSet(FilesOf[q]) : job'.next[f][4] = 0
    BY <1>1, <1>8 DEF Releasing, JobInOrder
  <1>21. JobInOrder'
    <2>1. job'.queue # {} => FilesToPublish(Package') \ job'.files = {}  BY <1>19
    <2>2. QED  BY <1>16, <1>17, <1>18, <1>19, <1>20, <2>1 DEF JobInOrder
  <1>22. QED  BY <1>9, <1>21, BranchKept, NamesKept DEF Releasing

LEMMA SkipReleasing ==
    ASSUME Releasing, SkipPackage
    PROVE  Releasing'
  <1>1. job \in ReleaseJob /\ job.step = "publish" /\ job.queue # {} /\ faults \in Nat /\ job.ok
    BY PublishingJob DEF SkipPackage, Releasing, ReleaseTyped
  <1> DEFINE none == {}
  <1>2. job' = [job EXCEPT !.queue = @ \ {Package}, !.files = FirstFiles(job.queue \ {Package}),
                           !.ok = TRUE, !.done = @ \cup none]
    BY <1>1 DEF SkipPackage, ReleaseJob
  <1>3. faults' \in Nat /\ (faults' = 0 => faults = 0 /\ NapiArtifactsFails(Package))
    BY <1>1 DEF SkipPackage
  <1>4. UNCHANGED <<main, tags, prereleases>> /\ published \subseteq published'  BY DEF SkipPackage
  <1>5. none \in SUBSET {Package} /\ none = {}  OBVIOUS
  <1> HIDE DEF none
  <1>6. QED  BY <1>1, <1>2, <1>3, <1>4, <1>5, NextTargetReleasing

(* The file that comes next is one of the target that comes next.          *)
LEMMA NextFileOfPackage ==
    ASSUME Releasing, job.step = "publish", job.queue # {}
    PROVE  /\ Package \in AllPackages /\ job.files \subseteq FilesToPublish(Package) /\ job.files # {}
           /\ PublishedItem[1] \in job.files /\ PublishedItem[1] \in FilesToPublish(Package)
  <1>1. job \in ReleaseJob /\ job # NoJob  BY PublishingJob
  <1>2. PICK p : p = Package  OBVIOUS
  <1>3. p \in AllPackages /\ job.files \subseteq FilesToPublish(p) /\ job.files # {}
    <2>1. Package \in job.queue  BY <1>1, FirstFilesOfQueue DEF Package, ReleaseJob
    <2>2. QED  BY <1>1, <1>2, <2>1 DEF Releasing, JobInOrder, ReleaseJob
  <1>4. FilesOf[p] \in Seq(Files)  BY <1>3, ReleaseAssumption
  <1>5. job.files \cap ToSet(FilesOf[p]) # {}  BY <1>3 DEF FilesToPublish
  <1>6. FirstOf(job.files, FilesOf[p]) \in job.files  BY <1>4, <1>5, FirstIsItem
  <1>7. PublishedItem[1] = FirstOf(job.files, FilesOf[p])  BY <1>2 DEF PublishedItem
  <1>8. QED  BY <1>2, <1>3, <1>6, <1>7

LEMMA PublishReleasing ==
    ASSUME Releasing, PublishFile
    PROVE  Releasing'
  <1>1. job \in ReleaseJob /\ job # NoJob /\ job.step = "publish" /\ job.queue # {} /\ faults \in Nat
    BY PublishingJob DEF PublishFile, Releasing, ReleaseTyped
  <1>2. PICK f : f = PublishedItem[1]  OBVIOUS
  <1>3. PublishedItem = <<f, job.next[f]>>  BY <1>2 DEF PublishedItem
  <1>4. PICK p : p = Package  OBVIOUS
  <1>5. p \in AllPackages /\ job.files \subseteq FilesToPublish(p) /\ job.files # {}
    BY <1>1, <1>4, NextFileOfPackage
  <1>6. f \in job.files  BY <1>1, <1>2, NextFileOfPackage
  <1>7. PICK succeeds \in BOOLEAN :
            /\ RunCommandAction(PublishedItem, succeeds)
            /\ job' = IF job.files # {PublishedItem[1]}
                      THEN [job EXCEPT !.files = @ \ {PublishedItem[1]}, !.ok = AllSucceed(job.ok, succeeds)]
                      ELSE [job EXCEPT !.queue = @ \ {Package}, !.files = FirstFiles(job.queue \ {Package}),
                                       !.ok = TRUE,
                                       !.done = IF AllSucceed(job.ok, succeeds) THEN @ \cup {Package} ELSE @]
    BY DEF PublishFile
  <1> DEFINE ok == job.ok /\ succeeds
  <1>8. AllSucceed(job.ok, succeeds) = ok  BY DEF AllSucceed
  <1>9. UNCHANGED <<main, tags, prereleases>>  BY DEF PublishFile
  <1>10. /\ published \subseteq published' /\ faults' \in Nat /\ (faults' = 0 => faults = 0)
         /\ succeeds \/ faults' = 0 => <<f, job.next[f]>> \in published'
    BY <1>1, <1>3, <1>7 DEF RunCommandAction
  <1>11. job.ok \/ faults = 0 => \A g \in FilesToPublish(p) \ job.files : <<g, job.next[g]>> \in published
    BY <1>1, <1>4 DEF Releasing, JobInOrder, IsPublished
  <1>12. ok \/ faults' = 0 =>
             \A g \in FilesToPublish(p) \ (job.files \ {f}) : <<g, job.next[g]>> \in published'
    BY <1>10, <1>11
  <1>13. ok \in BOOLEAN  BY <1>1 DEF ReleaseJob
  <1>14. CASE job.files # {f}
    <2>1. job' = [job EXCEPT !.files = job.files \ {f}, !.ok = ok]
      BY <1>2, <1>7, <1>8, <1>14
    <2> HIDE DEF ok
    <2>2. /\ job' \in ReleaseJob /\ job'.files = job.files \ {f} /\ job'.ok = ok
          /\ job'.queue = job.queue /\ job'.done = job.done
          /\ job'.targets = job.targets /\ job'.base = job.base /\ job'.sections = job.sections
          /\ job'.next = job.next /\ job'.prerelease = job.prerelease
      BY <1>1, <1>13, <2>1 DEF ReleaseJob
    <2>3. Package' = p  BY <1>4, <2>2 DEF Package
    <2>4. \A q : TargetPublished(q) => TargetPublished(q)'
      BY <1>10, <2>2 DEF TargetPublished, IsPublished
    <2>5. job'.ok \/ faults' = 0 => \A g \in FilesToPublish(Package') \ job'.files : IsPublished(g)'
      BY <1>12, <2>2, <2>3 DEF IsPublished
    <2>6. job'.files \subseteq FilesToPublish(Package') /\ job'.files # {}
      BY <1>5, <1>6, <1>14, <2>2, <2>3
    <2>7. JobInOrder'
      BY <1>1, <1>10, <2>2, <2>4, <2>5, <2>6 DEF Releasing, JobInOrder
    <2>8. ReleaseTyped'  BY <1>9, <1>10, <2>2 DEF Releasing, ReleaseTyped
    <2>9. QED  BY <1>9, <1>10, <2>7, <2>8, BranchKept, NamesKept DEF Releasing
  <1>15. CASE job.files = {f}
    <2> DEFINE done == IF ok THEN {Package} ELSE {}
    <2>1. job' = [job EXCEPT !.queue = @ \ {Package}, !.files = FirstFiles(job.queue \ {Package}),
                             !.ok = TRUE, !.done = @ \cup done]
      BY <1>2, <1>7, <1>8, <1>15
    <2>2. ok \/ faults' = 0 => \A g \in FilesToPublish(Package) : <<g, job.next[g]>> \in published'
      BY <1>4, <1>12, <1>15
    <2> HIDE DEF ok
    <2>3. done \in SUBSET {Package} /\ (done # {} => ok)  OBVIOUS
    <2> HIDE DEF done
    <2>4. QED  BY <1>1, <1>9, <1>10, <2>1, <2>2, <2>3, NextTargetReleasing
  <1>16. QED  BY <1>14, <1>15

(* What a push leaves: the files of the published targets and their tags.  *)
LEMMA ReleaseCommitIs ==
    ASSUME Releasing, Push, main = job.base
    PROVE  /\ job \in ReleaseJob /\ job # NoJob /\ ~ job.prerelease /\ job.queue = {}
           /\ job.done \subseteq job.targets /\ job.targets \subseteq AllPackages
           /\ main' \in Branch /\ main'.commits = main.commits
           /\ main'.versions = EditVersions(main.versions, job.done)
           /\ main'.root = EditVersions(main.root, job.targets)
           /\ main'.staged = UpdateStaged(main.staged)
           /\ main'.log = main.log \cup {s \in job.sections : s.package \in job.done}
           /\ main'.rootLog = main.rootLog \cup job.sections
           /\ tags' = tags \cup NewTags
           /\ UNCHANGED <<published, prereleases, faults>>
           /\ job' = [job EXCEPT !.step = "announce"]
  <1>1. job \in ReleaseJob /\ job # NoJob /\ ~ job.prerelease /\ job.queue = {}
    BY PublishingJob DEF Push
  <1>2. job.done \subseteq job.targets /\ job.targets \subseteq AllPackages
    BY <1>1 DEF Releasing, JobInOrder, ReleaseJob
  <1>3. main \in Branch /\ job.next \in [Files -> Version] /\ job.sections \subseteq Section
    BY <1>1 DEF Releasing, ReleaseTyped, ReleaseJob
  <1>4. EditVersions(main.versions, job.done) \in [Files -> Version]
    BY <1>3 DEF EditVersions, Branch
  <1>5. EditVersions(main.root, job.targets) \in [Crates -> Version]
    <2>1. \A f \in Crates : job.next[f] \in Version  BY <1>3, ReleaseAssumption
    <2>2. main.root \in [Crates -> Version]  BY <1>3 DEF Branch
    <2>3. QED  BY <2>1, <2>2 DEF EditVersions
  <1>6. UpdateStaged(main.staged) \in [AllPackages -> [commits : SUBSET Commits, rule : Rules \cup {"none"}]]
    BY <1>3 DEF UpdateStaged, Branch, NotStaged
  <1>7. main' = [main EXCEPT !.versions = EditVersions(@, job.done),
                             !.staged = UpdateStaged(@),
                             !.root = EditVersions(@, job.targets),
                             !.log = @ \cup {s \in job.sections : s.package \in job.done},
                             !.rootLog = @ \cup job.sections]
    BY DEF Push, ReleaseCommit, CommittedVersions, RootCargoToml, RootChangelog
  <1>8. /\ main' \in Branch /\ main'.commits = main.commits
        /\ main'.versions = EditVersions(main.versions, job.done)
        /\ main'.root = EditVersions(main.root, job.targets)
        /\ main'.staged = UpdateStaged(main.staged)
        /\ main'.log = main.log \cup {s \in job.sections : s.package \in job.done}
        /\ main'.rootLog = main.rootLog \cup job.sections
    BY <1>3, <1>4, <1>5, <1>6, <1>7 DEF Branch
  <1>9. QED  BY <1>1, <1>2, <1>8 DEF Push

(* The version of a package changes with its release only. *)
LEMMA VersionAfterPush ==
    ASSUME Releasing, Push, main = job.base, NEW p \in AllPackages
    PROVE  /\ p \in job.done =>
                 /\ \A f \in ToSet(FilesOf[p]) : main'.versions[f] = job.next[f]
                 /\ VersionOf(main.versions, p)' = VersionOf(job.next, p)
           /\ p \notin job.done =>
                 /\ \A f \in ToSet(FilesOf[p]) : main'.versions[f] = main.versions[f]
                 /\ VersionOf(main.versions, p)' = VersionOf(main.versions, p)
  <1>1. main'.versions = EditVersions(main.versions, job.done) /\ job.done \subseteq AllPackages
    BY ReleaseCommitIs
  <1>2. DOMAIN main.versions = Files  BY DEF Releasing, ReleaseTyped, Branch
  <1>3. ToSet(FilesOf[p]) \subseteq Files /\ Head(FilesOf[p]) \in ToSet(FilesOf[p])
    BY FilesOfPackage
  <1>4. CASE p \in job.done
    BY <1>1, <1>2, <1>3, <1>4 DEF EditVersions, VersionOf
  <1>5. CASE p \notin job.done
    <2>1. \A f \in ToSet(FilesOf[p]) : ~ \E q \in job.done : f \in ToSet(FilesOf[q])
      BY <1>1, <1>5, OwnFiles
    <2>2. QED  BY <1>1, <1>2, <1>3, <1>5, <2>1 DEF EditVersions, VersionOf
  <1>6. QED  BY <1>4, <1>5

LEMMA PushedBranch ==
    ASSUME Releasing, Push, main = job.base
    PROVE  BranchInOrder'
  <1>1. /\ job.done \subseteq job.targets /\ job.targets \subseteq AllPackages /\ job # NoJob
        /\ main'.commits = main.commits
        /\ main'.staged = UpdateStaged(main.staged)
        /\ main'.log = main.log \cup {s \in job.sections : s.package \in job.done}
        /\ main'.rootLog = main.rootLog \cup job.sections
        /\ tags' = tags \cup NewTags
    BY ReleaseCommitIs
  <1>2. job.sections = {[package |-> p, version |-> VersionOf(job.next, p),
                         commits |-> Conventional(main.staged[p].commits)] : p \in job.targets}
    BY <1>1 DEF Releasing, JobInOrder
  <1>3. \A p \in AllPackages :
            main'.staged[p] = IF p \in job.done THEN NotStaged ELSE main.staged[p]
    BY <1>1 DEF UpdateStaged
  <1>4. \A p \in AllPackages :
            /\ main'.staged[p].commits # {} => main'.staged[p].rule \in Rules
            /\ main'.staged[p].commits \subseteq main'.commits
    BY <1>1, <1>3 DEF Releasing, BranchInOrder, NotStaged
  <1>5. \A t \in tags' : t.commits \subseteq main'.commits
    BY <1>1 DEF Releasing, BranchInOrder, NewTags
  <1>6. ASSUME NEW s \in main.log
        PROVE  s.package \in AllPackages /\ s.commits \subseteq TaggedCommits(s.package)
               /\ s.commits \cap main.staged[s.package].commits = {}
    BY DEF Releasing, ReleaseTyped, Branch, Section, BranchInOrder
  <1>7. ASSUME NEW p \in AllPackages, p \notin job.done
        PROVE  TaggedCommits(p) \subseteq TaggedCommits(p)'
    <2>1. FindTag(p) \subseteq FindTag(p)'
      BY <1>1, <1>7, VersionAfterPush DEF FindTag
    <2>2. QED  BY <2>1 DEF TaggedCommits
  <1>8. ASSUME NEW p \in job.done
        PROVE  main.commits \subseteq TaggedCommits(p)'
    <2>1. PICK t : t = [package |-> p, version |-> VersionOf(job.next, p), commits |-> main.commits]
      OBVIOUS
    <2>2. t \in tags'  BY <1>1, <2>1 DEF NewTags
    <2>3. p \in AllPackages  BY <1>1
    <2>4. t \in FindTag(p)'  BY <2>1, <2>2, <2>3, VersionAfterPush DEF FindTag
    <2>5. QED  BY <2>1, <2>4 DEF TaggedCommits
  <1>9. \A p \in AllPackages : TaggedCommits(p) \subseteq main.commits
    BY DEF Releasing, BranchInOrder, TaggedCommits, FindTag
  <1>10. ASSUME NEW s \in main'.log
         PROVE  /\ s.package \in AllPackages
                /\ s.commits \subseteq TaggedCommits(s.package)'
                /\ s.commits \cap main'.staged[s.package].commits = {}
    <2>1. CASE s \in main.log
      <3>1. CASE s.package \in job.done
        BY <1>3, <1>6, <1>8, <1>9, <2>1, <3>1 DEF NotStaged
      <3>2. CASE s.package \notin job.done
        BY <1>3, <1>6, <1>7, <2>1, <3>2
      <3>3. QED  BY <3>1, <3>2
    <2>2. CASE s \in job.sections /\ s.package \in job.done
      <3>1. s.commits \subseteq main.staged[s.package].commits /\ s.package \in AllPackages
        BY <1>1, <1>2, <2>2 DEF Conventional
      <3>2. s.commits \subseteq main.commits  BY <3>1 DEF Releasing, BranchInOrder
      <3>3. QED  BY <1>3, <1>8, <2>2, <3>1, <3>2 DEF NotStaged
    <2>3. QED  BY <1>1, <2>1, <2>2
  <1>11. main'.log \subseteq main'.rootLog
    BY <1>1 DEF Releasing, BranchInOrder
  <1>12. ASSUME NEW s1 \in main'.log, NEW s2 \in main'.log, s1.package = s2.package, s1 # s2
         PROVE  s1.commits \cap s2.commits = {}
    <2>1. CASE s1 \in main.log /\ s2 \in main.log
      BY <1>12, <2>1 DEF Releasing, BranchInOrder
    <2>2. ASSUME NEW s \in main.log, NEW t \in job.sections, s.package = t.package
          PROVE  s.commits \cap t.commits = {}
      <3>1. t.commits \subseteq main.staged[t.package].commits  BY <1>2 DEF Conventional
      <3>2. QED  BY <1>6, <2>2, <3>1
    <2>3. CASE s1 \in job.sections /\ s2 \in job.sections
      <3>1. s1 = s2  BY <1>2, <1>12, <2>3
      <3>2. QED  BY <1>12, <3>1
    <2>4. s1 \in main.log \cup job.sections /\ s2 \in main.log \cup job.sections  BY <1>1
    <2>5. QED  BY <1>12, <2>1, <2>2, <2>3, <2>4
  <1>13. QED  BY <1>4, <1>5, <1>10, <1>11, <1>12 DEF BranchInOrder

LEMMA PushedNames ==
    ASSUME Releasing, Push, main = job.base
    PROVE  MainNamesPublished'
  <1>1. /\ job.done \subseteq job.targets /\ job.targets \subseteq AllPackages /\ job # NoJob
        /\ job \in ReleaseJob /\ ~ job.prerelease /\ job.queue = {}
        /\ main'.root = EditVersions(main.root, job.targets)
        /\ tags' = tags \cup NewTags /\ UNCHANGED <<published, faults>>
    BY ReleaseCommitIs
  <1>2. /\ \A p \in job.targets : \A f \in ToSet(FilesOf[p]) : job.next[f][4] = 0
        /\ \A p \in job.done : TargetPublished(p)
        /\ faults = 0 => \A p \in job.targets : TargetPublished(p) \/ NapiArtifactsFails(p)
    BY <1>1 DEF Releasing, JobInOrder
  <1>3. ASSUME NEW p \in AllPackages, \E f \in ToSet(FilesOf[p]) : main'.versions[f] # FirstVersions[f]
        PROVE  /\ PublishedAt(p, main.versions)'
               /\ \E t \in tags' : t.package = p /\ t.version = VersionOf(main.versions, p)'
    <2>0. FilesToPublish(p) \subseteq ToSet(FilesOf[p])  BY FilesOfPackage
    <2>1. CASE p \in job.done
      <3>1. \A f \in FilesToPublish(p) : main'.versions[f] = job.next[f]
        BY <2>0, <2>1, VersionAfterPush
      <3>2. PublishedAt(p, main.versions)'
        BY <1>1, <1>2, <2>1, <3>1 DEF PublishedAt, TargetPublished, IsPublished
      <3>3. PICK t : t = [package |-> p, version |-> VersionOf(job.next, p), commits |-> job.base.commits]
        OBVIOUS
      <3>4. t \in tags'  BY <1>1, <2>1, <3>3 DEF NewTags
      <3>5. t.version = VersionOf(main.versions, p)'  BY <2>1, <3>3, VersionAfterPush
      <3>6. QED  BY <3>2, <3>3, <3>4, <3>5
    <2>2. CASE p \notin job.done
      <3>1. \A f \in ToSet(FilesOf[p]) : main'.versions[f] = main.versions[f]
        BY <2>2, VersionAfterPush
      <3>2. /\ PublishedAt(p, main.versions)
            /\ \E t \in tags : t.package = p /\ t.version = VersionOf(main.versions, p)
        BY <1>3, <3>1 DEF Releasing, MainNamesPublished
      <3>3. PublishedAt(p, main.versions)'  BY <1>1, <2>0, <3>1, <3>2 DEF PublishedAt
      <3>4. QED  BY <1>1, <2>2, <3>2, <3>3, VersionAfterPush
    <2>3. QED  BY <2>1, <2>2
  <1>4. ASSUME NEW t \in tags' PROVE t.version[4] = 0
    <2>1. CASE t \in tags  BY <2>1 DEF Releasing, MainNamesPublished
    <2>2. CASE t \in NewTags
      <3>1. PICK p \in job.done : t.version = VersionOf(job.next, p)  BY <2>2 DEF NewTags
      <3>2. Head(FilesOf[p]) \in ToSet(FilesOf[p])  BY <1>1, FilesOfPackage
      <3>3. QED  BY <1>1, <1>2, <3>1, <3>2 DEF VersionOf
    <2>3. QED  BY <1>1, <2>1, <2>2
  <1>5. ASSUME faults' = 0, NEW p \in AllPackages, NEW f \in Crates \cap FilesToPublish(p),
               main'.root[f] # FirstVersions[f], ~ NapiArtifactsFails(p)
        PROVE  <<f, main'.root[f]>> \in published'
    <2>0. f \in ToSet(FilesOf[p])  BY FilesOfPackage
    <2>1. DOMAIN main.root = Crates  BY DEF Releasing, ReleaseTyped, Branch
    <2>2. CASE p \in job.targets
      <3>1. main'.root[f] = job.next[f]  BY <1>1, <2>0, <2>1, <2>2 DEF EditVersions
      <3>2. TargetPublished(p)  BY <1>1, <1>2, <1>5, <2>2
      <3>3. QED  BY <1>1, <3>1, <3>2 DEF TargetPublished, IsPublished
    <2>3. CASE p \notin job.targets
      <3>1. ~ \E q \in job.targets : f \in ToSet(FilesOf[q])  BY <1>1, <2>0, <2>3, OwnFiles
      <3>2. main'.root[f] = main.root[f]  BY <1>1, <2>1, <3>1 DEF EditVersions
      <3>3. QED  BY <1>1, <1>5, <3>2 DEF Releasing, MainNamesPublished
    <2>4. QED  BY <2>2, <2>3
  <1>6. QED  BY <1>3, <1>4, <1>5 DEF MainNamesPublished, NapiArtifactsFails

LEMMA PushReleasing ==
    ASSUME Releasing, Push
    PROVE  Releasing'
  <1>1. CASE main = job.base
    <2>1. /\ job \in ReleaseJob /\ main' \in Branch /\ job' = [job EXCEPT !.step = "announce"]
          /\ job # NoJob /\ UNCHANGED <<published, prereleases, faults>>
      BY <1>1, ReleaseCommitIs
    <2>2. /\ job' \in ReleaseJob
          /\ job'.queue = job.queue /\ job'.done = job.done /\ job'.files = job.files /\ job'.ok = job.ok
          /\ job'.targets = job.targets /\ job'.base = job.base /\ job'.sections = job.sections
          /\ job'.next = job.next /\ job'.prerelease = job.prerelease
      BY <2>1 DEF ReleaseJob
    <2>3. ReleaseTyped'  BY <2>1, <2>2 DEF Releasing, ReleaseTyped
    <2>4. job.queue = {}  BY DEF Push
    <2>5. \A p : TargetPublished(p) => TargetPublished(p)'
      BY <2>1, <2>2 DEF TargetPublished, IsPublished
    <2>6. JobInOrder'  BY <2>1, <2>2, <2>4, <2>5 DEF Releasing, JobInOrder
    <2>7. QED  BY <1>1, <2>3, <2>6, PushedBranch, PushedNames DEF Releasing
  <1>2. CASE main # job.base
    <2>1. job' = NoJob /\ UNCHANGED <<main, tags, published, prereleases, faults>>
      BY <1>2 DEF Push
    <2>2. QED  BY <2>1, JobEnds
  <1>3. QED  BY <1>1, <1>2

LEMMA AnnounceReleasing ==
    ASSUME Releasing, Announce
    PROVE  Releasing'
  <1>1. UNCHANGED <<main, tags, published, prereleases, faults>> /\ (job' = NoJob \/ job' = job)
    BY DEF Announce
  <1>2. CASE job' = NoJob  BY <1>1, <1>2, JobEnds
  <1>3. CASE job' = job
    <2>1. ReleaseTyped'  BY <1>1, <1>3 DEF Releasing, ReleaseTyped
    <2>2. QED  BY <1>1, <1>3, <2>1, BranchKept, NamesKept, SameJobInOrder DEF Releasing
  <1>4. QED  BY <1>1, <1>2, <1>3

LEMMA NextReleasing == Releasing /\ [ReleaseNext]_releaseVars => Releasing'
  <1> SUFFICES ASSUME Releasing, [ReleaseNext]_releaseVars PROVE Releasing'  OBVIOUS
  <1>1. CASE EndJob  BY <1>1, JobEnds DEF EndJob
  <1>2. CASE Abort  BY <1>2, JobEnds DEF Abort
  <1>3. CASE UNCHANGED releaseVars
    <2>1. UNCHANGED <<main, tags, published, prereleases, faults, job>>  BY <1>3 DEF releaseVars
    <2>2. ReleaseTyped'  BY <2>1 DEF Releasing, ReleaseTyped
    <2>3. QED  BY <2>1, <2>2, BranchKept, NamesKept, SameJobInOrder DEF Releasing
  <1>4. ASSUME StartJob(TRUE, AllPackages) \/ \E selected \in SUBSET AllPackages : StartJob(FALSE, selected)
        PROVE  Releasing'
    BY <1>4, StartReleasing
  <1>5. QED
    BY <1>1, <1>2, <1>3, <1>4, MergeReleasing, PrepareReleasing, PublishReleasing, PushReleasing,
       AnnounceReleasing, SkipReleasing
    DEF ReleaseNext, JobStep

(* xtask release: what main and its tags name as released is in the        *)
(* registries, whatever fails and wherever a job ends.                     *)
THEOREM MainAlwaysNamesPublished == ReleaseSpec => []MainNamesPublished
  <1>1. Releasing => MainNamesPublished  BY DEF Releasing
  <1>2. QED  BY <1>1, InitReleasing, NextReleasing, PTL DEF ReleaseSpec

(* A conventional change that is taken from the staged file when tags are  *)
(* made is in the changelog.                                               *)
LEMMA PushedAreLogged ==
    ASSUME Releasing, ReleaseNext, tags' # tags,
           NEW p \in AllPackages, NEW c \in Conventional(main.staged[p].commits) \ main'.staged[p].commits
    PROVE  \E s \in main'.log : s.package = p /\ c \in s.commits
  <1>1. Push /\ main = job.base
    BY DEF ReleaseNext, JobStep, Merge, PrepareRelease, StartJob, SkipPackage, PublishFile, EndJob, Push,
       Announce, Abort
  <1>2. /\ job.done \subseteq job.targets /\ job # NoJob
        /\ main'.staged = UpdateStaged(main.staged)
        /\ main'.log = main.log \cup {s \in job.sections : s.package \in job.done}
    BY <1>1, ReleaseCommitIs
  <1>3. p \in job.done  BY <1>2 DEF UpdateStaged, Conventional
  <1>4. PICK s : s = [package |-> p, version |-> VersionOf(job.next, p),
                      commits |-> Conventional(job.base.staged[p].commits)]
    OBVIOUS
  <1>5. s \in job.sections  BY <1>2, <1>3, <1>4 DEF Releasing, JobInOrder
  <1>6. s.package = p /\ c \in s.commits  BY <1>1, <1>4
  <1>7. QED  BY <1>2, <1>3, <1>5, <1>6

(* prepare-release and release: a conventional change that is staged       *)
(* leaves the staged file only with a release that has it in its           *)
(* changelog, and no change is in the changelog of two versions.           *)
THEOREM ChangesAreReleasedOnce == ReleaseSpec => EachChangeReleasedOnce
  <1> DEFINE Once ==
        /\ tags' # tags =>
              \A p \in AllPackages :
                  \A c \in Conventional(main.staged[p].commits) \ main'.staged[p].commits :
                      \E s \in main'.log : s.package = p /\ c \in s.commits
        /\ main'.log \subseteq main'.rootLog
        /\ \A s1, s2 \in main'.log :
              s1.package = s2.package /\ s1 # s2 => s1.commits \cap s2.commits = {}
  <1>1. ASSUME Releasing, Releasing', [ReleaseNext]_releaseVars PROVE [Once]_releaseVars
    <2>1. CASE ReleaseNext
      <3>1. BranchInOrder'  BY <1>1 DEF Releasing
      <3>2. QED  BY <1>1, <2>1, <3>1, PushedAreLogged DEF BranchInOrder
    <2>2. CASE UNCHANGED releaseVars  BY <2>2
    <2>3. QED  BY <1>1, <2>1, <2>2
  <1> HIDE DEF Once
  <1>2. ReleaseSpec => [][Once]_releaseVars
    BY <1>1, InitReleasing, NextReleasing, PTL DEF ReleaseSpec
  <1>3. QED  BY <1>2 DEF EachChangeReleasedOnce, Once
-----------------------------------------------------------------------------
(* Releases only rise.  What a job will write is newer than what it began  *)
(* with, and main is not older than its tags; a push only happens on what  *)
(* the job began with.                                                     *)

LEMMA NewerIs ==
    ASSUME NEW v \in Version, NEW w \in Version
    PROVE  Newer(v, w) <=> \/ v[1] > w[1]
                           \/ v[1] = w[1] /\ v[2] > w[2]
                           \/ v[1] = w[1] /\ v[2] = w[2] /\ v[3] > w[3]
  <1>1. \A i \in 1..3 : v[i] \in Nat /\ w[i] \in Nat  BY DEF Version
  <1>2. 1..3 = {1, 2, 3}  OBVIOUS
  <1>3. 1..(1 - 1) = {} /\ 1..(2 - 1) = {1} /\ 1..(3 - 1) = {1, 2}  OBVIOUS
  <1>4. Newer(v, w) <=> \E i \in {1, 2, 3} : v[i] > w[i] /\ \A j \in 1..(i - 1) : v[j] = w[j]
    BY <1>2 DEF Newer
  <1>5. QED  BY <1>3, <1>4

LEMMA NewerTransitive ==
    ASSUME NEW u \in Version, NEW v \in Version, NEW w \in Version, Newer(u, v), Newer(v, w)
    PROVE  Newer(u, w)
  <1>1. \A i \in 1..3 : u[i] \in Nat /\ v[i] \in Nat /\ w[i] \in Nat  BY DEF Version
  <1>2. QED  BY <1>1, NewerIs

LEMMA BumpIsNewer ==
    ASSUME NEW v \in Version, NEW rule \in Rules
    PROVE  Newer(Bump(v, rule), v)
  <1>1. v[1] \in Nat /\ v[2] \in Nat /\ v[3] \in Nat  BY DEF Version
  <1>2. Bump(v, rule) \in Version  BY BumpIsRelease
  <1>3. CASE rule = "major"  BY <1>1, <1>2, <1>3, NewerIs DEF Bump
  <1>4. CASE rule = "minor"  BY <1>1, <1>2, <1>4, NewerIs DEF Bump
  <1>5. CASE rule = "patch"  BY <1>1, <1>2, <1>5, NewerIs DEF Bump
  <1>6. QED  BY <1>3, <1>4, <1>5 DEF Rules

LEMMA NextVersionsNewer ==
    ASSUME Releasing, NEW targets \in SUBSET Targets,
           NEW p \in targets, NEW f \in ToSet(FilesOf[p])
    PROVE  Newer(NextVersions(targets, FALSE)[f], main.versions[f])
  <1> DEFINE q == CHOOSE q \in targets : f \in ToSet(FilesOf[q])
  <1>1. q \in targets  OBVIOUS
  <1>2. p \in AllPackages /\ f \in Files  BY FilesOfPackage DEF Targets
  <1>3. NextVersions(targets, FALSE)[f] = NextVersion(f, q, FALSE)
    BY <1>2 DEF NextVersions
  <1> HIDE DEF q
  <1>4. q \in AllPackages /\ Conventional(main.staged[q].commits) # {}
    BY <1>1 DEF Targets, IsTarget
  <1>5. main.staged[q].rule \in Rules
    BY <1>4 DEF Conventional, Releasing, BranchInOrder
  <1>6. main.versions[f] \in Version  BY <1>2 DEF Releasing, ReleaseTyped, Branch
  <1>7. QED  BY <1>3, <1>5, <1>6, BumpIsNewer DEF NextVersion

JobRises ==
    job # NoJob /\ ~ job.prerelease =>
        \A p \in job.targets : \A f \in ToSet(FilesOf[p]) : Newer(job.next[f], job.base.versions[f])

TagsBelowMain ==
    \A t \in tags :
        /\ t.package \in AllPackages /\ t.version \in Version
        /\ \/ t.version = VersionOf(main.versions, t.package)
           \/ Newer(VersionOf(main.versions, t.package), t.version)

Rising == JobRises /\ TagsBelowMain /\ \A f \in Files : main.versions[f][4] = 0

LEMMA InitRising == ReleaseInit => Rising
  BY ReleaseAssumption DEF ReleaseInit, Rising, JobRises, TagsBelowMain

(* What a push writes: the versions of the job, newer than those of main.  *)
LEMMA PushRises ==
    ASSUME Releasing, Rising, Push, main = job.base
    PROVE  /\ \A f \in Files :
                 main'.versions[f] # main.versions[f] =>
                     Newer(main'.versions[f], main.versions[f]) /\ main'.versions[f][4] = 0
           /\ \A p \in job.done : Newer(VersionOf(job.next, p), VersionOf(main.versions, p))
  <1>1. /\ job \in ReleaseJob /\ job # NoJob /\ ~ job.prerelease
        /\ job.done \subseteq job.targets /\ job.targets \subseteq AllPackages
    BY ReleaseCommitIs
  <1>2. \A p \in job.done : \A f \in ToSet(FilesOf[p]) :
            Newer(job.next[f], main.versions[f]) /\ job.next[f][4] = 0
    BY <1>1 DEF Rising, JobRises, Releasing, JobInOrder
  <1>3. ASSUME NEW f \in Files, main'.versions[f] # main.versions[f]
        PROVE  Newer(main'.versions[f], main.versions[f]) /\ main'.versions[f][4] = 0
    <2>1. PICK p \in AllPackages : f \in ToSet(FilesOf[p])  BY DEF Files
    <2>2. p \in job.done /\ main'.versions[f] = job.next[f]
      BY <1>3, <2>1, VersionAfterPush
    <2>3. QED  BY <1>2, <2>1, <2>2
  <1>4. ASSUME NEW p \in job.done
        PROVE  Newer(VersionOf(job.next, p), VersionOf(main.versions, p))
    BY <1>1, <1>2, FilesOfPackage DEF VersionOf
  <1>5. QED  BY <1>3, <1>4

(* All but a push leaves the versions of main and its tags alone. *)
LEMMA OnlyPushReleases ==
    ASSUME Releasing, [ReleaseNext]_releaseVars, ~ (Push /\ main = job.base)
    PROVE  UNCHANGED <<tags, main.versions>>
  <1>1. main \in Branch  BY DEF Releasing, ReleaseTyped
  <1>2. ASSUME NEW c \in Commits, Merge(c)
        PROVE  UNCHANGED <<tags, main.versions>>
    BY <1>1, <1>2 DEF Merge, Branch
  <1>3. ASSUME NEW selected \in [AllPackages -> SUBSET Commits], PrepareRelease(selected)
        PROVE  UNCHANGED <<tags, main.versions>>
    BY <1>1, <1>3 DEF PrepareRelease, Branch
  <1>4. CASE ~ ((\E c \in Commits : Merge(c)) \/ \E selected \in [AllPackages -> SUBSET Commits] : PrepareRelease(selected))
    BY <1>4 DEF ReleaseNext, JobStep, StartJob, SkipPackage, PublishFile, EndJob, Push, Announce, Abort, releaseVars
  <1>5. QED  BY <1>2, <1>3, <1>4

LEMMA NextJobRises ==
    ASSUME Releasing, Rising, [ReleaseNext]_releaseVars
    PROVE  JobRises'
  <1>1. ASSUME NEW prerelease \in BOOLEAN, NEW selected, StartJob(prerelease, selected)
        PROVE  JobRises'
    <2> DEFINE targets == SelectTargets(selected)
    <2>1. targets \in SUBSET Targets  BY DEF SelectTargets
    <2>2. /\ job'.prerelease = prerelease /\ job'.targets = targets /\ job'.base = main
          /\ job'.next = NextVersions(targets, prerelease)
      BY <1>1 DEF StartJob
    <2> HIDE DEF targets
    <2>3. CASE prerelease  BY <2>2, <2>3 DEF JobRises
    <2>4. CASE ~ prerelease
      <3>1. prerelease = FALSE  BY <2>4
      <3>2. QED  BY <2>1, <2>2, <3>1, NextVersionsNewer DEF JobRises
    <2>5. QED  BY <2>3, <2>4
  <1>2. ASSUME job' # NoJob, job # NoJob, UNCHANGED <<job.prerelease, job.targets, job.next, job.base>>
        PROVE  JobRises'
    BY <1>2 DEF Rising, JobRises
  <1>3. ASSUME job' = NoJob PROVE JobRises'  BY <1>3 DEF JobRises
  <1>4. ASSUME SkipPackage \/ PublishFile \/ EndJob \/ Push \/ Announce \/ Abort
        PROVE  JobRises'
    <2>1. job # NoJob
      <3>1. job.step \in {"publish", "announce"} \/ job # NoJob
        BY <1>4 DEF SkipPackage, PublishFile, EndJob, Push, Announce, Abort
      <3>2. QED  BY <3>1 DEF NoJob
    <2>2. job \in ReleaseJob  BY <2>1 DEF Releasing, ReleaseTyped
    <2>3. job' = NoJob \/ (job' # NoJob /\ UNCHANGED <<job.prerelease, job.targets, job.next, job.base>>)
      BY <1>4, <2>1, <2>2 DEF SkipPackage, PublishFile, EndJob, Push, Announce, Abort, NoJob, ReleaseJob
    <2>4. QED  BY <1>2, <1>3, <2>1, <2>3
  <1>5. UNCHANGED job => JobRises'  BY DEF Rising, JobRises
  <1>6. ASSUME (\E c \in Commits : Merge(c))
               \/ (\E selected \in [AllPackages -> SUBSET Commits] : PrepareRelease(selected))
               \/ UNCHANGED releaseVars
        PROVE  UNCHANGED job
    BY <1>6 DEF Merge, PrepareRelease, releaseVars
  <1>7. QED  BY <1>1, <1>4, <1>5, <1>6 DEF ReleaseNext, JobStep

LEMMA NextRising == Releasing /\ Rising /\ [ReleaseNext]_releaseVars => Rising'
  <1> SUFFICES ASSUME Releasing, Rising, [ReleaseNext]_releaseVars PROVE Rising'  OBVIOUS
  <1>1. CASE Push /\ main = job.base
    <2>1. /\ job \in ReleaseJob /\ job # NoJob
          /\ job.done \subseteq job.targets /\ job.targets \subseteq AllPackages
          /\ tags' = tags \cup NewTags
      BY <1>1, ReleaseCommitIs
    <2>2. \A f \in Files : main'.versions[f][4] = 0  BY <1>1, PushRises DEF Rising
    <2>3. ASSUME NEW p \in AllPackages
          PROVE  VersionOf(main.versions, p) \in Version /\ VersionOf(main.versions, p)' \in Version
      <3>1. main \in Branch /\ main' \in Branch  BY <1>1, ReleaseCommitIs DEF Releasing, ReleaseTyped
      <3>2. QED  BY <3>1, FilesOfPackage DEF VersionOf, Branch
    <2>4. ASSUME NEW t \in tags'
          PROVE  /\ t.package \in AllPackages /\ t.version \in Version
                 /\ \/ t.version = VersionOf(main.versions, t.package)'
                    \/ Newer(VersionOf(main.versions, t.package)', t.version)
      <3>1. CASE t \in NewTags
        <4>1. PICK p \in job.done : t.package = p /\ t.version = VersionOf(job.next, p)
          BY <3>1 DEF NewTags
        <4>2. VersionOf(main.versions, p)' = VersionOf(job.next, p)  BY <1>1, <2>1, VersionAfterPush
        <4>3. QED  BY <2>1, <2>3, <4>1, <4>2
      <3>2. CASE t \in tags
        <4> DEFINE p == t.package
                   v == VersionOf(main.versions, p)
        <4>1. p \in AllPackages /\ t.version \in Version /\ (t.version = v \/ Newer(v, t.version))
          BY <3>2 DEF Rising, TagsBelowMain
        <4>2. CASE p \in job.done
          <5>1. v' = VersionOf(job.next, p)  BY <1>1, <4>1, <4>2, VersionAfterPush
          <5>2. Newer(v', v)  BY <1>1, <4>2, <5>1, PushRises
          <5>3. v \in Version /\ v' \in Version  BY <2>3, <4>1
          <5> HIDE DEF v
          <5>4. QED  BY <4>1, <5>2, <5>3, NewerTransitive DEF v
        <4>3. CASE p \notin job.done
          <5>1. v' = v  BY <1>1, <4>1, <4>3, VersionAfterPush
          <5>2. QED  BY <4>1, <5>1
        <4>4. QED  BY <4>2, <4>3
      <3>3. QED  BY <2>1, <3>1, <3>2
    <2>5. QED  BY <2>2, <2>4, NextJobRises DEF Rising, TagsBelowMain
  <1>2. CASE ~ (Push /\ main = job.base)
    <2>1. UNCHANGED <<tags, main.versions>>  BY <1>2, OnlyPushReleases
    <2>2. QED  BY <2>1, NextJobRises DEF Rising, TagsBelowMain, VersionOf
  <1>3. QED  BY <1>1, <1>2

(* xtask release: main only moves to later versions and never to a         *)
(* prerelease, and each tag of a package is later than those before it:    *)
(* of jobs that overtake each other only one pushes, and what failed or    *)
(* was lost leaves no version on main.                                     *)
THEOREM ReleasesAlwaysRise == ReleaseSpec => ReleasesRise
  <1> DEFINE Rise ==
        /\ \A f \in Files :
            main'.versions[f] # main.versions[f] =>
                Newer(main'.versions[f], main.versions[f]) /\ main'.versions[f][4] = 0
        /\ \A t \in tags' \ tags : \A u \in tags' \ {t} :
            t.package = u.package => u \in tags /\ Newer(t.version, u.version)
  <1>1. ASSUME Releasing, Rising, [ReleaseNext]_releaseVars PROVE Rise
    <2>1. CASE ~ (Push /\ main = job.base)  BY <1>1, <2>1, OnlyPushReleases
    <2>2. CASE Push /\ main = job.base
      <3>1. ASSUME NEW t \in tags' \ tags, NEW u \in tags' \ {t}, t.package = u.package
            PROVE  u \in tags /\ Newer(t.version, u.version)
        <4>1. /\ tags' = tags \cup NewTags /\ job \in ReleaseJob
              /\ job.done \subseteq job.targets /\ job.targets \subseteq AllPackages
          BY <1>1, <2>2, ReleaseCommitIs
        <4>2. PICK p \in job.done :
                  t = [package |-> p, version |-> VersionOf(job.next, p), commits |-> job.base.commits]
          BY <3>1, <4>1 DEF NewTags
        <4>3. u \in tags
          <5>1. u \in NewTags => u = t  BY <3>1, <4>2 DEF NewTags
          <5>2. QED  BY <3>1, <4>1, <5>1
        <4>4. /\ u.version \in Version
              /\ u.version = VersionOf(main.versions, p) \/ Newer(VersionOf(main.versions, p), u.version)
          BY <1>1, <3>1, <4>2, <4>3 DEF Rising, TagsBelowMain
        <4>5. Newer(t.version, VersionOf(main.versions, p))  BY <1>1, <2>2, <4>2, PushRises
        <4>6. t.version \in Version /\ VersionOf(main.versions, p) \in Version
          <5>1. p \in AllPackages /\ job.next \in [Files -> Version] /\ main.versions \in [Files -> Version]
            BY <1>1, <4>1 DEF ReleaseJob, Releasing, ReleaseTyped, Branch
          <5>2. QED  BY <4>2, <5>1, FilesOfPackage DEF VersionOf
        <4>7. QED  BY <4>3, <4>4, <4>5, <4>6, NewerTransitive
      <3>2. QED  BY <1>1, <2>2, <3>1, PushRises
    <2>3. QED  BY <2>1, <2>2
  <1>2. QED
    BY <1>1, InitReleasing, NextReleasing, InitRising, NextRising, PTL DEF ReleaseSpec, ReleasesRise
=============================================================================
