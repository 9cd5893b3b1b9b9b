----------------------------- MODULE LocalProxy -----------------------------
(***************************************************************************)
(* LocalProtocol (packages/core/src/protocol/local.rs): during development *)
(* the webview's requests are sent on to a local server, and every answer  *)
(* is kept in a map from the server's URL to be given again when the       *)
(* server says 304 Not Modified.  Requests run concurrently on one         *)
(* LocalProtocol; the map is shared and nothing ever leaves it.            *)
(*                                                                         *)
(* The server is not part of the repository.  It is modelled as the one of *)
(* the protocol's own test behaves: it may answer 304 to a GET when the    *)
(* resource has not changed since it last sent it in full.                 *)
(***************************************************************************)
EXTENDS Naturals

CONSTANTS Tasks,     \* requests that may be under way at once
          Hosts,     \* hosts that the resolver maps to a server
          Unmapped,  \* a host without a mapping
          Server,    \* the server of a mapped host, without trailing slashes
          Paths,     \* paths with their query, as the webview writes them
          Resource,  \* what the decoded text of a path names at the server
          Methods,   \* a subset of {"GET", "HEAD"}
          MaxContentEdits,  \* bound: changes of a resource, until all stay as they are
          Nothing    \* stands for a missing URL, response or body

VARIABLES content,   \* the server: how often the resource of a URL has changed
          sent,      \* the server: the content it last sent in full, or Nothing
          cached,    \* LocalProtocol::cache
          task,      \* the requests
          shared     \* history: URLs that were asked for with another method
                     \* than GET, or by two requests at a time

localVars == <<content, sent, cached, task, shared>>

Uris == (Hosts \cup {Unmapped}) \X Paths

\* Two hosts may be mapped to one server, and paths that differ in their text
\* name one resource when they are decoded: /a.html, //a.html and /%61.html, or
\* /a?b and /a%3Fb.  (A decoded path with a # in it is not considered.)
Urls == {Server[h] : h \in Hosts} \X {Resource[p] : p \in Paths}

Edition == 0..MaxContentEdits

\* A body is the resource of a URL, after some of its changes.
Bodies == [url : Urls, edit : Edition]

Responses == [status : {200, 304}, body : Bodies \cup {Nothing}]

ASSUME LocalAssumption ==
    /\ MaxContentEdits \in Nat
    /\ Methods \subseteq {"GET", "HEAD"}
    /\ Unmapped \notin Hosts
    /\ Nothing \notin Urls \cup Edition \cup Bodies \cup Responses

\* Mutated form: the URL keeps the path and forgets the host.
UrlOfPath(uri) ==
    IF uri[1] \in Hosts THEN <<Server[CHOOSE h \in Hosts : TRUE], Resource[uri[2]]>> ELSE Nothing

(* get_localhost_uri: the server that the host is mapped to, and the path of *)
(* the URI: percent-decoded, without leading slashes, and with its query     *)
LocalhostUri(uri) ==
    IF uri[1] \in Hosts THEN <<Server[uri[1]], Resource[uri[2]]>> ELSE Nothing

IdleTask == [pc |-> "idle", uri |-> Nothing, method |-> "GET", url |-> Nothing,
             since |-> 0, response |-> Nothing]

\* A request that could not be answered.
FailedTask == [IdleTask EXCEPT !.pc = "error"]

LocalInit ==
    /\ content = [u \in Urls |-> 0]
    /\ sent = [u \in Urls |-> Nothing]
    /\ cached = [u \in Urls |-> Nothing]
    /\ task = [t \in Tasks |-> IdleTask]
    /\ shared = {}

-----------------------------------------------------------------------------
(* The server                                                              *)

EditResource(url) ==
    /\ \A u \in Urls : content[u] < MaxContentEdits
    /\ content' = [content EXCEPT ![url] = @ + 1]
    /\ UNCHANGED <<sent, cached, task, shared>>

\* The response to a request that has reached the server.
FullResponse(t) ==
    /\ task[t].pc = "send"
    /\ LET u == task[t].url
       IN  /\ task' = [task EXCEPT ![t].pc = "status",
                         ![t].response = [status |-> 200,
                            body |-> IF task[t].method = "HEAD" THEN Nothing
                                     ELSE [url |-> u, edit |-> content[u]]]]
    /\ UNCHANGED <<content, sent, cached, shared>>

NotModified(t) ==
    /\ task[t].pc = "send"
    /\ task[t].method = "GET"
    /\ sent[task[t].url] = content[task[t].url]
    /\ task' = [task EXCEPT ![t].pc = "status",
                            ![t].response = [status |-> 304, body |-> Nothing]]
    /\ UNCHANGED <<content, sent, cached, shared>>

\* The last byte of a response has gone out.
Deliver(t) ==
    /\ task[t].pc = "transfer"
    /\ sent' = IF task[t].response.body = Nothing THEN sent
               ELSE [sent EXCEPT ![task[t].url] = task[t].response.body.edit]
    /\ task' = [task EXCEPT ![t].pc = "body"]
    /\ UNCHANGED <<content, cached, shared>>

-----------------------------------------------------------------------------
(* LocalProtocol::handle                                                   *)

\* A request that comes in: it fails when its host is not mapped.
NewTask(uri, method) ==
    IF LocalhostUri(uri) = Nothing THEN FailedTask
    ELSE [IdleTask EXCEPT !.pc = "send", !.uri = uri, !.method = method,
                          !.url = LocalhostUri(uri), !.since = content[LocalhostUri(uri)]]

Begin(t, uri, method) ==
    /\ task[t].pc = "idle"
    /\ task' = [task EXCEPT ![t] = NewTask(uri, method)]
    /\ shared' = shared \cup
           {u \in Urls : u = LocalhostUri(uri) /\ (method # "GET" \/ \E s \in Tasks : task[s].url = u)}
    /\ UNCHANGED <<content, sent, cached>>

\* The status has arrived: a 304 is answered from the map at once, if the map
\* has an entry; every other response, and a 304 without an entry, is read to
\* its end.
OnStatus(t) ==
    /\ task[t].pc = "status"
    /\ IF task[t].response.status = 304 /\ cached[task[t].url] # Nothing
       THEN task' = [task EXCEPT ![t].pc = "done", ![t].response = cached[task[t].url]]
       ELSE task' = [task EXCEPT ![t].pc = "transfer"]
    /\ UNCHANGED <<content, sent, cached, shared>>

\* Mutated form: an entry that is there already is kept.
InsertOnce(t) ==
    /\ task[t].pc = "body"
    /\ cached' = IF cached[task[t].url] = Nothing
                THEN [cached EXCEPT ![task[t].url] = task[t].response] ELSE cached
    /\ task' = [task EXCEPT ![t].pc = "get"]
    /\ UNCHANGED <<content, sent, shared>>

\* The body has been read: the response goes into the map ...
Insert(t) ==
    /\ task[t].pc = "body"
    /\ cached' = [cached EXCEPT ![task[t].url] = task[t].response]
    /\ task' = [task EXCEPT ![t].pc = "get"]
    /\ UNCHANGED <<content, sent, shared>>

\* ... and the answer is taken out of the map again.
TakeOut(t) ==
    /\ task[t].pc = "get"
    /\ task' = [task EXCEPT ![t].pc = "done", ![t].response = cached[task[t].url]]
    /\ UNCHANGED <<content, sent, cached, shared>>

\* The server does not answer, or breaks off in the middle of the body.
Fail(t) ==
    /\ task[t].pc \in {"send", "status", "transfer"}
    /\ task' = [task EXCEPT ![t] = FailedTask]
    /\ UNCHANGED <<content, sent, cached, shared>>

Finish(t) ==
    /\ task[t].pc \in {"done", "error"}
    /\ task' = [task EXCEPT ![t] = IdleTask]
    /\ UNCHANGED <<content, sent, cached, shared>>

LocalNext ==
    \/ \E url \in Urls : EditResource(url)
    \/ \E t \in Tasks :
          \/ \E uri \in Uris, method \in Methods : Begin(t, uri, method)
          \/ FullResponse(t) \/ NotModified(t) \/ Deliver(t)
          \/ OnStatus(t) \/ Insert(t) \/ TakeOut(t) \/ Fail(t) \/ Finish(t)

LocalSpec == LocalInit /\ [][LocalNext]_localVars

-----------------------------------------------------------------------------
(* Properties                                                              *)

\* The resource a webview asks for, on the server of its host.
AskedFor(uri) == <<Server[uri[1]], Resource[uri[2]]>>

\* Whatever is answered with a body is the resource that was asked for, from the
\* server of the right host, however requests and their answers overlap, also
\* those of URIs that are one URL at the server (local.rs:35-53, 223-240).
AnswerOfItsUrl ==
    \A t \in Tasks : task[t].pc = "done" /\ task[t].response.body # Nothing =>
                        task[t].response.body.url = AskedFor(task[t].uri)

\* A GET that succeeds is answered with the resource as it was when the
\* request came in, or newer: a 304 of the server says that what it sent last
\* is still good (local.rs:111).
AnswerIsCurrent(t) ==
    task[t].pc = "done" /\ task[t].method = "GET" =>
        /\ task[t].response.body # Nothing
        /\ task[t].response.body.edit >= task[t].since

\* So it is for a resource that is only read with GET, one request at a time,
\* whatever requests for other resources do to the shared map meanwhile.  (It
\* is not so in general: an older response may be put into the map last, and
\* the response to a HEAD takes the place of the one to a GET.)
UnsharedAnswerIsCurrent ==
    \A t \in Tasks : task[t].url \notin shared => AnswerIsCurrent(t)
=============================================================================
