----------------------------- MODULE ElectronApp -----------------------------
(***************************************************************************)
(* packages/electron: webviewBundle() declares the schemes of an app and   *)
(* registers a handler for each once Electron is ready, and the handlers   *)
(* of the IPC channels.  Windows then load URLs of the schemes and, with   *)
(* the preload script, call the source, the remote and the updater.  What  *)
(* they ask for runs as calls of the native library (module                *)
(* NodeCallbacks).  Electron itself is external.                           *)
(***************************************************************************)
EXTENDS NodeCallbacks

CONSTANT Schemes

VARIABLES ready,        \* Electron: app.whenReady() has resolved
          protocol,     \* scheme -> how far registerProtocol is
          registered,   \* whenProtocolRegistered(): "none", "pending", "resolved" or "rejected"
          app,          \* what the app is: [updater, legacy, preload]
          call          \* what windows have asked for

electronVars == <<ready, protocol, registered, app, call, callbackVars>>

NoCall == [kind |-> "none", state |-> "none", registered |-> FALSE]

\* An app has an updater or not, loads the preload script or not, and runs in
\* an Electron with protocol.handle or one before it.
ElectronInit ==
    /\ ready = FALSE
    /\ protocol = [s \in Schemes |-> "none"]
    /\ registered = "none"
    /\ app \in [updater : BOOLEAN, legacy : BOOLEAN, preload : BOOLEAN]
    /\ call = [c \in Calls |-> NoCall]
    /\ CallbacksInit

AppReady ==
    /\ ~ready /\ ready' = TRUE
    /\ UNCHANGED <<protocol, registered, app, call, callbackVars>>

\* The constructor: every scheme is declared at once, which Electron refuses
\* when it is ready already.  registerIpc follows in the same step.
WebviewBundle ==
    /\ registered = "none"
    /\ registered' = "pending"
    /\ protocol' = [s \in Schemes |-> IF ready THEN "failed" ELSE "declared"]
    /\ UNCHANGED <<ready, app, call, callbackVars>>

\* registerProtocol after whenReady: the handler is built, which may wait for
\* hosts, and registered, unless building it fails.
BuildHandler(s) ==
    /\ ready /\ protocol[s] = "declared"
    /\ protocol' = [protocol EXCEPT ![s] = "building"]
    /\ UNCHANGED <<ready, registered, app, call, callbackVars>>

RegisterHandler(s) ==
    /\ protocol[s] = "building"
    /\ \E result \in {"handled", "failed"} : protocol' = [protocol EXCEPT ![s] = result]
    /\ UNCHANGED <<ready, registered, app, call, callbackVars>>

\* Mutated form: a handler that is still being built counts.
AllRegisteredOrBuilding == \A s \in Schemes : protocol[s] \in {"building", "handled"}

(* Promise.all *)
AllRegistered == \A s \in Schemes : protocol[s] = "handled"

SettleRegistration ==
    /\ registered = "pending"
    /\ \/ AllRegistered /\ registered' = "resolved"
       \/ (\E s \in Schemes : protocol[s] = "failed") /\ registered' = "rejected"
    /\ UNCHANGED <<ready, protocol, app, call, callbackVars>>

-----------------------------------------------------------------------------
(* What windows ask for                                                    *)

Ask(c, kind, state, reports) ==
    /\ call[c].state = "none"
    /\ call' = [call EXCEPT ![c] = [kind |-> kind, registered |-> registered = "resolved", state |-> state]]
    /\ IF state = "pending" THEN Started(c, reports) ELSE UNCHANGED op
    /\ UNCHANGED <<ready, protocol, registered, app, queue, lost>>

\* A URL is loaded: Electron knows no handler, or calls the one of the scheme.
\* That of an Electron before protocol.handle makes a Request first, outside the
\* try: when it throws, for a method or a header that a Request can not have,
\* nothing calls back and the window waits on.
Fetch(c, s) ==
    \E state \in IF protocol[s] # "handled" THEN {"refused"}
               ELSE IF app.legacy THEN {"pending", "dropped"} ELSE {"pending"} :
        Ask(c, "fetch", state, 0)

(* The channels of each scope, and those whose call may report progress. *)
IpcChannels ==
    [source  |-> {"listBundles", "loadVersion", "updateVersion", "filepath"},
     remote  |-> {"listBundles", "getInfo", "download", "downloadVersion"},
     updater |-> {"listRemotes", "getUpdate", "downloadUpdate"}]

Downloads == {"download", "downloadVersion", "downloadUpdate"}

\* preload(): the window gets a function for each channel.
BuildApi(scope) == IpcChannels[scope]

\* The renderer's api: without the preload script every function throws.
Api(scope) == IF app.preload THEN BuildApi(scope) ELSE {}

\* registerIpc: neither remote nor updater without an updater in the config.
Handlers(scope) ==
    IF registered # "none" /\ (scope # "source" => app.updater) THEN IpcChannels[scope] ELSE {}

Invoke(c, scope, channel) ==
    \E reports \in IF channel \in Downloads THEN 0..MaxChunks ELSE {0} :
        Ask(c, "ipc", IF channel \in Api(scope) \cap Handlers(scope) THEN "pending" ELSE "refused", reports)

\* What becomes of a call that fails: status 500 or error -2 for a request, the
\* error of an IPC call.  When the app's onError throws, the handler's promise is
\* rejected, and without protocol.handle nothing calls back.
Failures(kind) ==
    IF kind = "ipc" THEN {"error"}
    ELSE IF app.legacy THEN {"error", "dropped"} ELSE {"500", "error"}

\* The native call has settled: the window gets the response or the value, or
\* what becomes of a failure.
Answer(c) ==
    /\ call[c].state = "pending" /\ op[c].pc \in {"resolved", "rejected"}
    /\ \E state \in IF op[c].pc = "resolved" THEN {"answered"} ELSE Failures(call[c].kind) :
          call' = [call EXCEPT ![c].state = state]
    /\ op' = [op EXCEPT ![c] = NoOp]
    /\ UNCHANGED <<ready, protocol, registered, app, queue, lost>>

Settled == {"refused", "answered", "500", "error"}

\* The window goes on, or is closed while it waits for what is not coming; its
\* next request takes the place of this one.
Forget(c) ==
    /\ call[c].state \in Settled \cup {"dropped"}
    /\ call' = [call EXCEPT ![c] = NoCall]
    /\ UNCHANGED <<ready, protocol, registered, app, callbackVars>>

ElectronNext ==
    \/ AppReady \/ WebviewBundle \/ SettleRegistration
    \/ \E s \in Schemes : BuildHandler(s) \/ RegisterHandler(s)
    \/ \E c \in Calls :
          \/ \E s \in Schemes : Fetch(c, s)
          \/ \E scope \in DOMAIN IpcChannels : \E channel \in IpcChannels[scope] : Invoke(c, scope, channel)
          \/ Answer(c) \/ Forget(c)
    \/ CallbacksNext /\ UNCHANGED <<ready, protocol, registered, app, call>>

\* The functions an app gives for building handlers settle.
ElectronFairness ==
    /\ CallbacksFairness
    /\ WF_electronVars(SettleRegistration)
    /\ \A s \in Schemes : WF_electronVars(BuildHandler(s)) /\ WF_electronVars(RegisterHandler(s))
    /\ \A c \in Calls : WF_electronVars(Answer(c))

ElectronSpec == ElectronInit /\ [][ElectronNext]_electronVars /\ ElectronFairness

-----------------------------------------------------------------------------
(* Properties                                                              *)

\* Once whenProtocolRegistered() has resolved, no URL of any scheme of the app
\* is refused for want of a handler (protocol.ts:47-92, webview-bundle.ts:35-39).
\* Before that one may be, even when Electron is ready.
RegisteredMeansServed ==
    \A c \in Calls : call[c].kind = "fetch" /\ call[c].registered => call[c].state # "refused"

\* Nothing is waited for that cannot come: what a window waits for is a call
\* the library has, and a thread that waits for a function of JavaScript has it
\* in the queue, unless the notification came before it waited (js.rs:46-50).
\* It is the one or the other, so that a lost notification is lost for good
\* and no function wakes a thread that waits for another.
WaitsAreNotified ==
    \A c \in Calls :
        /\ call[c].state = "pending" <=> op[c].pc # "none"
        /\ op[c].pc \in {"calling", "waiting"} <=> (c \in lost \/ \E i \in DOMAIN queue : c \in queue[i])
        /\ \A i, j \in DOMAIN queue : c \in queue[i] => c \notin lost /\ (c \in queue[j] => i = j)

\* The registration settles, also when a handler cannot be built, and whatever
\* a window asks for is answered in the end.  There are two exceptions.  Before
\* protocol.handle, a request is not when making the Request or the app's
\* onError throws (protocol.ts:75, 87).  And a call is not when a notification
\* was lost, its own or as many as there are threads (js.rs:46-50).
CallsSettle ==
    /\ ready /\ registered = "pending" ~> registered \in {"resolved", "rejected"}
    /\ \A c \in Calls :
          call[c].state # "none" ~>
              \/ call[c].state \in Settled \cup {"none"}
              \/ app.legacy /\ call[c].kind = "fetch" /\ call[c].state = "dropped"
              \/ c \in lost \/ Cardinality(lost) >= Workers
=============================================================================
