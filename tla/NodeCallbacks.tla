---------------------------- MODULE NodeCallbacks ----------------------------
(***************************************************************************)
(* packages/node: an asynchronous call of the native library runs on one   *)
(* of the threads of its runtime.  A download reports its progress to a    *)
(* function of the JavaScript thread, and its own thread waits until that  *)
(* has returned: JsCallback::invoke_sync (js.rs) queues the function, and  *)
(* takes the lock and waits on the condition variable after that.          *)
(***************************************************************************)
EXTENDS Naturals, FiniteSets, Sequences

CONSTANTS Calls,      \* calls of the library that may be under way
          Workers,    \* threads of the runtime
          MaxChunks,  \* bound: reports of one download
          MaxQueue    \* bound: functions in the queue

VARIABLES op,      \* call -> where it stands, and the reports it still has to make
          queue,   \* functions for the JavaScript thread: {call}, {} when it waits no longer
          lost     \* calls whose notification came before they waited for it

callbackVars == <<op, queue, lost>>

NoOp == [pc |-> "none", reports |-> 0]

CallbacksInit ==
    /\ op = [c \in Calls |-> NoOp]
    /\ queue = << >>
    /\ lost = {}

\* A call holds a thread while it waits for a function of JavaScript.
Blocked == {c \in Calls : op[c].pc \in {"calling", "waiting", "woken"}}

ThreadFree == Cardinality(Blocked) < Workers

\* The call is handed to the runtime (the primed value of op).
Started(c, reports) == op' = [op EXCEPT ![c] = [pc |-> "running", reports |-> reports]]

\* on_download: the function is queued ...
Report(c) ==
    /\ op[c].pc = "running" /\ op[c].reports > 0 /\ ThreadFree /\ Len(queue) < MaxQueue
    /\ op' = [op EXCEPT ![c].pc = "calling"]
    /\ queue' = Append(queue, {c})
    /\ UNCHANGED lost

\* ... and the thread waits, without looking whether it has returned.
Wait(c) ==
    /\ op[c].pc = "calling"
    /\ op' = [op EXCEPT ![c].pc = "waiting"]
    /\ UNCHANGED <<queue, lost>>

\* Mutated form: the thread is only notified of a value.
NotifiesOfValue(result) == result = "value"

(* The result is stored, be it a value or an exception, and the thread notified. *)
Notifies(result) == result \in {"value", "exception"}

\* The JavaScript thread runs the next function.  A thread that does not wait
\* yet misses the notification.
RunCallback ==
    /\ queue # << >>
    /\ \E result \in {"value", "exception"} :
          LET notified == {c \in Head(queue) : Notifies(result)}
          IN  /\ op' = [c \in Calls |-> IF c \in notified /\ op[c].pc = "waiting"
                                      THEN [op[c] EXCEPT !.pc = "woken"] ELSE op[c]]
              /\ lost' = lost \cup {c \in notified : op[c].pc = "calling"}
    /\ queue' = Tail(queue)

(* A condition variable may wake a thread without a notification. *)
WakeSpuriously(c) ==
    /\ op[c].pc = "waiting"
    /\ op' = [op EXCEPT ![c].pc = "woken"]
    /\ lost' = lost \ {c}
    /\ queue' = [i \in DOMAIN queue |-> queue[i] \ {c}]

\* invoke_sync returns a value or an error, which the download does not look at.
ReturnFromCallback(c) ==
    /\ op[c].pc = "woken"
    /\ op' = [op EXCEPT ![c] = [pc |-> "running", reports |-> @.reports - 1]]
    /\ UNCHANGED <<queue, lost>>

\* The call is over; one that fails may do so before it has reported everything.
Finish(c) ==
    /\ op[c].pc = "running" /\ ThreadFree
    /\ \/ op[c].reports = 0 /\ op' = [op EXCEPT ![c].pc = "resolved"]
       \/ op' = [op EXCEPT ![c].pc = "rejected"]
    /\ UNCHANGED <<queue, lost>>

CallbacksNext ==
    \/ RunCallback
    \/ \E c \in Calls : Report(c) \/ Wait(c) \/ WakeSpuriously(c) \/ ReturnFromCallback(c) \/ Finish(c)

\* Both sides run on: the JavaScript thread takes what is queued, a thread that
\* may go on does, and a call that is ready gets one of the free threads.
CallbacksFairness ==
    /\ WF_callbackVars(RunCallback)
    /\ \A c \in Calls :
          /\ WF_callbackVars(Wait(c)) /\ WF_callbackVars(ReturnFromCallback(c))
          /\ SF_callbackVars(Report(c)) /\ SF_callbackVars(Finish(c))
=============================================================================
