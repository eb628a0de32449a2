------------------------------ MODULE LongpollPoll ------------------------------
(***************************************************************************)
(* The life of one LongpollPoll (src/longpoll.cpp): the worker thread that *)
(* drives HTTP, the three streams it feeds, the threads that pull from     *)
(* them, run() with its two pump threads and callbacks, close(), the       *)
(* destructor, and the AudD client the worker borrows.                     *)
(*                                                                         *)
(* A stream is its abstract self here (EventStream, which DemuxQueue       *)
(* implements).  close_all() is four separate steps, each under its own    *)
(* lock, and several threads may be inside it at once.  Which response a   *)
(* request gets is free: the cursor and the server are LongpollDelivery's  *)
(* subject.  How long the worker sleeps is left out.                       *)
(***************************************************************************)
EXTENDS LongpollWire, Sequences

CONSTANTS Users,       \* application threads that call next_*() and close()
          Replies,     \* the responses a request may get
          MaxEvents,   \* bound: how many events the server has to tell
          StoppedBy    \* when the client may be destroyed: after "close" returned
                       \*   or after the poll is "destroyed"

Streams == {"matches", "notifications", "errors"}
Pumps == {"tm", "tn"}
Pullers == Users \cup {"main"} \cup Pumps
Threads == Pullers \cup {"worker", "owner"}

ASSUME LPAssumption ==
  /\ MaxEvents \in Nat
  /\ Replies \subseteq Responses
  /\ StoppedBy \in {"close", "destroyed"}
  /\ Users \cap {"main", "tm", "tn", "worker", "owner"} = {}

VARIABLES
  closed,      \* Impl::closed, the flag the worker polls
  items,       \* per stream: what is queued
  shut,        \* per stream: its closed_
  offered,     \* per stream: how often the worker pushed to it
  received,    \* per stream: what was pulled from it
  pulling,     \* per puller: the stream it pulls from, or "none"
  closeAt,     \* per thread: next step of its close_all(), 0 outside
  worker,      \* where the worker thread is
  reply,       \* the response the worker is looking at
  run,         \* where the thread that called run() is
  pump,        \* per pump thread of run(): "off", "pull", "callback", "done"
  poll,        \* where the owner of the LongpollPoll is
  client,      \* the AudD client: "alive" or "destroyed"
  stopped,     \* somebody other than the worker asked for the end
  closeDone    \* some close() has returned

streamVars == <<items, shut, offered, received>>
runVars == <<run, pump>>
vars == <<closed, items, shut, offered, received, pulling, closeAt, worker,
          reply, run, pump, poll, client, stopped, closeDone>>

NoReply == Reply("empty", {}, FALSE, NoStamp)

\* start_longpoll_ has made the Impl and started the worker.
Init ==
  /\ closed = FALSE
  /\ items = [s \in Streams |-> <<>>]
  /\ shut = [s \in Streams |-> FALSE]
  /\ offered = [s \in Streams |-> 0]
  /\ received = [s \in Streams |-> <<>>]
  /\ pulling = [t \in Pullers |-> "none"]
  /\ closeAt = [t \in Threads |-> 0]
  /\ worker = "top"
  /\ reply = NoReply
  /\ run = "idle"
  /\ pump = [t \in Pumps |-> "off"]
  /\ poll = "open"
  /\ client = "alive"
  /\ stopped = FALSE
  /\ closeDone = FALSE

-----------------------------------------------------------------------------
(* Streams *)

\* Mutant: a stream that is shut still accepts.
PushToShut(s) ==
  /\ offered' = [offered EXCEPT ![s] = @ + 1]
  /\ items' = [items EXCEPT ![s] = Append(@, offered[s] + 1)]
  /\ UNCHANGED <<shut, received>>

\* DemuxQueue::push.
PushTo(s) ==
  /\ offered' = [offered EXCEPT ![s] = @ + 1]
  /\ items' = IF shut[s] THEN items
              ELSE [items EXCEPT ![s] = Append(@, offered[s] + 1)]
  /\ UNCHANGED <<shut, received>>

\* DemuxQueue::pull returns a value to thread t.
Receive(t, s) ==
  /\ pulling[t] = s
  /\ items[s] # <<>>
  /\ received' = [received EXCEPT ![s] = Append(@, Head(items[s]))]
  /\ items' = [items EXCEPT ![s] = Tail(@)]
  /\ pulling' = [pulling EXCEPT ![t] = "none"]
  /\ UNCHANGED <<shut, offered>>

\* Mutant: nullopt as soon as the stream is shut, queued values or not.
EndEarly(t, s) ==
  /\ pulling[t] = s
  /\ shut[s]
  /\ pulling' = [pulling EXCEPT ![t] = "none"]
  /\ UNCHANGED streamVars

\* DemuxQueue::pull returns nullopt to thread t.
End(t, s) ==
  /\ pulling[t] = s
  /\ items[s] = <<>>
  /\ shut[s]
  /\ pulling' = [pulling EXCEPT ![t] = "none"]
  /\ UNCHANGED streamVars

-----------------------------------------------------------------------------
(* Impl::close_all(), by any thread *)

\* Mutant: the errors stream ends first.
CloseErrorsFirst == <<"closed", "errors", "matches", "notifications">>

\* Mutant: the worker's flag is forgotten.
CloseStreamsOnly == <<"matches", "notifications", "errors", "errors">>

\* Mutant: one stream is forgotten.
CloseForgetful == <<"closed", "matches", "matches", "errors">>

CloseOrder == <<"closed", "matches", "notifications", "errors">>

BeginCloseAll(t) == closeAt' = [closeAt EXCEPT ![t] = 1]

InCloseAll(t) == closeAt[t] # 0

\* The threads whose close_all() is the public close(): users, and callbacks
\* that call it.
CallsClose == Users \cup Pumps

CloseStep(t) ==
  /\ InCloseAll(t)
  /\ LET step == CloseOrder[closeAt[t]]
         last == closeAt[t] = Len(CloseOrder)
     IN /\ closed' = (closed \/ step = "closed")
        /\ shut' = [s \in Streams |-> shut[s] \/ s = step]
        /\ closeAt' = [closeAt EXCEPT ![t] = IF last THEN 0 ELSE @ + 1]
        /\ closeDone' = (closeDone \/ (last /\ t \in CallsClose))
  /\ UNCHANGED <<items, offered, received, pulling, worker, reply, runVars, poll,
                 client, stopped>>

-----------------------------------------------------------------------------
(* The worker thread *)

workerElse == <<closed, pulling, runVars, poll, client, stopped, closeDone>>

\* The loop condition.
Top ==
  /\ worker = "top"
  /\ worker' = IF closed THEN "exited" ELSE "get"
  /\ UNCHANGED <<streamVars, closeAt, reply, workerElse>>

\* How many events the server told so far.
Told == offered["matches"] + offered["notifications"]

IsEvent(r) == Disposition(r) = "Event" /\ ParsedTo(r) # "none"

\* standard_http->get() came back with a response.  It borrows the client from
\* the moment the worker is in "get".
GetReturns(r) ==
  /\ worker = "get"
  /\ IsEvent(r) => Told < MaxEvents
  /\ reply' = r
  /\ worker' = "got"
  /\ UNCHANGED <<streamVars, closeAt, workerElse>>

\* It threw an AudDConnectionError: back off.
GetFails ==
  /\ worker = "get"
  /\ worker' = "sleep"
  /\ UNCHANGED <<streamVars, closeAt, reply, workerElse>>

\* Anything else that is thrown (an allocation failure) ends in catch (...).
GetThrows ==
  /\ worker = "get"
  /\ worker' = "fail"
  /\ UNCHANGED <<streamVars, closeAt, reply, workerElse>>

\* sleep_or_stop returned.
SleepEnds ==
  /\ worker = "sleep"
  /\ worker' = IF closed THEN "exited" ELSE "top"
  /\ UNCHANGED <<streamVars, closeAt, reply, workerElse>>

\* A poll that was closed while the request was out ignores the response.
CheckClosed ==
  /\ worker = "got"
  /\ worker' = IF closed THEN "exited" ELSE "dispatch"
  /\ UNCHANGED <<streamVars, closeAt, reply, workerElse>>

Dispatch ==
  /\ worker = "dispatch"
  /\ reply' = NoReply
  /\ CASE Disposition(reply) = "Terminal" ->
            /\ worker' = "fail"
            /\ UNCHANGED streamVars
       [] IsEvent(reply) ->
            /\ worker' = "top"
            /\ PushTo(ParsedTo(reply))
       [] OTHER ->
            /\ worker' = "top"
            /\ UNCHANGED streamVars
  /\ UNCHANGED <<closeAt, workerElse>>

\* Mutant: the streams are closed first, so the error is dropped.
PushErrorLast ==
  /\ worker = "fail"
  /\ ~InCloseAll("worker")
  /\ IF shut["errors"]
     THEN worker' = "exited" /\ PushTo("errors") /\ UNCHANGED closeAt
     ELSE BeginCloseAll("worker") /\ UNCHANGED <<streamVars, worker>>
  /\ UNCHANGED <<reply, workerElse>>

\* Mutant: the error is reported and the loop goes on.
PushErrorAndGoOn ==
  /\ worker = "fail"
  /\ worker' = "top"
  /\ PushTo("errors")
  /\ UNCHANGED <<closeAt, reply, workerElse>>

\* Both the Terminal branch and catch (...) push the error and then close.
PushError ==
  /\ worker = "fail"
  /\ worker' = "closing"
  /\ PushTo("errors")
  /\ BeginCloseAll("worker")
  /\ UNCHANGED <<reply, workerElse>>

WorkerReturns ==
  /\ worker = "closing"
  /\ ~InCloseAll("worker")
  /\ worker' = "exited"
  /\ UNCHANGED <<streamVars, closeAt, reply, workerElse>>

Worker ==
  \/ Top \/ GetFails \/ GetThrows \/ SleepEnds \/ CheckClosed \/ Dispatch
  \/ PushError \/ WorkerReturns
  \/ \E r \in Replies : GetReturns(r)

-----------------------------------------------------------------------------
(* Application threads: next_*() and close() *)

Idle(u) == pulling[u] = "none" /\ ~InCloseAll(u)

UserPull(u, s) ==
  /\ poll = "open"
  /\ Idle(u)
  /\ pulling' = [pulling EXCEPT ![u] = s]
  /\ UNCHANGED <<closed, streamVars, closeAt, worker, reply, runVars, poll,
                 client, stopped, closeDone>>

\* A pull by a user returns, with a value or with nullopt.
UserPulled(u) ==
  /\ \E s \in Streams : Receive(u, s) \/ End(u, s)
  /\ UNCHANGED <<closed, closeAt, worker, reply, runVars, poll, client, stopped,
                 closeDone>>

UserClose(u) ==
  /\ poll = "open"
  /\ Idle(u)
  /\ BeginCloseAll(u)
  /\ stopped' = TRUE
  /\ UNCHANGED <<closed, streamVars, pulling, worker, reply, runVars, poll,
                 client, closeDone>>

-----------------------------------------------------------------------------
(* run(): the pumps "tm" and "tn" and the calling thread "main" *)

runElse == <<closed, worker, reply, poll, client, closeDone>>

PumpStream == [tm |-> "matches", tn |-> "notifications"]

\* Two threads are started, the caller waits for the error.
RunStart ==
  /\ run = "idle"
  /\ poll = "open"
  /\ run' = "errors"
  /\ pump' = [t \in Pumps |-> "pull"]
  /\ pulling' = [t \in Pullers |->
                   IF t = "main" THEN "errors"
                   ELSE IF t \in Pumps THEN PumpStream[t]
                   ELSE pulling[t]]
  /\ UNCHANGED <<streamVars, closeAt, stopped, runElse>>

\* pull() returned: a value goes to the callback, nullopt ends the pump.
PumpPulled(t) ==
  /\ \E s \in Streams :
       \/ Receive(t, s) /\ pump' = [pump EXCEPT ![t] = "callback"]
       \/ End(t, s) /\ pump' = [pump EXCEPT ![t] = "done"]
  /\ UNCHANGED <<closeAt, run, stopped, runElse>>

\* on_match or on_notification may call close() ...
CallbackCloses(t) ==
  /\ pump[t] = "callback"
  /\ ~InCloseAll(t)
  /\ BeginCloseAll(t)
  /\ stopped' = TRUE
  /\ UNCHANGED <<streamVars, pulling, runVars, runElse>>

\* ... and returns, and the pump pulls again.
CallbackReturns(t) ==
  /\ pump[t] = "callback"
  /\ ~InCloseAll(t)
  /\ pump' = [pump EXCEPT ![t] = "pull"]
  /\ pulling' = [pulling EXCEPT ![t] = PumpStream[t]]
  /\ UNCHANGED <<streamVars, closeAt, run, stopped, runElse>>

\* errors.pull() returned: with an error, on_error and close_all() follow;
\* either way the pumps are joined next.
MainPulled ==
  /\ \/ Receive("main", "errors") /\ run' = "on_error"
     \/ End("main", "errors") /\ run' = "join"
  /\ UNCHANGED <<closeAt, pump, stopped, runElse>>

OnErrorReturns ==
  /\ run = "on_error"
  /\ run' = "closing"
  /\ BeginCloseAll("main")
  /\ UNCHANGED <<streamVars, pulling, pump, stopped, runElse>>

RunClosed ==
  /\ run = "closing"
  /\ ~InCloseAll("main")
  /\ run' = "join"
  /\ UNCHANGED <<streamVars, pulling, closeAt, pump, stopped, runElse>>

RunReturns ==
  /\ run = "join"
  /\ \A t \in Pumps : pump[t] = "done"
  /\ run' = "returned"
  /\ UNCHANGED <<streamVars, pulling, closeAt, pump, stopped, runElse>>

-----------------------------------------------------------------------------
(* The owner of the poll, and the client *)

ownerElse == <<closed, streamVars, pulling, worker, reply, runVars, client, closeDone>>

\* No call on the poll is under way: the caller's side of destroying any object.
NoCall ==
  /\ \A u \in Users : Idle(u)
  /\ run \in {"idle", "returned"}

\* ~LongpollPoll runs close_all() and then ~Impl; assigning another poll over
\* this one goes to ~Impl at once.
Destroy ==
  /\ poll = "open"
  /\ NoCall
  /\ poll' \in {"~LongpollPoll", "~Impl"}
  /\ BeginCloseAll("owner")
  /\ stopped' = TRUE
  /\ UNCHANGED ownerElse

DestroyImpl ==
  /\ poll = "~LongpollPoll"
  /\ ~InCloseAll("owner")
  /\ poll' = "~Impl"
  /\ BeginCloseAll("owner")
  /\ UNCHANGED <<stopped, ownerElse>>

\* Mutant: the worker is detached.
WorkerDetached == TRUE

\* worker.join() can return.
WorkerJoined == worker = "exited"

Destroyed ==
  /\ poll = "~Impl"
  /\ ~InCloseAll("owner")
  /\ WorkerJoined
  /\ poll' = "destroyed"
  /\ UNCHANGED <<closeAt, stopped, ownerElse>>

\* The application destroys the client as soon as it may.
ClientDestroyed ==
  /\ client = "alive"
  /\ IF StoppedBy = "close" THEN closeDone ELSE poll = "destroyed"
  /\ client' = "destroyed"
  /\ UNCHANGED <<closed, streamVars, pulling, closeAt, worker, reply, runVars, poll,
                 stopped, closeDone>>

\* Poll and client are gone.
AllGone ==
  /\ poll = "destroyed"
  /\ client = "destroyed"
  /\ UNCHANGED vars

-----------------------------------------------------------------------------
Run ==
  \/ RunStart \/ MainPulled \/ OnErrorReturns \/ RunClosed \/ RunReturns
  \/ \E t \in Pumps : PumpPulled(t) \/ CallbackCloses(t) \/ CallbackReturns(t)

User(u) == UserPulled(u) \/ UserClose(u) \/ \E s \in Streams : UserPull(u, s)

Owner == Destroy \/ DestroyImpl \/ Destroyed

Next ==
  \/ Worker
  \/ \E t \in Threads : CloseStep(t)
  \/ \E u \in Users : User(u)
  \/ Run
  \/ Owner
  \/ ClientDestroyed
  \/ AllGone

\* Threads that are running keep running.  get() comes back because it has a
\* transfer timeout.  Callbacks are assumed to return (SF: however often they
\* call close() first).  Nobody has to call close(), next_*(), run() or the
\* destructor.
Fairness ==
  /\ WF_vars(Worker)
  /\ \A t \in Threads : WF_vars(CloseStep(t))
  /\ \A u \in Users : WF_vars(UserPulled(u))
  /\ \A t \in Pumps : WF_vars(PumpPulled(t)) /\ SF_vars(CallbackReturns(t))
  /\ WF_vars(MainPulled) /\ WF_vars(OnErrorReturns)
  /\ WF_vars(RunClosed) /\ WF_vars(RunReturns)
  /\ WF_vars(DestroyImpl) /\ WF_vars(Destroyed)

Spec == Init /\ [][Next]_vars /\ Fairness

-----------------------------------------------------------------------------
(* Properties *)

Accepted(s) == Len(items[s]) + Len(received[s])

\* Every variable has its type, and there is at most one terminal error.
TypeOK ==
  /\ closed \in BOOLEAN /\ stopped \in BOOLEAN /\ closeDone \in BOOLEAN
  /\ items \in [Streams -> Seq(Nat)]
  /\ shut \in [Streams -> BOOLEAN]
  /\ offered \in [Streams -> Nat] /\ offered["errors"] \in {0, 1}
  /\ received \in [Streams -> Seq(Nat)]
  /\ pulling \in [Pullers -> Streams \cup {"none"}]
  /\ closeAt \in [Threads -> 0..Len(CloseOrder)]
  /\ worker \in {"top", "get", "sleep", "got", "dispatch", "fail", "closing", "exited"}
  /\ reply \in Replies \cup {NoReply}
  /\ run \in {"idle", "errors", "on_error", "closing", "join", "returned"}
  /\ pump \in [Pumps -> {"off", "pull", "callback", "done"}]
  /\ poll \in {"open", "~LongpollPoll", "~Impl", "destroyed"}
  /\ client \in {"alive", "destroyed"}

\* A subscription never ends without a reason: if a stream is shut or the
\* worker is gone, then either somebody asked for it (close(), the destructor)
\* or the terminal error was accepted by the errors stream, where a consumer
\* finds it.  The error must be in before any stream is shut.
EndHasReason ==
  (closed \/ worker = "exited" \/ \E s \in Streams : shut[s]) /\ ~stopped
    => Accepted("errors") = 1

\* After the errors stream has ended no event is accepted any more: a thread
\* that saw next_error() return nullopt can drain the other two streams once
\* and has everything, whoever closed the poll and however many did.
NothingAcceptedAfterErrorsEnd ==
  [][shut["errors"] => \A s \in Streams : Accepted(s)' = Accepted(s)]_vars

\* run() returns only when every event the poll accepted has been handed to
\* some consumer: neither close() nor the terminal error cuts off queued ones.
RunDrains ==
  run = "returned" => items["matches"] = <<>> /\ items["notifications"] = <<>>

\* The worker does not call through a client that is gone.
ClientOutlivesUse == client = "destroyed" => worker # "get"

\* The worker never touches freed memory: not the Impl after the poll was
\* destroyed, not the client after the application destroyed it in the way
\* StoppedBy allows.
NothingFreedInUse ==
  /\ poll = "destroyed" => worker = "exited"
  /\ ClientOutlivesUse

\* When somebody asked for the end the worker ends, wherever it was: in a
\* request, in the back-off sleep or in the middle of a response.
StopEndsWorker == stopped ~> (worker = "exited")

\* run() comes back after any end of the poll, also when the events or the
\* error were taken by other threads and when a callback called close().
RunComesBack ==
  (run # "idle" /\ (stopped \/ offered["errors"] = 1)) ~> (run = "returned")

\* Who pulls from stream s.
PullsOf(s) == [t \in Pullers |-> IF pulling[t] = s THEN "pulling" ELSE "idle"]

Matches ==
  INSTANCE EventStream
    WITH Consumers <- Pullers, MaxPush <- MaxEvents + 1, pull <- PullsOf("matches"),
         items <- items["matches"], shut <- shut["matches"],
         offered <- offered["matches"], received <- received["matches"]

Notifications ==
  INSTANCE EventStream
    WITH Consumers <- Pullers, MaxPush <- MaxEvents + 1, pull <- PullsOf("notifications"),
         items <- items["notifications"], shut <- shut["notifications"],
         offered <- offered["notifications"], received <- received["notifications"]

Errors ==
  INSTANCE EventStream
    WITH Consumers <- Pullers, MaxPush <- MaxEvents + 1, pull <- PullsOf("errors"),
         items <- items["errors"], shut <- shut["errors"],
         offered <- offered["errors"], received <- received["errors"]

\* Each of the three streams is an EventStream to all threads that pull from it.
StreamsAreStreams ==
  Matches!ESSafety /\ Notifications!ESSafety /\ Errors!ESSafety
=================================================================================
