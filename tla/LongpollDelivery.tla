---------------------------- MODULE LongpollDelivery ----------------------------
(***************************************************************************)
(* The worker loop of start_longpoll_ (src/longpoll.cpp) against a server  *)
(* and a network that fail: which events reach the streams.  The worker    *)
(* keeps a cursor, sends it as since_time, and moves it to the timestamp   *)
(* of what it was answered; a failed request is retried after a back-off   *)
(* that doubles.  What the worker does with its streams and its end is     *)
(* LongpollPoll's subject: here a push is an entry in delivered, and a     *)
(* terminal error and close() just end the loop.                           *)
(*                                                                         *)
(* The server is not in the repository.  It is modelled from what the      *)
(* client counts on: every event has a timestamp of its own, a request is  *)
(* answered with the oldest event newer than since_time (without one:      *)
(* newer than the request), or with a keep-alive that carries the          *)
(* server's time.                                                          *)
(***************************************************************************)
EXTENDS LongpollWire, Sequences, FiniteSets

CONSTANTS Bodies,      \* what events look like: responses without a timestamp
          Resume,      \* the values of LongpollOptions::since_time
          MaxTime,     \* bound: the server's clock
          MaxFailures  \* bound: failures in a row are counted up to here

ASSUME LDAssumption ==
  /\ MaxTime \in Nat \ {0} /\ MaxFailures \in Nat /\ MaxFailures >= 7
  /\ Bodies \subseteq {r \in Responses : Disposition(r) = "Event" /\ r.form = "object"}
  /\ Resume \subseteq {0, 1}

VARIABLES
  now,         \* the server's clock
  log,         \* the events the server recorded, oldest first
  asked,       \* the request that is out wants events newer than this
  worker,      \* where the worker is
  since,       \* cur_since
  backoff,     \* in milliseconds
  failures,    \* connection errors since the last response
  reply,       \* the response the worker is looking at
  closed,      \* Impl::closed
  delivered    \* the events pushed to the streams, in that order

vars == <<now, log, asked, worker, since, backoff, failures, reply, closed, delivered>>
serverVars == <<now, log>>

Empty == Reply("empty", {}, FALSE, NoStamp)
ServerError == [Empty EXCEPT !.http = "error"]
KeepAlive(t) == Reply("object", {"timeout"}, FALSE, t)

kBackoffBase == 500
kBackoffCap == 30000

Init ==
  /\ now = 1
  /\ log = <<>>
  /\ asked = 0
  /\ worker = "top"
  /\ since \in Resume
  /\ backoff = kBackoffBase
  /\ failures = 0
  /\ reply = Empty
  /\ closed = FALSE
  /\ delivered = <<>>

-----------------------------------------------------------------------------
(* The server *)

\* Time passes, with an event or without.
Tick ==
  /\ now < MaxTime
  /\ now' = now + 1
  /\ \/ UNCHANGED log
     \/ \E b \in Bodies : log' = Append(log, [b EXCEPT !.stamp = now + 1])
  /\ UNCHANGED <<asked, worker, since, backoff, failures, reply, closed, delivered>>

\* The positions of the events a request is waiting for.
Pending == {i \in 1..Len(log) : log[i].stamp > asked}

\* The answer: the oldest of those events, or a keep-alive.
Answers ==
  IF Pending = {} THEN {KeepAlive(now)}
  ELSE {log[i] : i \in {k \in Pending : \A j \in Pending : k <= j}}

-----------------------------------------------------------------------------
(* The worker *)

\* Mutant: no cap.
DoubledForever(b) == b * 2

Doubled(b) == IF b * 2 < kBackoffCap THEN b * 2 ELSE kBackoffCap

\* since_time is sent only when it is positive.
Top ==
  /\ worker = "top"
  /\ IF closed
     THEN worker' = "exited" /\ UNCHANGED asked
     ELSE worker' = "get" /\ asked' = IF since > 0 THEN since ELSE now
  /\ UNCHANGED <<serverVars, since, backoff, failures, reply, closed, delivered>>

Respond(r) ==
  /\ worker = "get"
  /\ reply' = r
  /\ worker' = "got"
  /\ failures' = 0
  /\ UNCHANGED <<serverVars, asked, since, backoff, closed, delivered>>

\* The server's answer arrives ...
GetAnswer == \E r \in Answers : Respond(r)

\* ... or an empty body, or an HTTP error, from the server or from anything
\* between it and the client ...
GetOther == Respond(Empty) \/ Respond(ServerError)

\* ... or the connection breaks, whether or not the server had answered.
GetFails ==
  /\ worker = "get"
  /\ worker' = "sleep"
  /\ failures' = IF failures < MaxFailures THEN failures + 1 ELSE failures
  /\ UNCHANGED <<serverVars, asked, since, backoff, reply, closed, delivered>>

\* sleep_or_stop(backoff) returned.
SleepEnds ==
  /\ worker = "sleep"
  /\ IF closed
     THEN worker' = "exited" /\ UNCHANGED backoff
     ELSE worker' = "top" /\ backoff' = Doubled(backoff)
  /\ UNCHANGED <<serverVars, asked, since, failures, reply, closed, delivered>>

\* Mutant: the back-off survives a round-trip that worked.
BackoffAfterResponseKept == backoff

BackoffAfterResponse == kBackoffBase

CheckClosed ==
  /\ worker = "got"
  /\ IF closed
     THEN worker' = "exited" /\ UNCHANGED backoff
     ELSE worker' = "dispatch" /\ backoff' = BackoffAfterResponse
  /\ UNCHANGED <<serverVars, asked, since, failures, reply, closed, delivered>>

\* Mutant: the cursor is the time of the request's end, not what the server said.
MovedToNow(r) == IF r.stamp = NoStamp THEN since ELSE now

\* advance_since
Moved(r) == Advanced(since, r)

\* Terminal ends the loop; Skip leaves everything alone; KeepAlive moves the
\* cursor; an event is parsed, pushed, and moves the cursor; an event that does
\* not parse leaves everything alone.
Dispatch ==
  /\ worker = "dispatch"
  /\ worker' = IF Disposition(reply) = "Terminal" THEN "exited" ELSE "top"
  /\ \/ /\ Disposition(reply) \in {"Terminal", "Skip"}
        /\ UNCHANGED <<since, delivered>>
     \/ /\ Disposition(reply) = "KeepAlive"
        /\ since' = Moved(reply)
        /\ UNCHANGED delivered
     \/ /\ Disposition(reply) = "Event"
        /\ ParsedTo(reply) # "none"
        /\ delivered' = Append(delivered, reply)
        /\ since' = Moved(reply)
     \/ /\ Disposition(reply) = "Event"
        /\ ParsedTo(reply) = "none"
        /\ UNCHANGED <<since, delivered>>
  /\ reply' = Empty
  /\ UNCHANGED <<serverVars, asked, backoff, failures, closed>>

\* Somebody closes the poll.
Close ==
  /\ closed' = TRUE
  /\ UNCHANGED <<serverVars, asked, worker, since, backoff, failures, reply, delivered>>

Worker == Top \/ GetAnswer \/ GetOther \/ GetFails \/ SleepEnds \/ CheckClosed \/ Dispatch

Next == Tick \/ Worker \/ Close

\* The worker runs, and a request that is sent over and over is some day
\* answered by the server and the answer arrives.
Fairness == WF_vars(Worker) /\ SF_vars(GetAnswer)

Spec == Init /\ [][Next]_vars /\ Fairness

-----------------------------------------------------------------------------
(* Properties *)

\* Every variable has its type.
TypeOK ==
  /\ now \in 1..MaxTime
  /\ log \in Seq(Responses)
  /\ asked \in 0..MaxTime
  /\ worker \in {"top", "get", "sleep", "got", "dispatch", "exited"}
  /\ since \in 0..MaxTime
  /\ backoff \in kBackoffBase..kBackoffCap
  /\ failures \in 0..MaxFailures
  /\ reply \in Responses
  /\ closed \in BOOLEAN
  /\ delivered \in Seq(Responses)

Waits == <<500, 1000, 2000, 4000, 8000, 16000, 30000>>
Counted(n) == IF n < Len(Waits) THEN n ELSE Len(Waits)

\* The n-th failure in a row is followed by the n-th wait, the last of them again
\* and again, and one response, of any kind, starts the count anew.
BackoffCountsFailures ==
  worker = "sleep" => failures > 0 /\ backoff = Waits[Counted(failures)]

\* The position in log the cursor points to: the first event newer than it.
CursorAt ==
  IF since = 0 THEN 0
  ELSE 1 + Cardinality({i \in 1..Len(log) : log[i].stamp <= since})

Recorded == {[b EXCEPT !.stamp = t] : b \in Bodies, t \in 2..MaxTime}

\* What the client is there to hand on: notifications, and results with songs.
Sensible(e) == "notification" \in e.keys \/ ("result" \in e.keys /\ e.songs)

\* The reconnects, lost answers and keep-alives are invisible: once the cursor
\* is set, what reaches the streams is the server's log from there on, in order,
\* nothing twice and nothing left out.
Sub == INSTANCE Subscription
         WITH Events <- Recorded,
              Readable <- {e \in Recorded : Sensible(e)},
              next <- CursorAt,
              ended <- worker = "exited"

NoGapNoRepeat == Sub!SubSafety

\* Moreover nothing readable waits for ever: an event at the cursor is handed on
\* unless the subscription ends first.
EveryEventHandedOn == Sub!SubFair

\* "An unparseable or unknown event body is non-terminal - skip it and keep the
\* subscription alive" (src/longpoll.cpp): what can be read and comes later is
\* delivered.
UnreadableIsSkipped ==
  \A i \in 1..MaxTime :
    (i <= Len(log) /\ CursorAt \in 1..i /\ Sensible(log[i]))
      ~> (worker = "exited" \/ CursorAt > i)
=================================================================================
