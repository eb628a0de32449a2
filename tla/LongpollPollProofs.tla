---------------------------- MODULE LongpollPollProofs ----------------------------
(***************************************************************************)
(* Theorems about LongpollPoll for any set of user threads, any set of     *)
(* responses and any number of events.                                     *)
(***************************************************************************)
EXTENDS LongpollPoll, TLAPS

\* An event is pushed to one of the two event streams.
LEMMA ParsedToStream ==
  ASSUME NEW r, ParsedTo(r) # "none"
  PROVE  ParsedTo(r) \in {"matches", "notifications"}
BY DEF ParsedTo

\* close_all() has four steps.
LEMMA CloseOrderLen == Len(CloseOrder) = 4
BY DEF CloseOrder

-----------------------------------------------------------------------------
\* The errors stream was offered nothing before the worker is on its way out,
\* and the worker runs its close_all() only then.
WorkerInv ==
  /\ worker \notin {"closing", "exited"} => offered["errors"] = 0
  /\ closeAt["worker"] # 0 => worker = "closing"

TypeInv == TypeOK /\ WorkerInv

LEMMA InitTypeInv == Init => TypeInv
<1> SUFFICES ASSUME Init PROVE TypeInv
  OBVIOUS
<1> USE DEF Init
<1>1. items \in [Streams -> Seq(Nat)] /\ received \in [Streams -> Seq(Nat)]
  OBVIOUS
<1>2. offered \in [Streams -> Nat] /\ offered["errors"] = 0
  BY DEF Streams
<1>3. closeAt \in [Threads -> 0..Len(CloseOrder)] /\ closeAt["worker"] = 0
  BY CloseOrderLen DEF Threads
<1>4. pulling \in [Pullers -> Streams \cup {"none"}]
  OBVIOUS
<1> QED
  BY <1>1, <1>2, <1>3, <1>4 DEF TypeInv, TypeOK, WorkerInv

\* A pull keeps the types of what it touches.
LEMMA PullTypes ==
  ASSUME TypeInv, NEW t \in Pullers, NEW s \in Streams, Receive(t, s) \/ End(t, s)
  PROVE  /\ items' \in [Streams -> Seq(Nat)] /\ received' \in [Streams -> Seq(Nat)]
         /\ pulling' \in [Pullers -> Streams \cup {"none"}]
         /\ UNCHANGED <<shut, offered>>
<1>1. CASE Receive(t, s)
  <2>1. items[s] \in Seq(Nat) /\ items[s] # <<>> /\ received[s] \in Seq(Nat)
    BY <1>1 DEF Receive, TypeInv, TypeOK
  <2>2. Tail(items[s]) \in Seq(Nat) /\ Head(items[s]) \in Nat
        /\ Append(received[s], Head(items[s])) \in Seq(Nat)
    BY <2>1
  <2> QED
    BY <1>1, <2>2 DEF Receive, TypeInv, TypeOK
<1>2. CASE End(t, s)
  BY <1>2 DEF End, TypeInv, TypeOK, streamVars
<1> QED
  BY <1>1, <1>2

\* A push keeps the types of what it touches and counts one offer.
LEMMA PushTypes ==
  ASSUME TypeInv, NEW s \in Streams, PushTo(s)
  PROVE  /\ items' \in [Streams -> Seq(Nat)] /\ offered' \in [Streams -> Nat]
         /\ offered' = [offered EXCEPT ![s] = offered[s] + 1]
         /\ UNCHANGED <<shut, received>>
<1>1. items[s] \in Seq(Nat) /\ offered[s] + 1 \in Nat
  BY DEF TypeInv, TypeOK
<1>2. Append(items[s], offered[s] + 1) \in Seq(Nat)
  BY <1>1
<1>3. items' \in [Streams -> Seq(Nat)]
  BY <1>2 DEF PushTo, TypeInv, TypeOK
<1> QED
  BY <1>1, <1>3 DEF PushTo, TypeInv, TypeOK

\* Entering close_all() keeps the types and moves only that thread.
LEMMA BeginTypes ==
  ASSUME TypeInv, NEW t \in Threads, BeginCloseAll(t)
  PROVE  /\ closeAt' \in [Threads -> 0..Len(CloseOrder)]
         /\ closeAt'[t] = 1
         /\ \A u \in Threads : u # t => closeAt'[u] = closeAt[u]
<1>1. closeAt \in [Threads -> 0..4]
  BY CloseOrderLen DEF TypeInv, TypeOK
<1>2. closeAt' = [closeAt EXCEPT ![t] = 1]
  BY DEF BeginCloseAll
<1>3. closeAt' \in [Threads -> 0..4]
  BY <1>1, <1>2
<1> QED
  BY <1>1, <1>2, <1>3, CloseOrderLen

\* In particular it leaves the worker's close_all() alone.
LEMMA OtherBegins ==
  ASSUME TypeInv, NEW t \in Threads, t # "worker", BeginCloseAll(t)
  PROVE  /\ closeAt' \in [Threads -> 0..Len(CloseOrder)]
         /\ closeAt'["worker"] = closeAt["worker"]
<1>1. "worker" \in Threads
  BY DEF Threads
<1> QED
  BY <1>1, BeginTypes, Zenon

\* Every variable keeps its type and there is at most one terminal error.
LEMMA StepTypeInv == TypeInv /\ [Next]_vars => TypeInv'
<1> SUFFICES ASSUME TypeInv, [Next]_vars PROVE TypeInv'
  OBVIOUS
<1> USE LPAssumption, CloseOrderLen
<1> USE DEF LPAssumption, TypeInv, TypeOK, WorkerInv
<1>1. ASSUME NEW t \in Threads, CloseStep(t)
      PROVE  TypeInv'
  <2>1. closeAt[t] \in 1..4 /\ closeAt' \in [Threads -> 0..4]
        /\ (t # "worker" => closeAt'["worker"] = closeAt["worker"])
        /\ (t = "worker" => worker = "closing")
    BY <1>1 DEF CloseStep, InCloseAll, Threads
  <2>2. closed' \in BOOLEAN /\ closeDone' \in BOOLEAN /\ shut' \in [Streams -> BOOLEAN]
    BY <1>1 DEF CloseStep
  <2> QED
    BY <1>1, <2>1, <2>2 DEF CloseStep, runVars
<1>2. CASE Top \/ GetFails \/ GetThrows \/ SleepEnds \/ CheckClosed \/ WorkerReturns
  BY <1>2 DEF Top, GetFails, GetThrows, SleepEnds, CheckClosed, WorkerReturns,
              InCloseAll, streamVars, workerElse, runVars
<1>3. ASSUME NEW r \in Replies, GetReturns(r)
      PROVE  TypeInv'
  BY <1>3 DEF GetReturns, streamVars, workerElse, runVars
<1>4. CASE Dispatch
  <2>1. CASE UNCHANGED streamVars
    BY <1>4, <2>1 DEF Dispatch, streamVars, workerElse, runVars
  <2>2. CASE PushTo(ParsedTo(reply)) /\ ParsedTo(reply) # "none" /\ worker' = "top"
    <3>1. ParsedTo(reply) \in Streams /\ ParsedTo(reply) # "errors"
      BY <2>2, ParsedToStream DEF Streams
    <3>2. /\ items' \in [Streams -> Seq(Nat)] /\ offered' \in [Streams -> Nat]
          /\ offered'["errors"] = offered["errors"]
          /\ UNCHANGED <<shut, received>>
      BY <2>2, <3>1, PushTypes DEF Streams
    <3> QED
      BY <1>4, <2>2, <3>2 DEF Dispatch, workerElse, runVars
  <2> QED
    BY <1>4, <2>1, <2>2 DEF Dispatch, IsEvent
<1>5. CASE PushError
  <2>1. /\ items' \in [Streams -> Seq(Nat)] /\ offered' \in [Streams -> Nat]
        /\ offered'["errors"] = 1
        /\ UNCHANGED <<shut, received>>
    BY <1>5, PushTypes DEF PushError, Streams
  <2>2. closeAt' \in [Threads -> 0..Len(CloseOrder)]
    BY <1>5, BeginTypes DEF PushError, Threads
  <2> QED
    BY <1>5, <2>1, <2>2 DEF PushError, workerElse, runVars
<1>6. ASSUME NEW u \in Users, User(u)
      PROVE  TypeInv'
  <2>0. u \in Pullers /\ u \in Threads /\ u # "worker"
    BY DEF Pullers, Threads
  <2>1. CASE UserPulled(u)
    BY <2>0, <2>1, PullTypes DEF UserPulled, runVars
  <2>2. CASE UserClose(u)
    <3>1. closeAt' \in [Threads -> 0..Len(CloseOrder)]
          /\ closeAt'["worker"] = closeAt["worker"]
      <4>1. BeginCloseAll(u)
        BY <2>2 DEF UserClose
      <4> QED
        BY <2>0, <4>1, OtherBegins, Zenon
    <3> QED
      BY <2>2, <3>1 DEF UserClose, streamVars, runVars
  <2>3. ASSUME NEW s \in Streams, UserPull(u, s)
        PROVE  TypeInv'
    BY <2>0, <2>3 DEF UserPull, streamVars, runVars
  <2> QED
    BY <1>6, <2>1, <2>2, <2>3 DEF User
<1>7. CASE Run
  <2>0. "main" \in Pullers /\ Pumps \subseteq Pullers /\ "main" \in Threads
        /\ Pumps \subseteq Threads /\ "worker" \notin Pumps /\ "errors" \in Streams
    BY DEF Pullers, Threads, Pumps, Streams
  <2>1. CASE RunStart
    <3>1. \A t \in Pumps : PumpStream[t] \in Streams
      BY DEF Pumps, PumpStream, Streams
    <3>2. pulling' \in [Pullers -> Streams \cup {"none"}]
      BY <2>0, <2>1, <3>1 DEF RunStart
    <3> QED
      BY <2>1, <3>2 DEF RunStart, streamVars, runElse
  <2>2. CASE MainPulled
    BY <2>0, <2>2, PullTypes DEF MainPulled, runElse
  <2>3. CASE OnErrorReturns
    <3>1. closeAt' \in [Threads -> 0..Len(CloseOrder)]
          /\ closeAt'["worker"] = closeAt["worker"]
      <4>1. BeginCloseAll("main") /\ "main" \in Threads /\ "main" # "worker"
        BY <2>0, <2>3 DEF OnErrorReturns
      <4> QED
        BY <4>1, OtherBegins, Zenon
    <3> QED
      BY <2>3, <3>1 DEF OnErrorReturns, streamVars, runElse
  <2>6. CASE RunClosed \/ RunReturns
    BY <2>6 DEF RunClosed, RunReturns, streamVars, runElse
  <2>4. ASSUME NEW t \in Pumps, PumpPulled(t)
        PROVE  TypeInv'
    <3>1. PICK s \in Streams : \/ Receive(t, s) /\ pump' = [pump EXCEPT ![t] = "callback"]
                               \/ End(t, s) /\ pump' = [pump EXCEPT ![t] = "done"]
      BY <2>4 DEF PumpPulled
    <3>2. t \in Pullers /\ (Receive(t, s) \/ End(t, s))
      BY <2>0, <3>1
    <3>3. /\ items' \in [Streams -> Seq(Nat)] /\ received' \in [Streams -> Seq(Nat)]
          /\ pulling' \in [Pullers -> Streams \cup {"none"}]
          /\ UNCHANGED <<shut, offered>>
      BY <3>2, PullTypes
    <3>4. pump' \in [Pumps -> {"off", "pull", "callback", "done"}]
      BY <3>1
    <3>5. UNCHANGED <<closed, closeAt, run, stopped, worker, reply, poll, client, closeDone>>
      BY <2>4 DEF PumpPulled, runElse
    <3> QED
      BY <3>3, <3>4, <3>5
  <2>5. ASSUME NEW t \in Pumps, CallbackCloses(t)
        PROVE  TypeInv'
    <3>1. closeAt' \in [Threads -> 0..Len(CloseOrder)]
          /\ closeAt'["worker"] = closeAt["worker"]
      <4>1. BeginCloseAll(t) /\ t \in Threads /\ t # "worker"
        BY <2>0, <2>5 DEF CallbackCloses
      <4> QED
        BY <4>1, OtherBegins, Zenon
    <3> QED
      BY <2>5, <3>1 DEF CallbackCloses, streamVars, runVars, runElse
  <2>7. ASSUME NEW t \in Pumps, CallbackReturns(t)
        PROVE  TypeInv'
    <3>1. PumpStream[t] \in Streams
      BY DEF Pumps, PumpStream, Streams
    <3> QED
      BY <2>0, <2>7, <3>1 DEF CallbackReturns, streamVars, runElse
  <2> QED
    BY <1>7, <2>1, <2>2, <2>3, <2>4, <2>5, <2>6, <2>7 DEF Run
<1>8. CASE Owner
  <2>1. CASE Destroy \/ DestroyImpl
    <3>1. closeAt' \in [Threads -> 0..Len(CloseOrder)]
          /\ closeAt'["worker"] = closeAt["worker"]
      <4>1. BeginCloseAll("owner") /\ "owner" \in Threads /\ "owner" # "worker"
        BY <2>1 DEF Destroy, DestroyImpl, Threads
      <4> QED
        BY <4>1, OtherBegins, Zenon
    <3>2. poll' \in {"open", "~LongpollPoll", "~Impl", "destroyed"}
          /\ stopped' \in BOOLEAN
      BY <2>1 DEF Destroy, DestroyImpl
    <3> QED
      BY <2>1, <3>1, <3>2 DEF Destroy, DestroyImpl, streamVars, runVars, ownerElse
  <2>2. CASE Destroyed
    BY <2>2 DEF Destroyed, streamVars, runVars, ownerElse
  <2> QED
    BY <1>8, <2>1, <2>2 DEF Owner
<1>9. CASE ClientDestroyed
  BY <1>9 DEF ClientDestroyed, streamVars, runVars
<1>10. CASE UNCHANGED vars
  BY <1>10 DEF vars, runVars
<1> QED
  BY <1>1, <1>2, <1>3, <1>4, <1>5, <1>6, <1>7, <1>8, <1>9, <1>10
     DEF Next, Worker, AllGone

\* Every variable keeps its type and the errors stream is offered at most one
\* error, for any users, responses and number of events.
THEOREM TypeCorrect == Spec => []TypeOK
<1>1. TypeInv => TypeOK
  BY DEF TypeInv
<1> QED
  BY <1>1, InitTypeInv, StepTypeInv, PTL DEF Spec

-----------------------------------------------------------------------------
\* What the worker may change: it never moves the poll or the client and has
\* nothing to do once it has exited.
LEMMA WorkerFrame ==
  ASSUME Worker
  PROVE  worker # "exited" /\ UNCHANGED <<poll, client, run, pump, pulling, stopped, closed>>
BY DEF Worker, Top, GetReturns, GetFails, GetThrows, SleepEnds, CheckClosed, Dispatch,
       PushError, WorkerReturns, workerElse, runVars

\* No other thread moves the worker.
LEMMA OthersFrame ==
  ASSUME [Next]_vars, ~Worker
  PROVE  worker' = worker
<1>1. ASSUME NEW t \in Threads, CloseStep(t) PROVE worker' = worker
  BY <1>1 DEF CloseStep
<1>2. ASSUME NEW u \in Users, User(u) PROVE worker' = worker
  BY <1>2 DEF User, UserPulled, UserClose, UserPull
<1>3. CASE Run
  BY <1>3 DEF Run, RunStart, MainPulled, OnErrorReturns, RunClosed, RunReturns,
              PumpPulled, CallbackCloses, CallbackReturns, runElse
<1>4. CASE Owner
  BY <1>4 DEF Owner, Destroy, DestroyImpl, Destroyed, ownerElse
<1>5. CASE ClientDestroyed \/ AllGone \/ UNCHANGED vars
  BY <1>5 DEF ClientDestroyed, AllGone, vars
<1> QED
  BY <1>1, <1>2, <1>3, <1>4, <1>5 DEF Next

\* Destroying the poll waits for the worker, destroying the client for the poll.
FreedInv ==
  /\ poll = "destroyed" => worker = "exited"
  /\ client = "destroyed" => poll = "destroyed"

\* If the application keeps the client until the poll is destroyed, then neither
\* the poll's Impl nor the client is freed while the worker can still use it.
THEOREM WorkerOutlived ==
  StoppedBy = "destroyed" => (Spec => []NothingFreedInUse)
<1> SUFFICES ASSUME StoppedBy = "destroyed" PROVE Spec => []NothingFreedInUse
  OBVIOUS
<1>1. Init => FreedInv
  BY DEF Init, FreedInv
<1>2. FreedInv /\ [Next]_vars => FreedInv'
  <2> SUFFICES ASSUME FreedInv, [Next]_vars PROVE FreedInv'
    OBVIOUS
  <2> USE DEF FreedInv
  <2>1. CASE Worker
    BY <2>1, WorkerFrame
  <2>2. CASE ~Worker
    <3>0. worker' = worker
      BY <2>2, OthersFrame
    <3>1. ASSUME NEW t \in Threads, CloseStep(t) PROVE FreedInv'
      BY <3>0, <3>1 DEF CloseStep
    <3>2. ASSUME NEW u \in Users, User(u) PROVE FreedInv'
      BY <3>0, <3>2 DEF User, UserPulled, UserClose, UserPull
    <3>3. CASE Run
      BY <3>0, <3>3 DEF Run, RunStart, MainPulled, OnErrorReturns, RunClosed, RunReturns,
                        PumpPulled, CallbackCloses, CallbackReturns, runElse
    <3>4. CASE Owner
      BY <3>0, <3>4 DEF Owner, Destroy, DestroyImpl, Destroyed, WorkerJoined, ownerElse
    <3>5. CASE ClientDestroyed
      BY <3>0, <3>5 DEF ClientDestroyed
    <3>6. CASE UNCHANGED vars
      BY <3>6 DEF vars
    <3> QED
      BY <2>2, <3>1, <3>2, <3>3, <3>4, <3>5, <3>6 DEF Next, AllGone
  <2> QED
    BY <2>1, <2>2
<1>3. FreedInv => NothingFreedInUse
  BY DEF FreedInv, NothingFreedInUse, ClientOutlivesUse
<1> QED
  BY <1>1, <1>2, <1>3, PTL DEF Spec

-----------------------------------------------------------------------------
\* Sums of two lengths, for the prover that does not see them as numbers.
LEMMA SumFacts ==
  ASSUME NEW a \in Nat, NEW b \in Nat
  PROVE  /\ a + b \in Nat
         /\ (a - 1) + (b + 1) = a + b
         /\ (a + 1) + b = (a + b) + 1
         /\ a >= 1 => a + b >= 1
OBVIOUS

\* A pull moves a value from the queue to the record of what was received.
LEMMA PullAccepted ==
  ASSUME TypeInv, NEW t \in Pullers, NEW s \in Streams, NEW x \in Streams,
         Receive(t, s) \/ End(t, s)
  PROVE  Accepted(x)' = Accepted(x)
<1> USE DEF TypeInv, TypeOK
<1>1. CASE Receive(t, s) /\ x = s
  <2>1. items[s] \in Seq(Nat) /\ items[s] # <<>> /\ received[s] \in Seq(Nat)
    BY <1>1 DEF Receive
  <2>2. items'[s] = Tail(items[s]) /\ received'[s] = Append(received[s], Head(items[s]))
    BY <1>1 DEF Receive
  <2>3. Len(items'[s]) = Len(items[s]) - 1 /\ Len(received'[s]) = Len(received[s]) + 1
    BY <2>1, <2>2
  <2>4. Len(items[s]) \in Nat /\ Len(received[s]) \in Nat
    BY <2>1
  <2> HIDE DEF TypeInv, TypeOK
  <2>5. Accepted(x) = Len(items[s]) + Len(received[s])
        /\ Accepted(x)' = (Len(items[s]) - 1) + (Len(received[s]) + 1)
    BY <1>1, <2>3, Zenon DEF Accepted
  <2> QED
    BY <2>4, <2>5, SumFacts, Zenon
<1>2. CASE Receive(t, s) /\ x # s
  BY <1>2 DEF Receive, Accepted
<1>3. CASE End(t, s)
  BY <1>3 DEF End, Accepted, streamVars
<1> QED
  BY <1>1, <1>2, <1>3

\* A push changes what one stream has accepted, by one, unless it is shut.
LEMMA PushAccepted ==
  ASSUME TypeInv, NEW s \in Streams, NEW x \in Streams, PushTo(s)
  PROVE  Accepted(x)' = IF x = s /\ ~shut[s] THEN Accepted(x) + 1 ELSE Accepted(x)
<1> USE DEF TypeInv, TypeOK
<1>1. CASE x = s /\ ~shut[s]
  <2>1. items[s] \in Seq(Nat) /\ offered[s] + 1 \in Nat /\ received'[s] = received[s]
        /\ items'[s] = Append(items[s], offered[s] + 1)
    BY <1>1 DEF PushTo
  <2>2. Len(items'[s]) = Len(items[s]) + 1
    BY <2>1
  <2>3. Len(items[s]) \in Nat /\ Len(received[s]) \in Nat
    BY <2>1
  <2> HIDE DEF TypeInv, TypeOK
  <2>4. Accepted(x) = Len(items[s]) + Len(received[s])
        /\ Accepted(x)' = (Len(items[s]) + 1) + Len(received[s])
    BY <1>1, <2>1, <2>2, Zenon DEF Accepted
  <2> QED
    BY <1>1, <2>3, <2>4, SumFacts, Zenon
<1>2. CASE x # s \/ shut[s]
  BY <1>2 DEF PushTo, Accepted
<1> QED
  BY <1>1, <1>2

LEMMA AcceptedNat ==
  ASSUME TypeInv, NEW s \in Streams
  PROVE  Accepted(s) \in Nat /\ (items[s] # <<>> => Accepted(s) >= 1)
<1>1. items[s] \in Seq(Nat) /\ received[s] \in Seq(Nat)
  BY DEF TypeInv, TypeOK
<1>2. Len(items[s]) \in Nat /\ Len(received[s]) \in Nat
      /\ (items[s] # <<>> => Len(items[s]) >= 1)
  BY <1>1
<1>3. Len(items[s]) + Len(received[s]) \in Nat
      /\ (Len(items[s]) >= 1 => Len(items[s]) + Len(received[s]) >= 1)
  BY <1>2, SumFacts, Zenon
<1> QED
  BY <1>2, <1>3, Zenon DEF Accepted

-----------------------------------------------------------------------------
\* Only the worker and the thread in run() may be in close_all() before anybody
\* asked for the end, and both only after the error was accepted; nothing that
\* shows an end is visible earlier.
EndVisible ==
  \/ closed
  \/ worker \in {"closing", "exited"}
  \/ run \in {"on_error", "closing"}
  \/ closeAt["main"] # 0
  \/ \E s \in Streams : shut[s]

ReasonInv ==
  /\ Accepted("errors") <= offered["errors"]
  /\ ~stopped => \A t \in Threads \ {"main", "worker"} : closeAt[t] = 0
  /\ ~stopped /\ EndVisible => Accepted("errors") = 1
  /\ poll # "open" => stopped

\* Steps of the worker.
LEMMA WorkerReason == TypeInv /\ ReasonInv /\ Worker => ReasonInv'
<1> SUFFICES ASSUME TypeInv, ReasonInv, Worker PROVE ReasonInv'
  OBVIOUS
<1>0. "errors" \in Streams /\ Accepted("errors") \in Nat /\ offered["errors"] \in {0, 1}
      /\ stopped' = stopped /\ closed' = closed /\ run' = run /\ worker # "exited"
      /\ poll' = poll
  BY AcceptedNat, WorkerFrame DEF Streams, TypeInv, TypeOK
<1>1. CASE Top \/ GetFails \/ GetThrows \/ SleepEnds \/ CheckClosed \/ WorkerReturns
           \/ \E r \in Replies : GetReturns(r)
  <2>1. UNCHANGED <<streamVars, closeAt>> /\ Accepted("errors")' = Accepted("errors")
    BY <1>1 DEF Top, GetFails, GetThrows, SleepEnds, CheckClosed, WorkerReturns, GetReturns,
                streamVars, Accepted
  <2>2. worker' \in {"closing", "exited"} => closed \/ worker = "closing"
    BY <1>1 DEF Top, GetFails, GetThrows, SleepEnds, CheckClosed, WorkerReturns, GetReturns
  <2>3. EndVisible' => EndVisible
    BY <1>0, <2>1, <2>2 DEF EndVisible, streamVars
  <2> QED
    BY <1>0, <2>1, <2>3 DEF ReasonInv, streamVars
<1>2. CASE Dispatch
  <2>1. closeAt' = closeAt /\ worker' \notin {"closing", "exited"}
    BY <1>2 DEF Dispatch
  <2>2. shut' = shut /\ offered'["errors"] = offered["errors"]
        /\ Accepted("errors")' = Accepted("errors")
    <3>1. CASE UNCHANGED streamVars
      BY <3>1 DEF streamVars, Accepted
    <3>2. CASE PushTo(ParsedTo(reply)) /\ ParsedTo(reply) # "none"
      <4>1. ParsedTo(reply) \in Streams /\ ParsedTo(reply) # "errors"
        BY <3>2, ParsedToStream DEF Streams
      <4> QED
        BY <1>0, <3>2, <4>1, PushAccepted, PushTypes
    <3> QED
      BY <1>2, <3>1, <3>2 DEF Dispatch, IsEvent
  <2>3. EndVisible' => EndVisible
    BY <1>0, <2>1, <2>2 DEF EndVisible
  <2> QED
    BY <1>0, <2>1, <2>2, <2>3 DEF ReasonInv
<1>3. CASE PushError
  <2>1. offered["errors"] = 0 /\ Accepted("errors") = 0
    BY <1>0, <1>3 DEF PushError, TypeInv, WorkerInv, ReasonInv
  <2>2. ~stopped => ~shut["errors"]
    BY <1>0, <2>1 DEF ReasonInv, EndVisible
  <2>3. PushTo("errors") /\ offered'["errors"] = 1
    BY <1>0, <1>3, <2>1, PushTypes DEF PushError, TypeInv, TypeOK
  <2>4. Accepted("errors")' = IF shut["errors"] THEN 0 ELSE 1
    BY <1>0, <2>1, <2>3, PushAccepted
  <2>5. \A t \in Threads \ {"worker"} : closeAt'[t] = closeAt[t]
    BY <1>3 DEF PushError, BeginCloseAll, TypeInv, TypeOK
  <2> QED
    BY <1>0, <2>2, <2>3, <2>4, <2>5 DEF ReasonInv
<1> QED
  BY <1>1, <1>2, <1>3 DEF Worker

\* Steps of everybody else.
LEMMA OthersReason == TypeInv /\ ReasonInv /\ [Next]_vars /\ ~Worker => ReasonInv'
<1> SUFFICES ASSUME TypeInv, ReasonInv, [Next]_vars, ~Worker PROVE ReasonInv'
  OBVIOUS
<1>0. "errors" \in Streams /\ Accepted("errors") \in Nat /\ offered["errors"] \in {0, 1}
      /\ worker' = worker
  BY AcceptedNat, OthersFrame DEF Streams, TypeInv, TypeOK
<1>1. ASSUME NEW t \in Threads, CloseStep(t) PROVE ReasonInv'
  <2>1. Accepted("errors")' = Accepted("errors") /\ UNCHANGED <<offered, stopped, run, poll>>
    BY <1>1 DEF CloseStep, Accepted, runVars
  <2>2. ~stopped => EndVisible /\ t \in {"main", "worker"}
    BY <1>1 DEF CloseStep, InCloseAll, ReasonInv, EndVisible, TypeInv, WorkerInv
  <2>3. \A x \in Threads \ {t} : closeAt'[x] = closeAt[x]
    BY <1>1 DEF CloseStep, TypeInv, TypeOK
  <2> QED
    BY <1>0, <2>1, <2>2, <2>3 DEF ReasonInv
<1>2. ASSUME NEW t \in Pullers, NEW s \in Streams, Receive(t, s) \/ End(t, s),
             UNCHANGED <<closed, closeAt, stopped, poll>>,
             run' \in {"on_error", "closing"} =>
               run \in {"on_error", "closing"} \/ (s = "errors" /\ Receive(t, s))
      PROVE  ReasonInv'
  <2>1. Accepted("errors")' = Accepted("errors") /\ UNCHANGED <<shut, offered>>
    BY <1>0, <1>2, PullAccepted, PullTypes
  <2>2. EndVisible' => EndVisible \/ (s = "errors" /\ Receive(t, s))
    BY <1>0, <1>2, <2>1 DEF EndVisible
  <2>3. s = "errors" /\ Receive(t, s) => Accepted("errors") = 1
    BY <1>0, AcceptedNat DEF Receive, ReasonInv
  <2> QED
    BY <1>2, <2>1, <2>2, <2>3 DEF ReasonInv
<1>3. ASSUME UNCHANGED <<closed, streamVars, stopped>>,
             closeAt' = closeAt \/ stopped \/ EndVisible,
             \A t \in Threads \ {"main", "worker"} : ~stopped => closeAt'[t] = closeAt[t],
             EndVisible' => EndVisible, poll' # "open" => poll # "open"
      PROVE  ReasonInv'
  <2>1. Accepted("errors")' = Accepted("errors")
    BY <1>3 DEF streamVars, Accepted
  <2> QED
    BY <1>3, <2>1 DEF ReasonInv, streamVars
<1>4. ASSUME UNCHANGED streamVars, stopped' = TRUE PROVE ReasonInv'
  <2>1. Accepted("errors")' = Accepted("errors")
    BY <1>4 DEF streamVars, Accepted
  <2> QED
    BY <1>4, <2>1 DEF ReasonInv, streamVars
<1>5. ASSUME NEW u \in Users, User(u) PROVE ReasonInv'
  <2>0. u \in Pullers
    BY DEF Pullers
  <2>1. CASE UserPulled(u)
    BY <1>2, <2>0, <2>1 DEF UserPulled, runVars
  <2>2. CASE UserClose(u)
    BY <1>4, <2>2 DEF UserClose
  <2>3. ASSUME NEW s \in Streams, UserPull(u, s) PROVE ReasonInv'
    <3>1. EndVisible' => EndVisible
      BY <2>3 DEF UserPull, EndVisible, runVars, streamVars
    <3> QED
      BY <1>3, <2>3, <3>1 DEF UserPull
  <2> QED
    BY <1>5, <2>1, <2>2, <2>3 DEF User
<1>6. CASE Run
  <2>0. "main" \in Pullers /\ Pumps \subseteq Pullers
    BY DEF Pullers
  <2>1. CASE RunStart \/ RunClosed \/ RunReturns \/ \E t \in Pumps : CallbackReturns(t)
    <3>1. EndVisible' => EndVisible
      BY <1>0, <2>1 DEF RunStart, RunClosed, RunReturns, CallbackReturns, EndVisible,
                        streamVars, runElse
    <3> QED
      BY <1>3, <2>1, <3>1 DEF RunStart, RunClosed, RunReturns, CallbackReturns, runElse
  <2>2. CASE MainPulled
    BY <1>0, <1>2, <2>0, <2>2 DEF MainPulled, runElse
  <2>3. CASE OnErrorReturns
    <3>1. EndVisible
      BY <2>3 DEF OnErrorReturns, EndVisible
    <3>2. \A t \in Threads \ {"main"} : closeAt'[t] = closeAt[t]
      BY <2>3 DEF OnErrorReturns, BeginCloseAll, TypeInv, TypeOK
    <3> QED
      BY <1>3, <2>3, <3>1, <3>2 DEF OnErrorReturns, runElse
  <2>4. ASSUME NEW t \in Pumps, PumpPulled(t) PROVE ReasonInv'
    BY <1>2, <2>0, <2>4 DEF PumpPulled, runElse
  <2>5. ASSUME NEW t \in Pumps, CallbackCloses(t) PROVE ReasonInv'
    BY <1>4, <2>5 DEF CallbackCloses
  <2> QED
    BY <1>6, <2>1, <2>2, <2>3, <2>4, <2>5 DEF Run
<1>7. CASE Destroy
  BY <1>4, <1>7 DEF Destroy, ownerElse
<1>8. CASE DestroyImpl
  <2>1. UNCHANGED streamVars /\ stopped' = TRUE
    BY <1>8 DEF DestroyImpl, ownerElse, ReasonInv, TypeInv, TypeOK
  <2> QED
    BY <1>4, <2>1
<1>9. CASE Destroyed \/ ClientDestroyed \/ UNCHANGED vars
  <2>1. EndVisible' => EndVisible
    BY <1>9 DEF Destroyed, ClientDestroyed, vars, EndVisible, ownerElse, runVars, streamVars
  <2> QED
    BY <1>3, <1>9, <2>1 DEF Destroyed, ClientDestroyed, vars, ownerElse, streamVars
<1> QED
  BY <1>1, <1>5, <1>6, <1>7, <1>8, <1>9 DEF Next, Owner, AllGone

\* A subscription never ends without the caller's wish or an error in the errors
\* stream, for any users, responses and number of events.
THEOREM NoSilentEnd == Spec => []EndHasReason
<1>1. Init => ReasonInv
  <2> SUFFICES ASSUME Init PROVE ReasonInv
    OBVIOUS
  <2>1. Accepted("errors") = 0
    BY DEF Init, Accepted, Streams
  <2>2. \A t \in Threads : closeAt[t] = 0
    BY DEF Init
  <2>3. ~EndVisible
    BY DEF Init, EndVisible, Threads, Pullers
  <2> QED
    BY <2>1, <2>2, <2>3 DEF Init, ReasonInv, Streams
<1>2. TypeInv /\ ReasonInv /\ [Next]_vars => ReasonInv'
  BY WorkerReason, OthersReason
<1>3. ReasonInv => EndHasReason
  BY DEF ReasonInv, EndVisible, EndHasReason
<1> QED
  BY <1>1, <1>2, <1>3, InitTypeInv, StepTypeInv, PTL DEF Spec

-----------------------------------------------------------------------------
\* A pump pulls from its own stream and only in state "pull", ends when that stream is shut and
\* empty, and run() waits for both pumps.
DrainInv ==
  /\ \A t \in Pumps :
       pulling[t] # "none" => pulling[t] = PumpStream[t] /\ pump[t] = "pull"
  /\ \A t \in Pumps : pump[t] = "done" =>
       shut[PumpStream[t]] /\ items[PumpStream[t]] = <<>>
  /\ run = "returned" => \A t \in Pumps : pump[t] = "done"

\* A stream that is shut and empty stays so.
LEMMA ShutEmptyStays ==
  ASSUME TypeInv, [Next]_vars, NEW s \in Streams, shut[s], items[s] = <<>>
  PROVE  shut'[s] /\ items'[s] = <<>>
<1> USE DEF TypeInv, TypeOK
<1>1. CASE UNCHANGED <<shut, items>>
  BY <1>1
<1>2. ASSUME NEW t \in Threads, CloseStep(t) PROVE shut'[s] /\ items'[s] = <<>>
  BY <1>2 DEF CloseStep
<1>3. ASSUME NEW x, PushTo(x) PROVE shut'[s] /\ items'[s] = <<>>
  BY <1>3 DEF PushTo
<1>4. ASSUME NEW t, NEW x, Receive(t, x) \/ End(t, x) PROVE shut'[s] /\ items'[s] = <<>>
  BY <1>4 DEF Receive, End, streamVars
<1>5. CASE Worker
  BY <1>1, <1>3, <1>5 DEF Worker, Top, GetReturns, GetFails, GetThrows, SleepEnds,
     CheckClosed, Dispatch, PushError, WorkerReturns, streamVars
<1>6. ASSUME NEW u \in Users, User(u) PROVE shut'[s] /\ items'[s] = <<>>
  BY <1>1, <1>4, <1>6 DEF User, UserPulled, UserPull, UserClose, streamVars
<1>7. CASE Run
  BY <1>1, <1>4, <1>7 DEF Run, RunStart, MainPulled, OnErrorReturns, RunClosed, RunReturns,
     PumpPulled, CallbackCloses, CallbackReturns, streamVars
<1>8. CASE Owner \/ ClientDestroyed \/ UNCHANGED vars
  BY <1>1, <1>8 DEF Owner, Destroy, DestroyImpl, Destroyed, ClientDestroyed, ownerElse,
     streamVars, vars
<1> QED
  BY <1>2, <1>5, <1>6, <1>7, <1>8 DEF Next, AllGone

\* run() returns only when every accepted event was handed to some consumer.
THEOREM RunReturnsDrained == Spec => []RunDrains
<1>0. PumpStream["tm"] = "matches" /\ PumpStream["tn"] = "notifications"
      /\ \A t \in Pumps : PumpStream[t] \in Streams
  BY DEF PumpStream, Pumps, Streams
<1>1. ASSUME Init PROVE DrainInv
  <2>1. \A t \in Pumps : t \in Pullers /\ pulling[t] = "none" /\ pump[t] = "off"
    BY <1>1 DEF Init, Pullers
  <2>2. run = "idle"
    BY <1>1 DEF Init
  <2> QED
    BY <2>1, <2>2 DEF DrainInv
<1>2. TypeInv /\ DrainInv /\ [Next]_vars => DrainInv'
  <2> SUFFICES ASSUME TypeInv, DrainInv, [Next]_vars PROVE DrainInv'
    OBVIOUS
  <2>0. \A t \in Pumps : shut[PumpStream[t]] /\ items[PumpStream[t]] = <<>>
          => shut'[PumpStream[t]] /\ items'[PumpStream[t]] = <<>>
    BY <1>0, ShutEmptyStays
  <2>1. CASE UNCHANGED <<pulling, pump, run>>
    BY <2>0, <2>1 DEF DrainInv
  <2>2. CASE Worker \/ Owner \/ ClientDestroyed \/ UNCHANGED vars
             \/ \E t \in Threads : CloseStep(t)
    BY <2>1, <2>2, WorkerFrame DEF Owner, Destroy, DestroyImpl, Destroyed, ClientDestroyed,
       CloseStep, ownerElse, runVars, vars
  <2>3. ASSUME NEW u \in Users, User(u) PROVE DrainInv'
    <3>1. u \notin Pumps /\ u \in Pullers
      BY LPAssumption DEF LPAssumption, Pumps, Pullers
    <3>2. UNCHANGED <<pump, run>> /\ \A t \in Pumps : pulling'[t] = pulling[t]
      BY <2>3, <3>1 DEF User, UserPulled, UserPull, UserClose, Receive, End, runVars,
         TypeInv, TypeOK, Pullers
    <3> QED
      BY <2>0, <3>2 DEF DrainInv
  <2>4. CASE RunStart
    BY <2>0, <2>4 DEF RunStart, DrainInv, Pullers, Pumps
  <2>5. CASE MainPulled
    <3>1. \A t \in Pumps : pulling'[t] = pulling[t]
      BY <2>5 DEF MainPulled, Receive, End, TypeInv, TypeOK, Pullers, Pumps
    <3>2. pump' = pump /\ run' # "returned"
      BY <2>5 DEF MainPulled
    <3> QED
      BY <2>0, <3>1, <3>2 DEF DrainInv
  <2>6. CASE OnErrorReturns \/ RunClosed \/ RunReturns
    BY <2>0, <2>6 DEF OnErrorReturns, RunClosed, RunReturns, DrainInv
  <2>7. ASSUME NEW t \in Pumps, PumpPulled(t) PROVE DrainInv'
    <3>1. PICK s \in Streams : \/ Receive(t, s) /\ pump' = [pump EXCEPT ![t] = "callback"]
                               \/ End(t, s) /\ pump' = [pump EXCEPT ![t] = "done"]
      BY <2>7 DEF PumpPulled
    <3>2. s = PumpStream[t] /\ pulling' = [pulling EXCEPT ![t] = "none"]
      BY <3>1 DEF Receive, End, DrainInv, Streams
    <3>3. pump[t] = "pull" /\ run' = run /\ run # "returned"
      BY <2>7, <3>1 DEF PumpPulled, DrainInv, Receive, End, Streams
    <3>4. pump'[t] = "done" => shut'[s] /\ items'[s] = <<>>
      BY <3>1 DEF End, streamVars, TypeInv, TypeOK
    <3>5. pulling'[t] = "none"
          /\ \A x \in Pumps \ {t} : pulling'[x] = pulling[x] /\ pump'[x] = pump[x]
      BY <3>1, <3>2 DEF TypeInv, TypeOK, Pullers
    <3>6. pump'[t] = "done" => shut'[PumpStream[t]] /\ items'[PumpStream[t]] = <<>>
      BY <3>2, <3>4
    <3> HIDE DEF TypeInv
    <3> QED
      BY <2>0, <3>3, <3>5, <3>6 DEF DrainInv
  <2>8. ASSUME NEW t \in Pumps, CallbackCloses(t) PROVE DrainInv'
    BY <2>1, <2>8 DEF CallbackCloses, runVars
  <2>9. ASSUME NEW t \in Pumps, CallbackReturns(t) PROVE DrainInv'
    <3>1. run' = run /\ run # "returned" /\ pump'[t] = "pull" /\ pulling'[t] = PumpStream[t]
      BY <2>9 DEF CallbackReturns, DrainInv, TypeInv, TypeOK, Pullers
    <3>2. \A x \in Pumps \ {t} : pulling'[x] = pulling[x] /\ pump'[x] = pump[x]
      BY <2>9 DEF CallbackReturns, TypeInv, TypeOK, Pullers
    <3> QED
      BY <2>0, <3>1, <3>2 DEF DrainInv
  <2> QED
    BY <2>2, <2>3, <2>4, <2>5, <2>6, <2>7, <2>8, <2>9 DEF Next, Run, AllGone
<1>3. DrainInv => RunDrains
  BY <1>0 DEF DrainInv, RunDrains, Pumps
<1> QED
  BY <1>1, <1>2, <1>3, InitTypeInv, StepTypeInv, PTL DEF Spec

-----------------------------------------------------------------------------
\* However many threads are inside close_all(), the errors stream is shut last.
CloseInv ==
  /\ \A t \in Threads : closeAt[t] >= 3 => shut["matches"]
  /\ \A t \in Threads : closeAt[t] = 4 => shut["notifications"]
  /\ shut["errors"] => shut["matches"] /\ shut["notifications"]

\* Outside CloseStep no stream is shut, and a thread only ever enters close_all()
\* at its first step.
LEMMA CloseFrame ==
  ASSUME TypeInv, [Next]_vars, \A t \in Threads : ~CloseStep(t)
  PROVE  shut' = shut /\ \A t \in Threads : closeAt'[t] \in {closeAt[t], 1}
<1> DEFINE goal == shut' = shut /\ \A t \in Threads : closeAt'[t] \in {closeAt[t], 1}
<1>1. ASSUME shut' = shut, closeAt' = closeAt \/ \E x : BeginCloseAll(x) PROVE goal
  BY <1>1 DEF BeginCloseAll, TypeInv, TypeOK
<1>2. CASE Worker
  <2>1. shut' = shut
    BY <1>2 DEF Worker, Top, GetReturns, GetFails, GetThrows, SleepEnds, CheckClosed,
       Dispatch, PushError, WorkerReturns, PushTo, streamVars
  <2>2. closeAt' = closeAt \/ BeginCloseAll("worker")
    BY <1>2 DEF Worker, Top, GetReturns, GetFails, GetThrows, SleepEnds, CheckClosed,
       Dispatch, PushError, WorkerReturns
  <2> QED
    BY <1>1, <2>1, <2>2
<1>3. ASSUME NEW u \in Users, User(u) PROVE goal
  <2>1. shut' = shut /\ (closeAt' = closeAt \/ BeginCloseAll(u))
    BY <1>3 DEF User, UserPulled, UserPull, UserClose, Receive, End, streamVars
  <2> QED
    BY <1>1, <2>1
<1>4. CASE Run
  <2>1. shut' = shut
    BY <1>4 DEF Run, RunStart, MainPulled, OnErrorReturns, RunClosed, RunReturns, PumpPulled,
       CallbackCloses, CallbackReturns, Receive, End, streamVars
  <2>2. closeAt' = closeAt \/ \E x : BeginCloseAll(x)
    BY <1>4 DEF Run, RunStart, MainPulled, OnErrorReturns, RunClosed, RunReturns, PumpPulled,
       CallbackCloses, CallbackReturns
  <2> QED
    BY <1>1, <2>1, <2>2
<1>5. CASE Owner \/ ClientDestroyed \/ UNCHANGED vars
  <2>1. shut' = shut /\ (closeAt' = closeAt \/ BeginCloseAll("owner"))
    BY <1>5 DEF Owner, Destroy, DestroyImpl, Destroyed, ClientDestroyed, ownerElse,
       streamVars, vars
  <2> QED
    BY <1>1, <2>1
<1> QED
  BY <1>2, <1>3, <1>4, <1>5 DEF Next, AllGone

LEMMA StepCloseInv == TypeInv /\ CloseInv /\ [Next]_vars => CloseInv'
<1> SUFFICES ASSUME TypeInv, CloseInv, [Next]_vars PROVE CloseInv'
  OBVIOUS
<1>1. \A t \in Threads : closeAt[t] \in 0..4
  BY CloseOrderLen DEF TypeInv, TypeOK
<1>2. ASSUME NEW t \in Threads, CloseStep(t) PROVE CloseInv'
  <2>1. /\ CloseOrder[1] = "closed" /\ CloseOrder[2] = "matches"
        /\ CloseOrder[3] = "notifications" /\ CloseOrder[4] = "errors"
    BY DEF CloseOrder
  <2>2. \A s \in Streams : shut'[s] <=> (shut[s] \/ s = CloseOrder[closeAt[t]])
    BY <1>2 DEF CloseStep, TypeInv, TypeOK
  <2>3. /\ closeAt[t] \in 1..4
        /\ closeAt'[t] = IF closeAt[t] = 4 THEN 0 ELSE closeAt[t] + 1
        /\ \A x \in Threads \ {t} : closeAt'[x] = closeAt[x]
    BY <1>1, <1>2, CloseOrderLen DEF CloseStep, InCloseAll, TypeInv, TypeOK
  <2>4. {"matches", "notifications", "errors"} = Streams
    BY DEF Streams
  <2>5. shut'["errors"] => shut'["matches"] /\ shut'["notifications"]
    BY <2>1, <2>2, <2>3, <2>4 DEF CloseInv
  <2>6. ASSUME NEW x \in Threads
        PROVE  /\ closeAt'[x] >= 3 => shut'["matches"]
               /\ closeAt'[x] = 4 => shut'["notifications"]
    <3>1. CASE x = t
      BY <2>1, <2>2, <2>3, <2>4, <3>1 DEF CloseInv
    <3>2. CASE x # t
      BY <2>2, <2>3, <2>4, <3>2 DEF CloseInv
    <3> QED
      BY <3>1, <3>2
  <2> QED
    BY <2>5, <2>6 DEF CloseInv
<1>3. CASE \A t \in Threads : ~CloseStep(t)
  BY <1>1, <1>3, CloseFrame DEF CloseInv
<1> QED
  BY <1>2, <1>3

\* Once the errors stream has ended no stream accepts anything any more.
THEOREM NothingMoreAccepted == Spec => NothingAcceptedAfterErrorsEnd
<1>1. Init => CloseInv
  BY DEF Init, CloseInv, Streams
<1>2. TypeInv /\ CloseInv /\ [Next]_vars
        => [shut["errors"] => \A s \in Streams : Accepted(s)' = Accepted(s)]_vars
  <2> SUFFICES ASSUME TypeInv, CloseInv, [Next]_vars, shut["errors"], NEW s \in Streams
               PROVE  Accepted(s)' = Accepted(s)
    OBVIOUS
  <2>0. \A x \in Streams : shut[x]
    BY DEF CloseInv, Streams
  <2>1. CASE UNCHANGED <<items, received>>
    BY <2>1 DEF Accepted
  <2>2. ASSUME NEW x \in Streams, PushTo(x) PROVE Accepted(s)' = Accepted(s)
    BY <2>0, <2>2, PushAccepted
  <2>3. ASSUME NEW t \in Pullers, NEW x \in Streams, Receive(t, x) \/ End(t, x)
        PROVE  Accepted(s)' = Accepted(s)
    BY <2>3, PullAccepted
  <2>4. CASE Worker
    <3>1. CASE Dispatch /\ ~UNCHANGED streamVars
      <4>1. PushTo(ParsedTo(reply)) /\ ParsedTo(reply) # "none"
        BY <3>1 DEF Dispatch, IsEvent
      <4> QED
        BY <2>2, <4>1, ParsedToStream DEF Streams
    <3>2. CASE PushError
      BY <2>2, <3>2 DEF PushError, Streams
    <3>3. CASE UNCHANGED streamVars
      BY <2>1, <3>3 DEF streamVars
    <3> QED
      BY <2>4, <3>1, <3>2, <3>3 DEF Worker, Top, GetReturns, GetFails, GetThrows, SleepEnds,
         CheckClosed, WorkerReturns
  <2>5. ASSUME NEW u \in Users, User(u) PROVE Accepted(s)' = Accepted(s)
    BY <2>1, <2>3, <2>5 DEF User, UserPulled, UserPull, UserClose, streamVars, Pullers
  <2>6. CASE Run
    BY <2>1, <2>3, <2>6 DEF Run, RunStart, MainPulled, OnErrorReturns, RunClosed, RunReturns,
       PumpPulled, CallbackCloses, CallbackReturns, streamVars, Pullers, Streams
  <2>7. CASE Owner \/ ClientDestroyed \/ UNCHANGED vars \/ \E t \in Threads : CloseStep(t)
    BY <2>1, <2>7 DEF Owner, Destroy, DestroyImpl, Destroyed, ClientDestroyed, CloseStep,
       ownerElse, streamVars, vars
  <2> QED
    BY <2>4, <2>5, <2>6, <2>7 DEF Next, AllGone
<1> QED
  BY <1>1, <1>2, InitTypeInv, StepTypeInv, StepCloseInv, PTL
     DEF Spec, NothingAcceptedAfterErrorsEnd

-----------------------------------------------------------------------------
\* Who of run() pulls: nobody before run() was called, the caller only while it
\* waits for the error, a pump only its own stream and never from its callback.
PullInv ==
  /\ pulling["main"] # "none" => run = "errors" /\ pulling["main"] = "errors"
  /\ \A t \in Pumps :
       /\ pulling[t] # "none" => pulling[t] = PumpStream[t] /\ pump[t] = "pull"
       /\ run = "idle" => pump[t] = "off"

\* The worker has room for the event in its hands.
RoomInv ==
  /\ worker \in {"got", "dispatch"} /\ IsEvent(reply) => Told < MaxEvents
  /\ Told <= MaxEvents

LEMMA InitPullInv == Init => PullInv /\ RoomInv
<1> SUFFICES ASSUME Init PROVE PullInv /\ RoomInv
  OBVIOUS
<1>1. "main" \in Pullers /\ Pumps \subseteq Pullers
  BY DEF Pullers
<1>2. PullInv
  BY <1>1 DEF Init, PullInv
<1>3. Told = 0
  BY DEF Init, Told, Streams
<1> QED
  BY <1>2, <1>3, LPAssumption DEF Init, RoomInv, LPAssumption

LEMMA StepPullInv == TypeInv /\ PullInv /\ [Next]_vars => PullInv'
<1> SUFFICES ASSUME TypeInv, PullInv, [Next]_vars PROVE PullInv'
  OBVIOUS
<1>0. "main" \in Pullers /\ Pumps \subseteq Pullers /\ "main" \notin Pumps
  BY DEF Pullers, Pumps
<1>1. CASE UNCHANGED <<pulling, pump, run>>
  BY <1>1 DEF PullInv
<1>2. CASE Worker \/ Owner \/ ClientDestroyed \/ UNCHANGED vars
           \/ \E t \in Threads : CloseStep(t)
  BY <1>1, <1>2, WorkerFrame DEF Owner, Destroy, DestroyImpl, Destroyed, ClientDestroyed,
     CloseStep, ownerElse, runVars, vars
<1>3. ASSUME NEW u \in Users, User(u) PROVE PullInv'
  <2>1. u \notin Pumps /\ u # "main" /\ u \in Pullers
    BY LPAssumption DEF LPAssumption, Pumps, Pullers
  <2>2. UNCHANGED <<pump, run>> /\ pulling'["main"] = pulling["main"]
        /\ \A t \in Pumps : pulling'[t] = pulling[t]
    BY <1>0, <1>3, <2>1 DEF User, UserPulled, UserPull, UserClose, Receive, End, runVars,
       TypeInv, TypeOK
  <2> QED
    BY <2>2 DEF PullInv
<1>4. CASE RunStart
  BY <1>0, <1>4 DEF RunStart, PullInv
<1>5. CASE MainPulled
  <2>1. pulling' = [pulling EXCEPT !["main"] = "none"] /\ pump' = pump /\ run' # "idle"
    BY <1>5 DEF MainPulled, Receive, End
  <2>2. pulling'["main"] = "none" /\ \A t \in Pumps : pulling'[t] = pulling[t]
    BY <1>0, <2>1 DEF TypeInv, TypeOK
  <2> QED
    BY <2>1, <2>2 DEF PullInv
<1>6. CASE OnErrorReturns \/ RunClosed \/ RunReturns
  BY <1>6 DEF OnErrorReturns, RunClosed, RunReturns, PullInv
<1>7. ASSUME NEW t \in Pumps, PumpPulled(t) PROVE PullInv'
  <2>1. PICK s \in Streams : \/ Receive(t, s) /\ pump' = [pump EXCEPT ![t] = "callback"]
                             \/ End(t, s) /\ pump' = [pump EXCEPT ![t] = "done"]
    BY <1>7 DEF PumpPulled
  <2>2. pulling' = [pulling EXCEPT ![t] = "none"] /\ pulling[t] = s /\ s # "none"
    BY <2>1 DEF Receive, End, Streams
  <2>3. run' = run /\ run # "idle"
    BY <1>7, <2>2 DEF PumpPulled, PullInv
  <2>4. /\ pulling'[t] = "none"
        /\ \A x \in Pumps \ {t} : pulling'[x] = pulling[x] /\ pump'[x] = pump[x]
        /\ pulling'["main"] = pulling["main"]
    BY <1>0, <2>1, <2>2 DEF TypeInv, TypeOK
  <2> QED
    BY <2>3, <2>4 DEF PullInv
<1>8. ASSUME NEW t \in Pumps, CallbackCloses(t) PROVE PullInv'
  BY <1>1, <1>8 DEF CallbackCloses, runVars
<1>9. ASSUME NEW t \in Pumps, CallbackReturns(t) PROVE PullInv'
  <2>1. run' = run /\ run # "idle" /\ pump'[t] = "pull" /\ pulling'[t] = PumpStream[t]
    BY <1>0, <1>9 DEF CallbackReturns, PullInv, TypeInv, TypeOK
  <2>2. /\ \A x \in Pumps \ {t} : pulling'[x] = pulling[x] /\ pump'[x] = pump[x]
        /\ pulling'["main"] = pulling["main"]
    BY <1>0, <1>9 DEF CallbackReturns, TypeInv, TypeOK
  <2> QED
    BY <2>1, <2>2 DEF PullInv
<1> QED
  BY <1>2, <1>3, <1>4, <1>5, <1>6, <1>7, <1>8, <1>9 DEF Next, Run, AllGone

LEMMA StepRoomInv == TypeInv /\ RoomInv /\ [Next]_vars => RoomInv'
<1> SUFFICES ASSUME TypeInv, RoomInv, [Next]_vars PROVE RoomInv'
  OBVIOUS
<1>0. offered["matches"] \in Nat /\ offered["notifications"] \in Nat /\ Told \in Nat
      /\ MaxEvents \in Nat
  BY LPAssumption DEF LPAssumption, TypeInv, TypeOK, Streams, Told
<1>1. CASE UNCHANGED <<offered, worker, reply>>
  BY <1>1 DEF RoomInv, Told
<1>2. CASE Top \/ GetFails \/ GetThrows \/ SleepEnds \/ CheckClosed \/ WorkerReturns
  <2>1. UNCHANGED <<offered, reply>>
        /\ (worker' \in {"got", "dispatch"} => worker \in {"got", "dispatch"})
    BY <1>2 DEF Top, GetFails, GetThrows, SleepEnds, CheckClosed, WorkerReturns, streamVars
  <2> QED
    BY <2>1 DEF RoomInv, Told
<1>3. ASSUME NEW r \in Replies, GetReturns(r) PROVE RoomInv'
  BY <1>3 DEF GetReturns, RoomInv, Told, streamVars
<1>4. CASE Dispatch
  <2>1. CASE UNCHANGED streamVars /\ worker' \in {"fail", "top"}
    BY <2>1 DEF RoomInv, Told, streamVars
  <2>2. CASE PushTo(ParsedTo(reply)) /\ IsEvent(reply) /\ worker' = "top"
    <3>1. ParsedTo(reply) \in {"matches", "notifications"} /\ Told < MaxEvents
      BY <1>4, <2>2, ParsedToStream DEF IsEvent, Dispatch, RoomInv
    <3>2. offered' = [offered EXCEPT ![ParsedTo(reply)] = offered[ParsedTo(reply)] + 1]
      BY <2>2 DEF PushTo
    <3>3. Told' = Told + 1
      BY <1>0, <3>1, <3>2 DEF Told, TypeInv, TypeOK, Streams
    <3> QED
      BY <1>0, <2>2, <3>1, <3>3 DEF RoomInv
  <2> QED
    BY <1>4, <2>1, <2>2 DEF Dispatch
<1>5. CASE PushError
  <2>1. Told' = Told
    BY <1>5 DEF PushError, PushTo, Told, TypeInv, TypeOK, Streams
  <2> QED
    BY <1>5, <2>1 DEF PushError, RoomInv
<1>6. CASE ~Worker
  <2>1. worker' = worker
    BY <1>6, OthersFrame
  <2>2. UNCHANGED <<offered, reply>>
    BY <1>6 DEF Next, CloseStep, User, UserPulled, UserPull, UserClose, Run, RunStart,
       MainPulled, OnErrorReturns, RunClosed, RunReturns, PumpPulled, CallbackCloses,
       CallbackReturns, Owner, Destroy, DestroyImpl, Destroyed, ClientDestroyed, AllGone,
       Receive, End, streamVars, runElse, ownerElse, vars
  <2> QED
    BY <1>1, <2>1, <2>2
<1> QED
  BY <1>2, <1>3, <1>4, <1>5, <1>6 DEF Worker

-----------------------------------------------------------------------------
\* What a step of the poll is to stream s: the actions of EventStream.
OfferTo(s) ==
  /\ offered[s] < MaxEvents + 1
  /\ offered'[s] = offered[s] + 1
  /\ items'[s] = IF shut[s] THEN items[s] ELSE Append(items[s], offered[s] + 1)
  /\ UNCHANGED <<shut[s], PullsOf(s), received[s]>>

ShutOf(s) ==
  /\ shut'[s] = TRUE
  /\ UNCHANGED <<items[s], PullsOf(s), offered[s], received[s]>>

AskOf(s, t) ==
  /\ PullsOf(s)[t] = "idle"
  /\ PullsOf(s)' = [PullsOf(s) EXCEPT ![t] = "pulling"]
  /\ UNCHANGED <<items[s], shut[s], offered[s], received[s]>>

ReceiveOf(s, t) ==
  /\ PullsOf(s)[t] = "pulling"
  /\ items[s] # <<>>
  /\ received'[s] = Append(received[s], Head(items[s]))
  /\ items'[s] = Tail(items[s])
  /\ PullsOf(s)' = [PullsOf(s) EXCEPT ![t] = "idle"]
  /\ UNCHANGED <<shut[s], offered[s]>>

EndOf(s, t) ==
  /\ PullsOf(s)[t] = "pulling"
  /\ items[s] = <<>>
  /\ shut[s]
  /\ PullsOf(s)' = [PullsOf(s) EXCEPT ![t] = "idle"]
  /\ UNCHANGED <<items[s], shut[s], offered[s], received[s]>>

NoStepOf(s) == UNCHANGED <<items[s], shut[s], PullsOf(s), offered[s], received[s]>>

StepOf(s) ==
  \/ NoStepOf(s) \/ OfferTo(s) \/ ShutOf(s)
  \/ \E t \in Pullers : AskOf(s, t) \/ ReceiveOf(s, t) \/ EndOf(s, t)

\* A pull of one thread from stream x is a pull from s or nothing to it.
LEMMA PullIsStep ==
  ASSUME TypeInv, NEW s \in Streams, NEW x \in Streams, NEW t \in Pullers,
         Receive(t, x) \/ End(t, x)
  PROVE  StepOf(s)
<1>1. pulling' = [pulling EXCEPT ![t] = "none"] /\ pulling[t] = x /\ s # "none"
  BY DEF Receive, End, Streams
<1>2. CASE x = s
  <2>1. PullsOf(s)[t] = "pulling" /\ PullsOf(s)' = [PullsOf(s) EXCEPT ![t] = "idle"]
    BY <1>1, <1>2 DEF PullsOf, TypeInv, TypeOK
  <2>2. CASE Receive(t, x)
    BY <1>2, <2>1, <2>2 DEF Receive, StepOf, ReceiveOf, TypeInv, TypeOK
  <2>3. CASE End(t, x)
    BY <1>2, <2>1, <2>3 DEF End, StepOf, EndOf, streamVars
  <2> QED
    BY <2>2, <2>3
<1>3. CASE x # s
  <2>1. PullsOf(s)' = PullsOf(s)
    BY <1>1, <1>3 DEF PullsOf, TypeInv, TypeOK
  <2>2. UNCHANGED <<items[s], shut[s], offered[s], received[s]>>
    BY <1>3 DEF Receive, End, streamVars, TypeInv, TypeOK
  <2> QED
    BY <2>1, <2>2 DEF StepOf, NoStepOf
<1> QED
  BY <1>2, <1>3

\* A push to stream x that has room is an offer to s or nothing to it.
LEMMA PushIsStep ==
  ASSUME TypeInv, NEW s \in Streams, NEW x \in Streams, PushTo(x),
         offered[x] < MaxEvents + 1, UNCHANGED pulling
  PROVE  StepOf(s)
<1>1. PullsOf(s)' = PullsOf(s)
  BY DEF PullsOf
<1>2. CASE x = s
  BY <1>1, <1>2 DEF PushTo, StepOf, OfferTo, TypeInv, TypeOK
<1>3. CASE x # s
  BY <1>1, <1>3 DEF PushTo, StepOf, NoStepOf, TypeInv, TypeOK
<1> QED
  BY <1>2, <1>3

\* A thread that pulled from nothing starts to pull from x.
LEMMA AskIsStep ==
  ASSUME TypeInv, NEW s \in Streams, NEW x \in Streams, NEW t \in Pullers,
         pulling[t] = "none", pulling' = [pulling EXCEPT ![t] = x], UNCHANGED streamVars
  PROVE  StepOf(s)
<1>0. s # "none"
  BY DEF Streams
<1>1. CASE x = s
  <2>1. PullsOf(s)[t] = "idle" /\ PullsOf(s)' = [PullsOf(s) EXCEPT ![t] = "pulling"]
    BY <1>0, <1>1 DEF PullsOf, TypeInv, TypeOK
  <2> QED
    BY <2>1 DEF StepOf, AskOf, streamVars
<1>2. CASE x # s
  <2>1. PullsOf(s)' = PullsOf(s)
    BY <1>0, <1>2 DEF PullsOf, TypeInv, TypeOK
  <2> QED
    BY <2>1 DEF StepOf, NoStepOf, streamVars
<1> QED
  BY <1>1, <1>2

LEMMA NothingIsStep ==
  ASSUME NEW s \in Streams, UNCHANGED <<pulling, streamVars>>
  PROVE  StepOf(s)
<1>1. PullsOf(s)' = PullsOf(s)
  BY DEF PullsOf
<1> QED
  BY <1>1 DEF StepOf, NoStepOf, streamVars

\* Whatever a thread does is one step of each stream, or nothing to it.
LEMMA NextIsStep ==
  ASSUME TypeInv, PullInv, RoomInv, [Next]_vars, NEW s \in Streams
  PROVE  StepOf(s)
<1>0. /\ "main" \in Pullers /\ Pumps \subseteq Pullers /\ Users \subseteq Pullers
      /\ "errors" \in Streams /\ \A t \in Pumps : PumpStream[t] \in Streams
  BY DEF Pullers, Pumps, Streams, PumpStream
<1>1. ASSUME NEW t \in Threads, CloseStep(t) PROVE StepOf(s)
  <2>1. PullsOf(s)' = PullsOf(s)
    BY <1>1 DEF CloseStep, PullsOf
  <2>2. UNCHANGED <<items, offered, received>> /\ shut'[s] \in {shut[s], TRUE}
    BY <1>1 DEF CloseStep, TypeInv, TypeOK
  <2> QED
    BY <2>1, <2>2 DEF StepOf, NoStepOf, ShutOf
<1>2. CASE Worker
  <2>1. pulling' = pulling
    BY <1>2, WorkerFrame
  <2>2. CASE Dispatch /\ ~UNCHANGED streamVars
    <3>1. PushTo(ParsedTo(reply)) /\ IsEvent(reply) /\ worker = "dispatch"
      BY <2>2 DEF Dispatch
    <3>2. ParsedTo(reply) \in {"matches", "notifications"} /\ Told < MaxEvents
      BY <3>1, ParsedToStream DEF IsEvent, RoomInv
    <3>3. ParsedTo(reply) \in Streams /\ offered[ParsedTo(reply)] < MaxEvents + 1
      BY <3>2, LPAssumption DEF LPAssumption, Told, Streams, TypeInv, TypeOK
    <3> QED
      BY <2>1, <3>1, <3>3, PushIsStep
  <2>3. CASE PushError
    <3>1. offered["errors"] < MaxEvents + 1
      BY <2>3, LPAssumption DEF LPAssumption, PushError, TypeInv, WorkerInv
    <3> QED
      BY <1>0, <2>1, <2>3, <3>1, PushIsStep DEF PushError
  <2>4. CASE UNCHANGED streamVars
    BY <2>1, <2>4, NothingIsStep
  <2> QED
    BY <1>2, <2>2, <2>3, <2>4 DEF Worker, Top, GetReturns, GetFails, GetThrows, SleepEnds,
       CheckClosed, WorkerReturns
<1>3. ASSUME NEW u \in Users, User(u) PROVE StepOf(s)
  <2>1. CASE UserPulled(u)
    BY <1>0, <2>1, PullIsStep DEF UserPulled
  <2>2. CASE UserClose(u)
    BY <2>2, NothingIsStep DEF UserClose
  <2>3. ASSUME NEW x \in Streams, UserPull(u, x) PROVE StepOf(s)
    BY <1>0, <2>3, AskIsStep DEF UserPull, Idle
  <2> QED
    BY <1>3, <2>1, <2>2, <2>3 DEF User
<1>4. CASE RunStart
  <2>1. \A t \in Pullers : t \in Pumps \cup {"main"} => pulling[t] = "none"
    BY <1>0, <1>4 DEF RunStart, PullInv
  <2>2. PICK t \in Pumps \cup {"main"} :
          s = IF t = "main" THEN "errors" ELSE PumpStream[t]
    BY DEF Pumps, PumpStream, Streams
  <2>3. \A x \in Pullers : pulling'[x] = s <=> pulling[x] = s \/ x = t
    BY <1>0, <1>4, <2>1, <2>2 DEF RunStart, Pumps, PumpStream, Streams
  <2>4. t \in Pullers /\ pulling[t] = "none" /\ s # "none"
    BY <1>0, <2>1 DEF Streams
  <2>5. PullsOf(s)[t] = "idle" /\ PullsOf(s)' = [PullsOf(s) EXCEPT ![t] = "pulling"]
    BY <2>3, <2>4 DEF PullsOf
  <2> QED
    BY <1>4, <2>4, <2>5 DEF RunStart, StepOf, AskOf, streamVars
<1>5. CASE MainPulled
  BY <1>0, <1>5, PullIsStep DEF MainPulled
<1>6. CASE OnErrorReturns \/ RunClosed \/ RunReturns
  BY <1>6, NothingIsStep DEF OnErrorReturns, RunClosed, RunReturns
<1>7. ASSUME NEW t \in Pumps, PumpPulled(t) PROVE StepOf(s)
  BY <1>0, <1>7, PullIsStep DEF PumpPulled
<1>8. ASSUME NEW t \in Pumps, CallbackCloses(t) PROVE StepOf(s)
  BY <1>8, NothingIsStep DEF CallbackCloses
<1>9. ASSUME NEW t \in Pumps, CallbackReturns(t) PROVE StepOf(s)
  <2>1. pulling[t] = "none"
    BY <1>9 DEF CallbackReturns, PullInv
  <2> QED
    BY <1>0, <1>9, <2>1, AskIsStep DEF CallbackReturns
<1>10. CASE Owner \/ ClientDestroyed \/ UNCHANGED vars
  BY <1>10, NothingIsStep DEF Owner, Destroy, DestroyImpl, Destroyed, ClientDestroyed,
     ownerElse, streamVars, vars
<1> QED
  BY <1>1, <1>2, <1>3, <1>4, <1>5, <1>6, <1>7, <1>8, <1>9, <1>10 DEF Next, Run, AllGone

\* Each of the three streams is an EventStream to all threads that pull from it:
\* users, pumps and the caller of run() at once, while others close the poll.
THEOREM PollStreamsAreStreams == Spec => StreamsAreStreams
<1>1. Init => Matches!ESInit /\ Notifications!ESInit /\ Errors!ESInit
  <2> SUFFICES ASSUME Init PROVE Matches!ESInit /\ Notifications!ESInit /\ Errors!ESInit
    OBVIOUS
  <2>1. \A s \in Streams : /\ PullsOf(s) = [t \in Pullers |-> "idle"]
                           /\ items[s] = <<>> /\ shut[s] = FALSE /\ offered[s] = 0
                           /\ received[s] = <<>>
    BY DEF Init, PullsOf, Streams
  <2> QED
    BY <2>1 DEF Streams, Matches!ESInit, Notifications!ESInit, Errors!ESInit
<1>2. TypeInv /\ PullInv /\ RoomInv /\ [Next]_vars
        => [Matches!ESNext]_(Matches!esVars)
  <2>1. StepOf("matches") => Matches!ESNext \/ UNCHANGED Matches!esVars
    BY DEF StepOf, NoStepOf, OfferTo, ShutOf, AskOf, ReceiveOf, EndOf, Matches!ESNext,
       Matches!Offer, Matches!Shut, Matches!Ask, Matches!Receive, Matches!End, Matches!esVars
  <2> QED
    BY <2>1, NextIsStep DEF Streams
<1>3. TypeInv /\ PullInv /\ RoomInv /\ [Next]_vars
        => [Notifications!ESNext]_(Notifications!esVars)
  <2>1. StepOf("notifications") => Notifications!ESNext \/ UNCHANGED Notifications!esVars
    BY DEF StepOf, NoStepOf, OfferTo, ShutOf, AskOf, ReceiveOf, EndOf,
       Notifications!ESNext, Notifications!Offer, Notifications!Shut, Notifications!Ask,
       Notifications!Receive, Notifications!End, Notifications!esVars
  <2> QED
    BY <2>1, NextIsStep DEF Streams
<1>4. TypeInv /\ PullInv /\ RoomInv /\ [Next]_vars
        => [Errors!ESNext]_(Errors!esVars)
  <2>1. StepOf("errors") => Errors!ESNext \/ UNCHANGED Errors!esVars
    BY DEF StepOf, NoStepOf, OfferTo, ShutOf, AskOf, ReceiveOf, EndOf, Errors!ESNext,
       Errors!Offer, Errors!Shut, Errors!Ask, Errors!Receive, Errors!End, Errors!esVars
  <2> QED
    BY <2>1, NextIsStep DEF Streams
<1> QED
  BY <1>1, <1>2, <1>3, <1>4, InitTypeInv, StepTypeInv, InitPullInv, StepPullInv,
     StepRoomInv, PTL
     DEF Spec, StreamsAreStreams, Matches!ESSafety, Notifications!ESSafety, Errors!ESSafety
======================================================================================
