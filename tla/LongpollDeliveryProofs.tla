-------------------------- MODULE LongpollDeliveryProofs --------------------------
(***************************************************************************)
(* Proofs about LongpollDelivery, for any events the client knows, any     *)
(* length of the server's life and any number of failures: types, the      *)
(* back-off, and the refinement of Subscription.  The invariant says what  *)
(* the worker may rely on while it looks at a response: the answer was     *)
(* chosen for a request that is older, but the server only ever records    *)
(* events newer than every answer it gave.                                 *)
(***************************************************************************)
EXTENDS LongpollDelivery, SequenceTheorems, FiniteSetTheorems, TLAPS

\* The server's log is in the order of the timestamps, none in the future.
LogInOrder ==
  /\ log \in Seq(Recorded)
  /\ \A k \in 1..Len(log) : log[k].stamp <= now
  /\ \A j, k \in 1..Len(log) : j < k => log[j].stamp < log[k].stamp

\* The cursor and what was asked for are times that were; a request that is out
\* asks for what the cursor says.
CursorKnown ==
  /\ since <= now /\ asked <= now
  /\ worker \in {"get", "got", "dispatch"} /\ since > 0 => asked = since

\* No recorded event is newer than the request and as old as the keep-alive.
IsKeepAlive(r) ==
  \E t \in 1..now :
    /\ r = KeepAlive(t) /\ asked <= t
    /\ \A k \in 1..Len(log) : log[k].stamp > asked => log[k].stamp > t

\* It is the first recorded event newer than the request.
IsNextEvent(r) ==
  \E i \in 1..Len(log) :
    /\ r = log[i] /\ log[i].stamp > asked
    /\ \A j \in 1..Len(log) : log[j].stamp > asked => i <= j

ReplyKnown ==
  worker \in {"got", "dispatch"} =>
    reply \in {Empty, ServerError} \/ IsKeepAlive(reply) \/ IsNextEvent(reply)

\* Where the back-off stands: it is the wait the next failure will have.
BackoffKnown ==
  /\ worker \in {"top", "get"} => backoff = Waits[Counted(failures + 1)]
  /\ worker = "sleep" => failures > 0 /\ backoff = Waits[Counted(failures)]
  /\ worker \in {"got", "dispatch"} => failures = 0
  /\ worker = "dispatch" => backoff = kBackoffBase

IInv == TypeOK /\ LogInOrder /\ CursorKnown /\ ReplyKnown /\ BackoffKnown
-----------------------------------------------------------------------------------
(* What the responses are *)

LEMMA EmptyReplies ==
  /\ Empty \in Responses /\ Disposition(Empty) = "Skip"
  /\ ServerError \in Responses /\ Disposition(ServerError) = "Terminal"
BY DEF Empty, ServerError, Reply, Responses, Keys, Stamps, NoStamp, Disposition

LEMMA KeepAlives ==
  ASSUME NEW t \in Nat
  PROVE  KeepAlive(t) \in Responses /\ Disposition(KeepAlive(t)) = "KeepAlive"
         /\ Moved(KeepAlive(t)) = t
BY DEF KeepAlive, Reply, Responses, Keys, Stamps, NoStamp, Disposition, Moved, Advanced

\* A recorded event is a response the worker takes for an event, and one it
\* parses exactly if it makes sense.
LEMMA Recordings ==
  ASSUME NEW e \in Recorded
  PROVE  /\ e \in Responses /\ e.stamp \in 2..MaxTime
         /\ Disposition(e) = "Event"
         /\ Sensible(e) <=> (ParsedTo(e) # "none")
         /\ Moved(e) = e.stamp
<1>1. PICK b \in Bodies, t \in 2..MaxTime : e = [b EXCEPT !.stamp = t]
  BY DEF Recorded
<1>2. b \in Responses /\ Disposition(b) = "Event" /\ b.form = "object"
  BY LDAssumption
<1>3. e.stamp = t /\ e.http = b.http /\ e.form = b.form /\ e.keys = b.keys /\ e.songs = b.songs
  BY <1>1, <1>2 DEF Responses
<1>4. e \in Responses
  BY <1>1, <1>2, LDAssumption DEF Responses, Stamps
<1>5. Disposition(e) = "Event"
  BY <1>2, <1>3 DEF Disposition
<1>6. Sensible(e) <=> (ParsedTo(e) # "none")
  <2>1. e.songs \in BOOLEAN /\ (e.songs => "result" \in e.keys)
    BY <1>4 DEF Responses
  <2> QED
    BY <2>1 DEF Sensible, ParsedTo
<1>7. Moved(e) = e.stamp
  BY <1>3, LDAssumption DEF Moved, Advanced, NoStamp
<1> QED
  BY <1>3, <1>4, <1>5, <1>6, <1>7

LEMMA Doubling ==
  /\ Len(Waits) = 7
  /\ Waits[1] = kBackoffBase
  /\ \A n \in Nat : n > 0 =>
       /\ Waits[Counted(n)] \in kBackoffBase..kBackoffCap
       /\ Doubled(Waits[Counted(n)]) = Waits[Counted(n + 1)]
<1>1. Len(Waits) = 7
  BY DEF Waits
<1>2. /\ Waits[1] = 500 /\ Waits[2] = 1000 /\ Waits[3] = 2000 /\ Waits[4] = 4000
      /\ Waits[5] = 8000 /\ Waits[6] = 16000 /\ Waits[7] = 30000
  BY DEF Waits
<1>3. ASSUME NEW n \in Nat, n > 0
      PROVE  /\ Waits[Counted(n)] \in kBackoffBase..kBackoffCap
             /\ Doubled(Waits[Counted(n)]) = Waits[Counted(n + 1)]
  <2>1. Counted(n) = (IF n < 7 THEN n ELSE 7) /\ Counted(n + 1) = (IF n + 1 < 7 THEN n + 1 ELSE 7)
    BY <1>1 DEF Counted
  <2>2. n = 1 \/ n = 2 \/ n = 3 \/ n = 4 \/ n = 5 \/ n = 6 \/ n >= 7
    BY <1>3
  <2>3. CASE n < 7
    <3>1. Waits[Counted(n)] = Waits[n] /\ Waits[Counted(n + 1)] = Waits[n + 1]
      BY <1>3, <2>1, <2>3
    <3>2. Waits[n] \in Int /\ 500 <= Waits[n] /\ Waits[n] <= 30000
      BY <1>2, <2>2, <2>3
    <3>3. Waits[n + 1] = IF Waits[n] * 2 < 30000 THEN Waits[n] * 2 ELSE 30000
      BY <1>2, <2>2, <2>3
    <3>4. Doubled(Waits[n]) = Waits[n + 1]
      BY <3>2, <3>3 DEF Doubled, kBackoffBase, kBackoffCap
    <3>5. kBackoffBase = 500 /\ kBackoffCap = 30000
      BY DEF kBackoffBase, kBackoffCap
    <3>6. kBackoffBase \in Int /\ kBackoffCap \in Int
      BY <3>5
    <3>7. kBackoffBase <= Waits[n] /\ Waits[n] <= kBackoffCap
      BY <3>2, <3>5
    <3>8. Waits[n] \in kBackoffBase..kBackoffCap
      <4>1. PICK w \in Int : w = Waits[n]
        BY <3>2
      <4>2. kBackoffBase <= w /\ w <= kBackoffCap
        BY <3>7, <4>1
      <4>3. w \in kBackoffBase..kBackoffCap
        BY <3>6, <4>2
      <4> QED
        BY <4>1, <4>3
    <3> QED
      BY <3>1, <3>4, <3>8, Zenon
  <2>4. CASE n >= 7
    <3>1. Waits[Counted(n)] = kBackoffCap /\ Waits[Counted(n + 1)] = kBackoffCap
      BY <1>2, <2>1, <2>4 DEF kBackoffCap
    <3> QED
      BY <3>1 DEF Doubled, kBackoffBase, kBackoffCap
  <2> QED
    BY <1>3, <2>3, <2>4
<1> QED
  BY <1>1, <1>2, <1>3 DEF kBackoffBase

-----------------------------------------------------------------------------------
(* The invariant holds in the initial states and through every action *)

LEMMA InitInv == Init => IInv
<1> SUFFICES ASSUME Init PROVE IInv
  OBVIOUS
<1> USE DEF Init
<1>1. TypeOK
  <2>1. now \in 1..MaxTime /\ asked \in 0..MaxTime /\ since \in 0..MaxTime
    BY LDAssumption
  <2>2. log \in Seq(Responses) /\ delivered \in Seq(Responses)
    OBVIOUS
  <2>3. backoff \in kBackoffBase..kBackoffCap /\ failures \in 0..MaxFailures
    BY LDAssumption DEF kBackoffBase, kBackoffCap
  <2> QED
    BY <2>1, <2>2, <2>3, EmptyReplies DEF TypeOK
<1>2. LogInOrder
  BY DEF LogInOrder
<1>3. CursorKnown /\ ReplyKnown
  BY LDAssumption DEF CursorKnown, ReplyKnown
<1>4. Counted(failures + 1) = 1
  BY Doubling DEF Counted
<1>5. BackoffKnown
  BY <1>4, Doubling DEF BackoffKnown
<1> QED
  BY <1>1, <1>2, <1>3, <1>5 DEF IInv

\* Every event of the log is a recording.
LEMMA LogTypes ==
  ASSUME IInv, NEW k \in 1..Len(log)
  PROVE  log[k] \in Recorded /\ log[k].stamp \in 2..now /\ Len(log) \in Nat
<1>1. log \in Seq(Recorded) /\ log[k].stamp <= now /\ now \in 1..MaxTime
  BY DEF IInv, LogInOrder, TypeOK
<1>2. log[k] \in Recorded
  BY <1>1
<1> QED
  BY <1>1, <1>2, Recordings, LDAssumption

\* Time passes: what the server records is newer than all it ever said.
LEMMA TickStep == IInv /\ Tick => IInv'
<1> SUFFICES ASSUME IInv, Tick PROVE IInv'
  OBVIOUS
<1>1. now \in 1..MaxTime /\ now' = now + 1 /\ now' \in 2..MaxTime
  BY LDAssumption DEF IInv, TypeOK, Tick
<1>2. UNCHANGED <<asked, worker, since, backoff, failures, reply, closed, delivered>>
  BY DEF Tick
<1>3. CASE log' = log
  <2>1. TypeOK'
    BY <1>1, <1>2, <1>3 DEF IInv, TypeOK
  <2>2. LogInOrder'
    BY <1>1, <1>3, LogTypes DEF IInv, LogInOrder
  <2>3. CursorKnown' /\ BackoffKnown'
    BY <1>1, <1>2 DEF IInv, TypeOK, CursorKnown, BackoffKnown
  <2>4. ReplyKnown'
    BY <1>1, <1>2, <1>3 DEF IInv, ReplyKnown, IsKeepAlive, IsNextEvent
  <2> QED
    BY <2>1, <2>2, <2>3, <2>4 DEF IInv
<1>4. ASSUME NEW b \in Bodies, log' = Append(log, [b EXCEPT !.stamp = now + 1])
      PROVE  IInv'
  <2> DEFINE e == [b EXCEPT !.stamp = now + 1]
  <2>1. e \in Recorded
    BY <1>1 DEF Recorded
  <2>2. e \in Responses /\ e.stamp = now + 1
    <3>1. b \in Responses
      BY LDAssumption
    <3>2. e.stamp = now + 1
      BY <3>1 DEF Responses
    <3> QED
      BY <2>1, <3>2, Recordings
  <2> HIDE DEF e
  <2>3. log \in Seq(Recorded) /\ log \in Seq(Responses) /\ Len(log) \in Nat
    BY DEF IInv, TypeOK, LogInOrder
  <2>4. /\ log' \in Seq(Recorded) /\ log' \in Seq(Responses) /\ Len(log') = Len(log) + 1
        /\ \A k \in 1..Len(log) : log'[k] = log[k]
        /\ log'[Len(log) + 1] = e
    BY <1>4, <2>1, <2>2, <2>3 DEF e
  <2>5. \A k \in 1..Len(log) : log[k].stamp \in 2..now
    BY LogTypes
  <2>6. TypeOK'
    BY <1>1, <1>2, <2>4 DEF IInv, TypeOK
  <2>7. LogInOrder'
    <3>1. \A k \in 1..Len(log') : log'[k].stamp <= now'
      BY <1>1, <2>2, <2>3, <2>4, <2>5
    <3>2. ASSUME NEW j \in 1..Len(log'), NEW k \in 1..Len(log'), j < k
          PROVE  log'[j].stamp < log'[k].stamp
      <4>1. CASE k = Len(log) + 1
        BY <1>1, <2>2, <2>3, <2>4, <2>5, <3>2, <4>1
      <4>2. CASE k \in 1..Len(log)
        <5>1. j \in 1..Len(log)
          BY <2>3, <3>2, <4>2
        <5> QED
          BY <2>4, <3>2, <4>2, <5>1 DEF IInv, LogInOrder
      <4> QED
        BY <2>3, <2>4, <4>1, <4>2
    <3> QED
      BY <2>4, <3>1, <3>2 DEF LogInOrder
  <2>8. CursorKnown' /\ BackoffKnown'
    BY <1>1, <1>2 DEF IInv, TypeOK, CursorKnown, BackoffKnown
  <2>9. ReplyKnown'
    <3> SUFFICES ASSUME worker \in {"got", "dispatch"}
                 PROVE  (reply \in {Empty, ServerError} \/ IsKeepAlive(reply)
                           \/ IsNextEvent(reply))'
      BY <1>2 DEF ReplyKnown
    <3>1. CASE IsKeepAlive(reply)
      <4>1. PICK t \in 1..now :
              /\ reply = KeepAlive(t) /\ asked <= t
              /\ \A k \in 1..Len(log) : log[k].stamp > asked => log[k].stamp > t
        BY <3>1 DEF IsKeepAlive
      <4>2. \A k \in 1..Len(log') : log'[k].stamp > asked => log'[k].stamp > t
        <5> TAKE k \in 1..Len(log')
        <5>1. CASE k = Len(log) + 1
          BY <1>1, <2>2, <2>4, <5>1
        <5>2. CASE k \in 1..Len(log)
          BY <2>4, <4>1, <5>2
        <5> QED
          BY <2>3, <2>4, <5>1, <5>2
      <4>3. t \in 1..now'
        BY <1>1
      <4> QED
        BY <1>2, <4>1, <4>2, <4>3 DEF IsKeepAlive
    <3>2. CASE IsNextEvent(reply)
      <4>1. PICK k \in 1..Len(log) :
              /\ reply = log[k] /\ log[k].stamp > asked
              /\ \A j \in 1..Len(log) : log[j].stamp > asked => k <= j
        BY <3>2 DEF IsNextEvent
      <4>2. \A j \in 1..Len(log') : log'[j].stamp > asked => k <= j
        <5> TAKE j \in 1..Len(log')
        <5>1. CASE j = Len(log) + 1
          BY <2>3, <5>1
        <5>2. CASE j \in 1..Len(log)
          BY <2>4, <4>1, <5>2
        <5> QED
          BY <2>3, <2>4, <5>1, <5>2
      <4>3. k \in 1..Len(log') /\ log'[k] = log[k]
        BY <2>3, <2>4
      <4> QED
        BY <1>2, <4>1, <4>2, <4>3 DEF IsNextEvent
    <3>3. CASE reply \in {Empty, ServerError}
      <4>1. (reply \in {Empty, ServerError})'
        BY <1>2, <3>3 DEF Empty, ServerError
      <4> QED
        BY <4>1
    <3> QED
      BY <3>1, <3>2, <3>3 DEF IInv, ReplyKnown
  <2> QED
    BY <2>6, <2>7, <2>8, <2>9 DEF IInv
<1> QED
  BY <1>3, <1>4 DEF Tick

\* The server's answer is what ReplyKnown says of it.
LEMMA AnswerKnown ==
  ASSUME IInv, worker = "get", NEW r \in Answers
  PROVE  r \in Responses /\ (IsKeepAlive(r) \/ IsNextEvent(r))
<1>1. now \in 1..MaxTime /\ now \in Nat /\ asked <= now
  BY LDAssumption DEF IInv, TypeOK, CursorKnown
<1>2. CASE Pending = {}
  <2>1. r = KeepAlive(now)
    BY <1>2 DEF Answers
  <2>2. \A k \in 1..Len(log) : ~(log[k].stamp > asked)
    BY <1>2 DEF Pending
  <2>3. r \in Responses
    BY <1>1, <2>1, KeepAlives
  <2>4. IsKeepAlive(r)
    BY <1>1, <2>1, <2>2 DEF IsKeepAlive
  <2> QED
    BY <2>3, <2>4
<1>3. CASE Pending # {}
  <2>1. PICK k \in Pending : r = log[k] /\ \A j \in Pending : k <= j
    BY <1>3 DEF Answers
  <2>2. k \in 1..Len(log) /\ log[k].stamp > asked
    BY <2>1 DEF Pending
  <2>3. r \in Responses
    BY <2>1, <2>2, LogTypes, Recordings
  <2>4. \A j \in 1..Len(log) : log[j].stamp > asked => k <= j
    BY <2>1 DEF Pending
  <2>5. IsNextEvent(r)
    BY <2>1, <2>2, <2>4 DEF IsNextEvent
  <2> QED
    BY <2>3, <2>5
<1> QED
  BY <1>2, <1>3

\* What each kind of reply is to the worker.
LEMMA ReplyTypes ==
  ASSUME IInv, worker = "dispatch"
  PROVE  /\ reply \in {Empty, ServerError} => Disposition(reply) \in {"Skip", "Terminal"}
         /\ IsKeepAlive(reply) =>
              Disposition(reply) = "KeepAlive" /\ Moved(reply) \in 1..now
         /\ IsNextEvent(reply) =>
              Disposition(reply) = "Event" /\ Moved(reply) \in 2..now
<1>1. now \in Nat
  BY LDAssumption DEF IInv, TypeOK
<1>2. IsKeepAlive(reply) => Disposition(reply) = "KeepAlive" /\ Moved(reply) \in 1..now
  <2> SUFFICES ASSUME IsKeepAlive(reply)
               PROVE  Disposition(reply) = "KeepAlive" /\ Moved(reply) \in 1..now
    OBVIOUS
  <2>1. PICK t \in 1..now : reply = KeepAlive(t)
    BY DEF IsKeepAlive
  <2> QED
    BY <1>1, <2>1, KeepAlives
<1>3. IsNextEvent(reply) => Disposition(reply) = "Event" /\ Moved(reply) \in 2..now
  <2> SUFFICES ASSUME IsNextEvent(reply)
               PROVE  Disposition(reply) = "Event" /\ Moved(reply) \in 2..now
    OBVIOUS
  <2>1. PICK k \in 1..Len(log) : reply = log[k]
    BY DEF IsNextEvent
  <2>2. reply \in Recorded /\ reply.stamp \in 2..now
    BY <2>1, LogTypes
  <2> QED
    BY <2>2, Recordings
<1> QED
  BY <1>2, <1>3, EmptyReplies

\* The worker takes one step.
LEMMA WorkerStep == IInv /\ Worker => IInv'
<1> SUFFICES ASSUME IInv, Worker PROVE IInv'
  OBVIOUS
<1>0. now' = now /\ log' = log
  BY DEF Worker, Top, GetAnswer, GetOther, Respond, GetFails, SleepEnds, CheckClosed,
         Dispatch, serverVars
<1>1. LogInOrder'
  BY <1>0 DEF IInv, LogInOrder
<1>2. now \in 1..MaxTime /\ since \in 0..MaxTime /\ asked \in 0..MaxTime
      /\ since <= now /\ asked <= now /\ failures \in 0..MaxFailures /\ MaxFailures \in Nat
      /\ MaxTime \in Nat /\ MaxFailures >= 7
  BY LDAssumption DEF IInv, TypeOK, CursorKnown
<1>3. CASE Top
  <2>1. UNCHANGED <<since, backoff, failures, reply, closed, delivered>>
    BY <1>3 DEF Top
  <2>2. worker = "top" /\ worker' \in {"get", "exited"} /\ asked' \in 0..now
    BY <1>2, <1>3 DEF Top
  <2>3. worker' = "get" /\ since > 0 => asked' = since
    BY <1>3 DEF Top
  <2>4. TypeOK'
    BY <1>0, <1>2, <2>1, <2>2 DEF IInv, TypeOK
  <2>5. CursorKnown' /\ ReplyKnown'
    BY <1>0, <1>2, <2>1, <2>2, <2>3 DEF CursorKnown, ReplyKnown
  <2>6. BackoffKnown'
    BY <2>1, <2>2 DEF IInv, BackoffKnown
  <2> QED
    BY <1>1, <2>4, <2>5, <2>6 DEF IInv
<1>4. ASSUME NEW r, r \in Answers \cup {Empty, ServerError}, Respond(r) PROVE IInv'
  <2>1. UNCHANGED <<asked, since, backoff, closed, delivered>>
    BY <1>4 DEF Respond
  <2>2. worker = "get" /\ worker' = "got" /\ reply' = r /\ failures' = 0
    BY <1>4 DEF Respond
  <2>3. r \in Responses /\ (r \in {Empty, ServerError} \/ IsKeepAlive(r) \/ IsNextEvent(r))
    BY <1>4, <2>2, AnswerKnown, EmptyReplies
  <2>4. TypeOK'
    BY <1>0, <1>2, <2>1, <2>2, <2>3 DEF IInv, TypeOK
  <2>5. CursorKnown' /\ BackoffKnown'
    BY <1>0, <2>1, <2>2 DEF IInv, CursorKnown, BackoffKnown
  <2>6. ReplyKnown'
    <3>1. IsKeepAlive(r) => IsKeepAlive(reply)'
      BY <1>0, <2>1, <2>2 DEF IsKeepAlive, KeepAlive, Reply
    <3>2. IsNextEvent(r) => IsNextEvent(reply)'
      BY <1>0, <2>1, <2>2 DEF IsNextEvent
    <3>3. r \in {Empty, ServerError} => (reply \in {Empty, ServerError})'
      BY <2>2 DEF Empty, ServerError
    <3> QED
      BY <2>3, <3>1, <3>2, <3>3 DEF ReplyKnown
  <2> QED
    BY <1>1, <2>4, <2>5, <2>6 DEF IInv
<1>5. CASE GetFails
  <2>1. UNCHANGED <<asked, since, backoff, reply, closed, delivered>>
    BY <1>5 DEF GetFails
  <2>2. worker = "get" /\ worker' = "sleep"
        /\ failures' = IF failures < MaxFailures THEN failures + 1 ELSE failures
    BY <1>5 DEF GetFails
  <2>3. failures' \in 0..MaxFailures /\ failures' > 0
    BY <1>2, <2>2
  <2>4. Counted(failures') = Counted(failures + 1)
    BY <1>2, <2>2, Doubling DEF Counted
  <2>5. TypeOK'
    BY <1>0, <1>2, <2>1, <2>2, <2>3 DEF IInv, TypeOK
  <2>6. CursorKnown' /\ ReplyKnown'
    BY <1>0, <1>2, <2>1, <2>2 DEF CursorKnown, ReplyKnown
  <2>7. BackoffKnown'
    BY <2>1, <2>2, <2>3, <2>4 DEF IInv, BackoffKnown
  <2> QED
    BY <1>1, <2>5, <2>6, <2>7 DEF IInv
<1>6. CASE SleepEnds
  <2>1. UNCHANGED <<asked, since, failures, reply, closed, delivered>>
    BY <1>6 DEF SleepEnds
  <2>2. worker = "sleep" /\ worker' \in {"top", "exited"}
        /\ (worker' = "top" => backoff' = Doubled(backoff))
        /\ (worker' = "exited" => backoff' = backoff)
    BY <1>6 DEF SleepEnds
  <2>3. failures > 0 /\ failures \in Nat /\ backoff = Waits[Counted(failures)]
    BY <1>2, <2>2 DEF IInv, BackoffKnown
  <2>4. Doubled(backoff) = Waits[Counted(failures + 1)]
    BY <2>3, Doubling
  <2>5. Waits[Counted(failures + 1)] \in kBackoffBase..kBackoffCap
    BY <2>3, Doubling, failures + 1 \in Nat, failures + 1 > 0
  <2>6. backoff' \in kBackoffBase..kBackoffCap
    BY <2>2, <2>4, <2>5 DEF IInv, TypeOK
  <2>7. TypeOK'
    BY <1>0, <1>2, <2>1, <2>2, <2>6 DEF IInv, TypeOK
  <2>8. CursorKnown' /\ ReplyKnown'
    BY <1>0, <1>2, <2>1, <2>2 DEF CursorKnown, ReplyKnown
  <2>9. BackoffKnown'
    BY <2>1, <2>2, <2>4 DEF BackoffKnown
  <2> QED
    BY <1>1, <2>7, <2>8, <2>9 DEF IInv
<1>7. CASE CheckClosed
  <2>1. UNCHANGED <<asked, since, failures, reply, closed, delivered>>
    BY <1>7 DEF CheckClosed
  <2>2. worker = "got" /\ worker' \in {"dispatch", "exited"}
        /\ (worker' = "dispatch" => backoff' = kBackoffBase)
        /\ (worker' = "exited" => backoff' = backoff)
    BY <1>7 DEF CheckClosed, BackoffAfterResponse
  <2>3. kBackoffBase \in kBackoffBase..kBackoffCap
    BY Doubling, 1 \in Nat, Counted(1) = 1 DEF Counted
  <2>4. backoff' \in kBackoffBase..kBackoffCap
    BY <2>2, <2>3 DEF IInv, TypeOK
  <2>5. TypeOK'
    BY <1>0, <1>2, <2>1, <2>2, <2>4 DEF IInv, TypeOK
  <2>6. CursorKnown'
    BY <1>0, <1>2, <2>1, <2>2 DEF IInv, CursorKnown
  <2>7. ReplyKnown'
    BY <1>0, <2>1, <2>2 DEF IInv, ReplyKnown, IsKeepAlive, IsNextEvent
  <2>8. BackoffKnown'
    BY <2>1, <2>2 DEF IInv, BackoffKnown
  <2> QED
    BY <1>1, <2>5, <2>6, <2>7, <2>8 DEF IInv
<1>8. CASE Dispatch
  <2>1. UNCHANGED <<asked, backoff, failures, closed>>
    BY <1>8 DEF Dispatch
  <2>2. worker = "dispatch" /\ worker' \in {"top", "exited"} /\ reply' = Empty
    BY <1>8 DEF Dispatch
  <2>3. delivered' \in Seq(Responses)
    BY <1>8 DEF Dispatch, IInv, TypeOK
  <2>4. since' \in 0..now
    <3>1. CASE since' = since
      BY <1>2, <3>1
    <3>2. CASE since' = Moved(reply) /\ Disposition(reply) \in {"KeepAlive", "Event"}
      <4>1. Moved(reply) \in 1..now
        BY <1>2, <2>2, <3>2, ReplyTypes DEF IInv, ReplyKnown
      <4> QED
        BY <3>2, <4>1
    <3> QED
      BY <1>8, <3>1, <3>2 DEF Dispatch
  <2>5. TypeOK'
    BY <1>0, <1>2, <2>1, <2>2, <2>3, <2>4, EmptyReplies DEF IInv, TypeOK
  <2>6. CursorKnown' /\ ReplyKnown'
    BY <1>0, <1>2, <2>1, <2>2, <2>4 DEF CursorKnown, ReplyKnown
  <2>7. BackoffKnown'
    <3>1. failures = 0 /\ backoff = kBackoffBase
      BY <2>2 DEF IInv, BackoffKnown
    <3>2. Counted(0 + 1) = 1
      BY Doubling DEF Counted
    <3> QED
      BY <2>1, <2>2, <3>1, <3>2, Doubling DEF BackoffKnown
  <2> QED
    BY <1>1, <2>5, <2>6, <2>7 DEF IInv
<1> QED
  BY <1>3, <1>4, <1>5, <1>6, <1>7, <1>8 DEF Worker, GetAnswer, GetOther

\* Closing the poll touches only the flag.
LEMMA CloseStep == IInv /\ (Close \/ UNCHANGED vars) => IInv'
<1> SUFFICES ASSUME IInv, Close \/ UNCHANGED vars PROVE IInv'
  OBVIOUS
<1>1. UNCHANGED <<now, log, asked, worker, since, backoff, failures, reply, delivered>>
      /\ closed' \in BOOLEAN
  BY DEF Close, vars, serverVars, IInv, TypeOK
<1>2. TypeOK'
  BY <1>1 DEF IInv, TypeOK
<1>3. LogInOrder' /\ CursorKnown' /\ BackoffKnown'
  BY <1>1 DEF IInv, LogInOrder, CursorKnown, BackoffKnown
<1>4. ReplyKnown'
  BY <1>1 DEF IInv, ReplyKnown, IsKeepAlive, IsNextEvent
<1> QED
  BY <1>2, <1>3, <1>4 DEF IInv

LEMMA Invariance == Spec => []IInv
<1>1. IInv /\ [Next]_vars => IInv'
  BY TickStep, WorkerStep, CloseStep DEF Next
<1> QED
  BY <1>1, InitInv, PTL DEF Spec

-----------------------------------------------------------------------------------
\* Every variable keeps its type and the back-off its bounds, for any server.
THEOREM TypeCorrect == Spec => []TypeOK
BY Invariance, PTL DEF IInv

\* The n-th failure in a row waits the n-th time, however failures, responses and
\* close() follow each other.
THEOREM BackoffCounts == Spec => []BackoffCountsFailures
<1>1. IInv => BackoffCountsFailures
  BY DEF IInv, BackoffKnown, BackoffCountsFailures
<1> QED
  BY <1>1, Invariance, PTL

-----------------------------------------------------------------------------------
(* Subscription is implemented *)

\* Where the cursor points to when the first k events are not newer.
LEMMA CursorAfter ==
  ASSUME IInv, NEW t \in 1..MaxTime, NEW k \in 0..Len(log),
         \A i \in 1..Len(log) : log[i].stamp <= t <=> i <= k
  PROVE  Cardinality({i \in 1..Len(log) : log[i].stamp <= t}) = k
<1>1. Len(log) \in Nat
  BY DEF IInv, TypeOK
<1>2. {i \in 1..Len(log) : log[i].stamp <= t} = 1..k
  BY <1>1
<1>3. k \in Int /\ 1 \in Int
  BY <1>1
<1>4. Cardinality(1..k) = IF 1 > k THEN 0 ELSE k - 1 + 1
  BY ONLY <1>3, FS_Interval
<1>5. Cardinality(1..k) = k
  BY <1>1, <1>4
<1> QED
  BY <1>2, <1>5

\* The cursor points into the log, or behind its end.
LEMMA CursorInLog ==
  ASSUME NEW t \in Nat, Len(log) \in Nat
  PROVE  Cardinality({i \in 1..Len(log) : log[i].stamp <= t}) \in 0..Len(log)
<1> DEFINE S == {i \in 1..Len(log) : log[i].stamp <= t}
<1>1. IsFiniteSet(1..Len(log)) /\ Cardinality(1..Len(log)) = Len(log)
  <2>1. \A n \in Nat : IsFiniteSet(1..n) /\ Cardinality(1..n) = n
    <3> TAKE n \in Nat
    <3>1. 1 \in Int /\ n \in Int
      OBVIOUS
    <3>2. IsFiniteSet(1..n) /\ Cardinality(1..n) = IF 1 > n THEN 0 ELSE n - 1 + 1
      BY ONLY <3>1, FS_Interval
    <3> QED
      BY <3>2
  <2> QED
    BY <2>1
<1>2. S \in SUBSET (1..Len(log))
  OBVIOUS
<1>3. IsFiniteSet(S) /\ Cardinality(S) <= Len(log)
  BY <1>1, <1>2, FS_Subset
<1> QED
  BY <1>3, FS_CardinalityType

\* What the server records moves nothing.
LEMMA TickMaps == IInv /\ Tick => [Sub!SubNext]_(Sub!subVars)
<1> SUFFICES ASSUME IInv, Tick, log' # log PROVE Sub!Happens
  <2>1. ASSUME Tick, log' = log PROVE UNCHANGED Sub!subVars
    <3>1. UNCHANGED <<worker, since, delivered>>
      BY <2>1 DEF Tick
    <3>2. CursorAt' = CursorAt
      BY <2>1, <3>1 DEF CursorAt
    <3> QED
      BY <2>1, <3>1, <3>2 DEF Sub!subVars
  <2> QED
    BY <2>1 DEF Sub!SubNext
<1>1. now \in 1..MaxTime /\ now + 1 \in 2..MaxTime /\ since <= now /\ since \in 0..MaxTime
      /\ MaxTime \in Nat
  BY LDAssumption DEF IInv, TypeOK, CursorKnown, Tick
<1>2. PICK b \in Bodies : log' = Append(log, [b EXCEPT !.stamp = now + 1])
  BY DEF Tick
<1> DEFINE e == [b EXCEPT !.stamp = now + 1]
<1>3. e \in Recorded
  BY <1>1 DEF Recorded
<1>4. e.stamp = now + 1
  BY LDAssumption DEF Responses
<1>5. log' = Append(log, e)
  BY <1>2
<1> HIDE DEF e
<1>6. log \in Seq(Recorded) /\ Len(log) \in Nat /\ Len(log') = Len(log) + 1
      /\ log'[Len(log) + 1] = e /\ \A k \in 1..Len(log) : log'[k] = log[k]
  BY <1>3, <1>5 DEF IInv, LogInOrder
<1>7. since' = since /\ delivered' = delivered /\ worker' = worker
  BY DEF Tick
<1>8. {k \in 1..Len(log') : log'[k].stamp <= since}
        = {k \in 1..Len(log) : log[k].stamp <= since}
  BY <1>1, <1>4, <1>6
<1>9. CursorAt' = CursorAt
  BY <1>7, <1>8 DEF CursorAt
<1> QED
  BY <1>3, <1>5, <1>7, <1>9 DEF Sub!Happens

\* An answer is looked at: the cursor passes what it was answered, and the event is
\* handed on exactly if somebody can read it.
LEMMA DispatchMaps == IInv /\ Dispatch => [Sub!SubNext]_(Sub!subVars)
<1> SUFFICES ASSUME IInv, Dispatch PROVE Sub!SubNext \/ UNCHANGED Sub!subVars
  BY Zenon
<1>1. worker = "dispatch" /\ log' = log /\ now' = now
  BY DEF Dispatch, serverVars
<1>2. now \in 1..MaxTime /\ MaxTime \in Nat /\ since \in 0..MaxTime /\ asked \in 0..MaxTime
      /\ Len(log) \in Nat /\ (since > 0 => asked = since)
  BY <1>1, LDAssumption DEF IInv, TypeOK, CursorKnown
<1>3. CASE UNCHANGED <<since, delivered>>
  <2>1. CursorAt' = CursorAt
    BY <1>1, <1>3 DEF CursorAt
  <2>2. CASE worker' = "exited"
    BY <1>1, <1>3, <2>1, <2>2 DEF Sub!SubNext, Sub!Finish
  <2>3. CASE worker' # "exited"
    BY <1>1, <1>3, <2>1, <2>3 DEF Sub!subVars
  <2> QED
    BY <2>2, <2>3
<1>4. CASE IsKeepAlive(reply) /\ ~UNCHANGED <<since, delivered>>
  <2>1. PICK t \in 1..now :
          /\ reply = KeepAlive(t) /\ asked <= t
          /\ \A k \in 1..Len(log) : log[k].stamp > asked => log[k].stamp > t
    BY <1>4 DEF IsKeepAlive
  <2>2. Disposition(reply) = "KeepAlive" /\ Moved(reply) = t
    BY <1>2, <2>1, KeepAlives
  <2>3. since' = t /\ delivered' = delivered /\ worker' = "top"
    BY <1>4, <2>2 DEF Dispatch
  <2>4. \A k \in 1..Len(log) : log[k].stamp \in Nat
    BY <1>2, LogTypes
  <2>5. CursorAt' = 1 + Cardinality({k \in 1..Len(log) : log[k].stamp <= t})
    BY <1>1, <1>2, <2>1, <2>3 DEF CursorAt
  <2>6. CASE since > 0
    <3>1. {k \in 1..Len(log) : log[k].stamp <= t} = {k \in 1..Len(log) : log[k].stamp <= since}
      BY <1>2, <2>1, <2>4, <2>6
    <3>2. CursorAt = 1 + Cardinality({k \in 1..Len(log) : log[k].stamp <= since})
      BY <1>2, <2>6 DEF CursorAt
    <3>3. CursorAt' = CursorAt
      BY <2>5, <3>1, <3>2, Zenon
    <3> QED
      BY <1>1, <2>3, <3>3 DEF Sub!subVars
  <2>7. CASE since = 0
    <3>1. CursorAt = 0
      BY <2>7 DEF CursorAt
    <3>2. CursorAt' \in 1..(Len(log) + 1)
      BY <1>2, <2>5, CursorInLog, t \in Nat
    <3> QED
      BY <1>1, <2>3, <3>1, <3>2 DEF Sub!SubNext, Sub!Begin
  <2> QED
    BY <1>2, <2>6, <2>7
<1>5. CASE IsNextEvent(reply) /\ ~UNCHANGED <<since, delivered>>
  <2>1. PICK k \in 1..Len(log) :
          /\ reply = log[k] /\ log[k].stamp > asked
          /\ \A j \in 1..Len(log) : log[j].stamp > asked => k <= j
    BY <1>5 DEF IsNextEvent
  <2>2. reply \in Recorded /\ reply.stamp \in 2..now
    BY <2>1, LogTypes
  <2>3. Disposition(reply) = "Event" /\ Moved(reply) = reply.stamp
        /\ (Sensible(reply) <=> (ParsedTo(reply) # "none"))
    BY <2>2, Recordings
  <2>4. /\ since' = reply.stamp /\ delivered' = Append(delivered, reply)
        /\ worker' = "top" /\ Sensible(reply)
    BY <1>5, <2>3 DEF Dispatch
  <2>5. \A j \in 1..Len(log) : log[j].stamp \in Nat
    BY <1>2, LogTypes
  <2>6. \A j \in 1..Len(log) : log[j].stamp <= reply.stamp <=> j <= k
    <3> TAKE j \in 1..Len(log)
    <3>1. j < k => log[j].stamp < log[k].stamp
      BY DEF IInv, LogInOrder
    <3>2. k < j => log[k].stamp < log[j].stamp
      BY DEF IInv, LogInOrder
    <3> QED
      BY <1>2, <2>1, <2>5, <3>1, <3>2
  <2>7. CursorAt' = k + 1
    <3>1. reply.stamp \in 1..MaxTime /\ k \in 0..Len(log)
      BY <1>2, <2>2
    <3>2. Cardinality({j \in 1..Len(log) : log[j].stamp <= reply.stamp}) = k
      BY <2>6, <3>1, CursorAfter
    <3> QED
      BY <1>1, <1>2, <2>4, <3>1, <3>2 DEF CursorAt
  <2>8. CASE since > 0
    <3>1. \A j \in 1..Len(log) : log[j].stamp <= since <=> j <= k - 1
      <4> TAKE j \in 1..Len(log)
      <4>1. k < j => log[k].stamp < log[j].stamp
        BY DEF IInv, LogInOrder
      <4> QED
        BY <1>2, <2>1, <2>5, <2>8, <4>1
    <3>2. Cardinality({j \in 1..Len(log) : log[j].stamp <= since}) = k - 1
      BY <1>2, <2>8, <3>1, CursorAfter, k - 1 \in 0..Len(log), since \in 1..MaxTime
    <3>3. CursorAt = k
      BY <1>2, <2>8, <3>2 DEF CursorAt
    <3>4. Sub!HandOn(k)
      BY <1>1, <2>1, <2>2, <2>4, <2>7 DEF Sub!HandOn
    <3> QED
      BY <1>2, <3>3, <3>4 DEF Sub!SubNext, Sub!HandOnNext
  <2>9. CASE since = 0
    <3>1. CursorAt = 0
      BY <2>9 DEF CursorAt
    <3>2. Sub!HandOn(k)
      BY <1>1, <2>1, <2>2, <2>4, <2>7 DEF Sub!HandOn
    <3> QED
      BY <3>1, <3>2 DEF Sub!SubNext, Sub!HandOnFirst
  <2> QED
    BY <1>2, <2>8, <2>9
<1>6. CASE reply \in {Empty, ServerError} /\ ~UNCHANGED <<since, delivered>>
  BY <1>6, EmptyReplies DEF Dispatch
<1> QED
  BY <1>1, <1>3, <1>4, <1>5, <1>6 DEF IInv, ReplyKnown

\* Everything else the worker does is invisible, or the end.
LEMMA OthersMap ==
  IInv /\ [Worker \/ Close]_vars /\ ~Dispatch => [Sub!SubNext]_(Sub!subVars)
<1> SUFFICES ASSUME IInv, [Worker \/ Close]_vars, ~Dispatch
             PROVE  Sub!SubNext \/ UNCHANGED Sub!subVars
  BY Zenon
<1>1. UNCHANGED <<log, since, delivered>>
  BY DEF Worker, Top, GetAnswer, GetOther, Respond, GetFails, SleepEnds, CheckClosed, Close,
         serverVars, vars
<1>2. worker' # "exited" => worker # "exited"
  BY DEF Worker, Top, GetAnswer, GetOther, Respond, GetFails, SleepEnds, CheckClosed, Close,
         serverVars, vars
<1>3. CursorAt' = CursorAt
  BY <1>1 DEF CursorAt
<1>4. CASE worker' = "exited"
  BY <1>1, <1>3, <1>4 DEF Sub!SubNext, Sub!Finish
<1>5. CASE worker' # "exited"
  BY <1>1, <1>2, <1>3, <1>5 DEF Sub!subVars
<1> QED
  BY <1>4, <1>5

\* Whatever is lost, fails or is repeated on the way, what reaches the streams is
\* the server's log from the cursor on: no gap, no repeat, in order.
THEOREM DeliversTheLog == Spec => NoGapNoRepeat
<1>1. Init => Sub!SubInit
  <2> SUFFICES ASSUME Init PROVE Sub!SubInit
    OBVIOUS
  <2>1. log = <<>> /\ delivered = <<>> /\ worker # "exited" /\ since \in {0, 1}
    BY LDAssumption DEF Init
  <2>2. Cardinality({i \in 1..Len(log) : log[i].stamp <= since}) = 0
    <3>1. {i \in 1..Len(log) : log[i].stamp <= since} = {}
      BY <2>1
    <3> QED
      BY <3>1, FS_EmptySet
  <2>3. CursorAt \in {0, 1}
    BY <2>2 DEF CursorAt
  <2> QED
    BY <2>1, <2>3 DEF Sub!SubInit
<1>2. IInv /\ [Next]_vars => [Sub!SubNext]_(Sub!subVars)
  BY TickMaps, DispatchMaps, OthersMap DEF Next
<1> QED
  BY <1>1, <1>2, Invariance, PTL DEF Spec, NoGapNoRepeat, Sub!SubSafety

===================================================================================
