------------------------------ MODULE ApiCallProofs -----------------------------
(***************************************************************************)
(* Proofs about ApiCall for any operation, any max_attempts, any size of   *)
(* the body and any answers.                                               *)
(***************************************************************************)
EXTENDS ApiCall, SequenceTheorems, TLAPS

USE ApiCallAssumption DEF ApiCallAssumption

\* A call that may still make an attempt has one left.
AttemptsLeft ==
  call \in {"prepare", "attempt", "transfer", "asleep"} => attempt < Limit

TypeInv == TypeOK /\ AttemptsLeft

\* The limit is a positive integer and does not change during a call.
LEMMA LimitFacts ==
  ASSUME TypeOK
  PROVE  Limit \in Nat /\ Limit >= 1
BY DEF TypeOK, Limit

LEMMA LimitKept ==
  ASSUME UNCHANGED callVars
  PROVE  Limit' = Limit
BY DEF Limit, callVars

\* What a caught exception does to the counter and to the place of the call.
LEMMA CaughtCounts ==
  ASSUME TypeInv, NEW pre \in BOOLEAN, Caught(pre), UNCHANGED callVars,
         call \in {"attempt", "transfer"}
  PROVE  /\ attempt' \in 0..Limit'
         /\ call' \in {"threw", "asleep"}
         /\ AttemptsLeft'
<1>1. Limit \in Nat /\ Limit >= 1 /\ Limit' = Limit
  BY LimitFacts, LimitKept DEF TypeInv
<1>2. attempt \in 0..Limit /\ attempt < Limit
  BY DEF TypeInv, TypeOK, AttemptsLeft
<1>3. CASE StopsRetrying(pre)
  BY <1>1, <1>2, <1>3 DEF Caught, AttemptsLeft
<1>4. CASE ~StopsRetrying(pre)
  <2>1. attempt + 1 < Limit
    BY <1>1, <1>2, <1>4 DEF StopsRetrying
  <2>2. QED BY <1>1, <1>2, <1>4, <2>1 DEF Caught, AttemptsLeft
<1>5. QED BY <1>3, <1>4

LEMMA RepliesDiffer == \A r \in Answers : r # NoReply
BY DEF ApiResponses, NoReply, NoJson

LEMMA OutcomesTyped ==
  ASSUME NEW o, NEW r PROVE Outcome(o, r) \in Outcomes
BY DEF Outcome, Outcomes, Raised

LEMMA ReportTyped ==
  ASSUME TypeOK, NEW kind \in {"Request", "Response", "Exception"}, Report(kind)
  PROVE  events' \in Seq({"Request", "Response", "Exception"})
BY DEF TypeOK, Report

LEMMA InitTyped == Init => TypeInv
<1> SUFFICES ASSUME Init PROVE TypeInv
  OBVIOUS
<1>1. Limit \in Nat /\ Limit >= 1
  BY DEF Init, Limit
<1>2. events \in Seq({"Request", "Response", "Exception"})
  BY DEF Init
<1>3. wire \in WireType /\ wire.phase = "idle"
  BY DEF Init, Idle, WireType
<1>4. reply \in Answers \cup {NoReply} /\ outcome \in Outcomes
  BY DEF Init, Outcomes
<1>5. attempt \in 0..Limit /\ arrived \subseteq 0..Limit /\ worked \subseteq 0..Limit
  BY <1>1 DEF Init
<1>6. redirects \in 0..MaxRedirects
  BY DEF Init
<1>9. handed \in BOOLEAN /\ beforeUpload \in BOOLEAN
  BY Zenon DEF Init
<1>7. AttemptsLeft
  BY <1>1 DEF Init, AttemptsLeft
<1>8. QED
  BY <1>2, <1>3, <1>4, <1>5, <1>6, <1>7, <1>9 DEF Init, TypeInv, TypeOK, WireType

LEMMA NextTyped == TypeInv /\ [Next]_vars => TypeInv'
<1> SUFFICES ASSUME TypeInv, [Next]_vars PROVE TypeInv'
  OBVIOUS
<1>0. Limit \in Nat /\ Limit >= 1
  BY LimitFacts DEF TypeInv
<1>00. UNCHANGED callVars
  BY DEF Next, Client, Environment, Rest, vars, OnTheWire, Prepared, PrepareFails,
     StartAttempt, AttachFails, TransferDone, Wakes, Threw, Answered, Decode,
     TransferFails, Connected, SendsPiece, ServerWorks, ServerAnswers,
     ServerRefuses, ServerRedirects
<1>01. Limit' = Limit
  BY <1>00, LimitKept
<1> USE DEF WireType, TypeInv, AttemptsLeft, callVars, serverVars, wireVars
<1>1. CASE Prepared
  <2>1. events' \in Seq({"Request", "Response", "Exception"})
    BY <1>1, ReportTyped DEF Prepared
  <2>2. QED BY <1>0, <1>01, <1>1, <2>1 DEF Prepared, TypeOK
<1>2. CASE PrepareFails
  BY <1>0, <1>01, <1>2 DEF PrepareFails, TypeOK, Return, Outcomes
<1>3. CASE StartAttempt
  <2>1. wire' \in WireType /\ wire'.phase = "connecting" /\ call' = "transfer"
    BY <1>3 DEF StartAttempt, Connecting, WireType
  <2>2. attempt' \in 0..Limit' /\ attempt' < Limit'
    BY <1>01, <1>3 DEF StartAttempt, TypeOK
  <2>3. handed' \in BOOLEAN /\ beforeUpload' \in BOOLEAN
    BY <1>3, Zenon DEF StartAttempt
  <2>4. redirects' \in 0..MaxRedirects
    BY <1>3 DEF StartAttempt
  <2>5. QED
    BY <1>0, <1>01, <1>3, <2>1, <2>2, <2>3, <2>4 DEF StartAttempt, TypeOK
<1>4. CASE AttachFails
  <2>1. attempt' \in 0..Limit' /\ call' \in {"threw", "asleep"} /\ AttemptsLeft'
    BY <1>00, <1>4, CaughtCounts DEF AttachFails
  <2>2. wire' \in WireType /\ wire'.phase = "idle"
    BY <1>4 DEF AttachFails, Caught, Idle, WireType
  <2>3. beforeUpload' \in BOOLEAN /\ handed' \in BOOLEAN
    BY <1>4, Zenon DEF AttachFails, Caught
  <2>4. redirects' \in 0..MaxRedirects
    BY <1>4 DEF AttachFails
  <2>5. QED
    BY <1>0, <1>01, <1>4, <2>1, <2>2, <2>3, <2>4 DEF AttachFails, TypeOK, WireType
<1>5. CASE TransferFails
  <2>1. PICK code \in {"early", "ambiguous"} :
          Caught(PreUpload(code, wire.uploaded, wire.status))
    BY <1>5 DEF TransferFails
  <2>2. PreUpload(code, wire.uploaded, wire.status) \in BOOLEAN
    BY DEF PreUpload, TypeOK
  <2>3. attempt' \in 0..Limit' /\ call' \in {"threw", "asleep"} /\ AttemptsLeft'
    BY <1>00, <1>5, <2>1, <2>2, CaughtCounts DEF TransferFails
  <2>4. QED
    BY <1>0, <1>01, <1>5, <2>1, <2>2, <2>3 DEF TransferFails, Caught, Idle, TypeOK
<1>6. CASE TransferDone
  BY <1>0, <1>01, <1>6, RepliesDiffer DEF TransferDone, TypeOK, Idle
<1>7. CASE Wakes
  BY <1>0, <1>01, <1>7 DEF Wakes, TypeOK
<1>8. CASE Threw
  <2>1. events' \in Seq({"Request", "Response", "Exception"})
    BY <1>8, ReportTyped DEF Threw
  <2>2. QED BY <1>0, <1>01, <1>8, <2>1 DEF Threw, TypeOK, Return, Outcomes
<1>9. CASE Answered
  <2>1. events' \in Seq({"Request", "Response", "Exception"})
    BY <1>9, ReportTyped DEF Answered
  <2>2. QED BY <1>0, <1>01, <1>9, <2>1 DEF Answered, TypeOK
<1>10. CASE Decode
  <2>1. outcome' \in Outcomes /\ call' = "returned"
    BY <1>10, OutcomesTyped DEF Decode, Return, Outcomes
  <2>2. QED BY <1>0, <1>01, <1>10, <2>1 DEF Decode, TypeOK
<1>11. CASE Connected
  BY <1>0, <1>01, <1>11 DEF Connected, OnTheWire, TypeOK
<1>12. CASE SendsPiece
  <2> DEFINE sent == wire.uploaded + 1
  <2>1. sent \in Nat /\ attempt \in 0..Limit
    BY DEF TypeOK
  <2>2. CASE sent < BodySize
    <3>1. wire' = [wire EXCEPT !.uploaded = sent] /\ arrived' = arrived
      BY <1>12, <2>2 DEF SendsPiece
    <3>2. QED BY <1>0, <1>01, <1>12, <2>1, <3>1 DEF SendsPiece, OnTheWire, TypeOK
  <2>3. CASE ~(sent < BodySize)
    <3>1. /\ wire' = [wire EXCEPT !.uploaded = sent, !.phase = "waiting"]
          /\ arrived' = arrived \cup {attempt}
      BY <1>12, <2>3 DEF SendsPiece
    <3>2. QED BY <1>0, <1>01, <1>12, <2>1, <3>1 DEF SendsPiece, OnTheWire, TypeOK
  <2>4. QED BY <2>2, <2>3
<1>13. CASE ServerWorks
  BY <1>0, <1>01, <1>13 DEF ServerWorks, OnTheWire, TypeOK
<1>14. CASE ServerAnswers
  BY <1>0, <1>01, <1>14 DEF ServerAnswers, OnTheWire, TypeOK
<1>15. CASE ServerRefuses
  BY <1>0, <1>01, <1>15 DEF ServerRefuses, OnTheWire, TypeOK
<1>16. CASE ServerRedirects
  BY <1>0, <1>01, <1>16 DEF ServerRedirects, OnTheWire, TypeOK
<1>17. CASE Rest \/ UNCHANGED vars
  BY <1>0, <1>01, <1>17 DEF Rest, vars, TypeOK
<1>18. QED
  BY <1>1, <1>2, <1>3, <1>4, <1>5, <1>6, <1>7, <1>8, <1>9, <1>10, <1>11, <1>12,
     <1>13, <1>14, <1>15, <1>16, <1>17 DEF Next, Client, Environment

LEMMA TypedAlways == Spec => []TypeInv
BY InitTyped, NextTyped, PTL DEF Spec

\* The types of the variables, and what they say of the phases of an attempt and
\* of the place of the call, hold always; attempts never exceed the limit.
THEOREM TypeCorrect == Spec => []TypeOK
<1>1. TypeInv => TypeOK
  BY DEF TypeInv
<1>2. QED BY <1>1, TypedAlways, PTL

---------------------------------------------------------------------------------
(* What the server has seen of the call *)

Seen == arrived \cup worked

\* What libcurl's probes show of the attempt on the wire: the server has not got
\* it before the body is through, and from then on the probes tell.
ProbesTell ==
  /\ wire.phase \in {"connecting", "sending"} => attempt \notin Seen
  /\ wire.phase = "waiting" => wire.uploaded > 0
  /\ wire.phase = "receiving" => wire.status

\* The server has seen no attempt that was not made.
SeenIsPast ==
  \A a \in Seen :
    a <= attempt /\ (call \in {"prepare", "attempt", "asleep"} => a < attempt)

\* Behind the strict gate the loop goes on only while the server has seen nothing.
NothingSeenYet ==
  Gate(op) = "PreUploadOnly" =>
    /\ call \in {"prepare", "attempt", "asleep"} => Seen = {}
    /\ call = "transfer" => Seen \subseteq {attempt}

BillInv == ProbesTell /\ SeenIsPast /\ NothingSeenYet /\ BilledAtMostOnce

\* A failure classified as before the upload left nothing with the server.
LEMMA PreUploadSound ==
  ASSUME TypeInv, ProbesTell, call = "transfer",
         NEW code \in {"early", "ambiguous"},
         code = "early" => wire.phase = "connecting",
         PreUpload(code, wire.uploaded, wire.status)
  PROVE  attempt \notin Seen
<1>1. wire.phase \in {"connecting", "sending", "waiting", "receiving"}
  BY DEF TypeInv, TypeOK, WireType
<1>2. wire.phase \notin {"waiting", "receiving"}
  <2>1. wire.uploaded \in Nat
    BY DEF TypeInv, TypeOK, WireType
  <2>2. QED BY <2>1 DEF ProbesTell, PreUpload
<1>3. QED BY <1>1, <1>2 DEF ProbesTell

\* The steps of the client and of a failing transfer leave the server alone.
LEMMA ClientLeavesServer ==
  ASSUME Client \/ TransferFails PROVE Seen' = Seen
BY DEF Client, Prepared, PrepareFails, StartAttempt, AttachFails, TransferDone, Wakes,
   Threw, Answered, Decode, TransferFails, serverVars, Seen

\* A caught exception keeps the invariant if it is one the gate may act on.
LEMMA CaughtKeepsBill ==
  ASSUME TypeInv, BillInv, NEW pre \in BOOLEAN, Caught(pre), UNCHANGED callVars,
         Seen' = Seen, call \in {"attempt", "transfer"},
         pre => attempt \notin Seen
  PROVE  BillInv'
<1>1. attempt \in Nat /\ Seen \subseteq Nat
  BY LimitFacts DEF TypeInv, TypeOK, Seen
<1>2. wire'.phase = "idle" /\ attempt' = attempt + 1 /\ op' = op
  BY DEF Caught, Idle, callVars
<1>3. ProbesTell'
  BY <1>2 DEF ProbesTell
<1>4. SeenIsPast'
  BY <1>1, <1>2 DEF BillInv, SeenIsPast
<1>5. BilledAtMostOnce'
  BY <1>2, Zenon DEF BillInv, BilledAtMostOnce, Gate, Seen
<1>6. NothingSeenYet'
  <2> SUFFICES ASSUME Gate(op) = "PreUploadOnly" PROVE
        (call' \in {"prepare", "attempt", "asleep"} => Seen = {}) /\ call' # "transfer"
    BY <1>2 DEF NothingSeenYet, Gate
  <2>1. CASE pre
    <3>1. Seen = {}
      BY <2>1 DEF BillInv, NothingSeenYet
    <3>2. QED BY <3>1 DEF Caught
  <2>2. CASE ~pre
    <3>1. StopsRetrying(pre)
      BY <2>2 DEF StopsRetrying
    <3>2. QED BY <3>1 DEF Caught
  <2>3. QED BY <2>1, <2>2
<1>7. QED BY <1>3, <1>4, <1>5, <1>6 DEF BillInv

LEMMA InitBill == Init => BillInv
BY DEF Init, BillInv, ProbesTell, SeenIsPast, NothingSeenYet, BilledAtMostOnce, Seen,
   Idle

LEMMA NextPast == TypeInv /\ SeenIsPast /\ [Next]_vars => SeenIsPast'
<1> SUFFICES ASSUME TypeInv, SeenIsPast, [Next]_vars PROVE SeenIsPast'
  OBVIOUS
<1>0. /\ attempt \in Nat /\ Seen \subseteq Nat
      /\ wire.phase = "idle" <=> call # "transfer"
  BY LimitFacts DEF TypeInv, TypeOK, Seen
<1>1. CASE AttachFails \/ TransferFails
  <2>1. Seen' = Seen
    BY <1>1, ClientLeavesServer DEF Client
  <2>2. attempt' = attempt + 1
    BY <1>1 DEF AttachFails, TransferFails, Caught
  <2>3. QED BY <1>0, <2>1, <2>2 DEF SeenIsPast
<1>2. CASE Prepared \/ PrepareFails \/ StartAttempt \/ TransferDone \/ Wakes \/ Threw
           \/ Answered \/ Decode
  <2>1. Seen' = Seen
    BY <1>2, ClientLeavesServer DEF Client
  <2>2. attempt' = attempt /\ (call' \in {"prepare", "attempt", "asleep"} =>
                                call \in {"prepare", "attempt", "asleep"})
    BY <1>2 DEF Prepared, PrepareFails, StartAttempt, TransferDone, Wakes, Threw,
       Answered, Decode, Return
  <2>3. QED BY <2>1, <2>2, Zenon DEF SeenIsPast
<1>3. CASE Environment
  <2>1. attempt' = attempt /\ call' = call
    BY <1>3 DEF Environment, Connected, SendsPiece, ServerWorks, ServerAnswers,
       ServerRefuses, ServerRedirects, OnTheWire
  <2>2. Seen' \subseteq Seen \cup (IF call = "transfer" THEN {attempt} ELSE {})
    BY <1>0, <1>3 DEF Environment, Connected, SendsPiece, ServerWorks, ServerAnswers,
       ServerRefuses, ServerRedirects, Seen, serverVars
  <2>3. \A a \in Seen' :
          a <= attempt /\ (call \in {"prepare", "attempt", "asleep"} => a < attempt)
    <3>1. attempt <= attempt
      BY <1>0
    <3>2. QED BY <2>2, <3>1 DEF SeenIsPast
  <2>4. QED BY <2>1, <2>3, Zenon DEF SeenIsPast
<1>4. CASE Rest \/ UNCHANGED vars
  BY <1>4 DEF Rest, vars, serverVars, SeenIsPast, Seen
<1>5. QED
  BY <1>1, <1>2, <1>3, <1>4 DEF Next, Client

LEMMA PastAlways == Spec => []SeenIsPast
<1>1. Init => SeenIsPast
  BY DEF Init, SeenIsPast, Seen
<1>2. QED BY <1>1, NextPast, TypedAlways, PTL DEF Spec

LEMMA NextBill ==
  ASSUME ~RedirectsAfterWork
  PROVE  TypeInv /\ BillInv /\ [Next]_vars => BillInv'
<1> SUFFICES ASSUME TypeInv, BillInv, [Next]_vars PROVE BillInv'
  OBVIOUS
<1>0. /\ attempt \in Nat /\ Seen \subseteq Nat /\ wire.uploaded \in Nat
      /\ wire.phase = "idle" <=> call # "transfer"
  BY LimitFacts DEF TypeInv, TypeOK, Seen, WireType
<1>1. CASE StartAttempt
  <2>1. Seen' = Seen /\ wire'.phase = "connecting" /\ attempt' = attempt
        /\ call' = "transfer" /\ op' = op
    BY <1>1, ClientLeavesServer
    DEF StartAttempt, Client, Connecting, callVars
  <2>2. ProbesTell' /\ SeenIsPast'
    BY <1>0, <1>1, <2>1 DEF BillInv, SeenIsPast, ProbesTell, StartAttempt
  <2>3. NothingSeenYet'
    BY <1>1, <2>1 DEF BillInv, NothingSeenYet, Gate, StartAttempt
  <2>4. BilledAtMostOnce'
    BY <2>1, Zenon DEF BillInv, BilledAtMostOnce, Gate, Seen
  <2>5. QED BY <2>2, <2>3, <2>4 DEF BillInv
<1>2. CASE AttachFails
  <2>1. Seen' = Seen
    BY <1>2, ClientLeavesServer DEF Client
  <2>2. attempt \notin Seen
    BY <1>0, <1>2 DEF AttachFails, BillInv, SeenIsPast
  <2>3. QED
    BY <1>2, <2>1, <2>2, CaughtKeepsBill DEF AttachFails
<1>3. CASE TransferFails
  <2>1. PICK code \in {"early", "ambiguous"} :
          /\ code = "early" => wire.phase = "connecting"
          /\ Caught(PreUpload(code, wire.uploaded, wire.status))
    BY <1>3 DEF TransferFails
  <2>2. PreUpload(code, wire.uploaded, wire.status) \in BOOLEAN
    BY DEF PreUpload, TypeInv, TypeOK, WireType
  <2>3. PreUpload(code, wire.uploaded, wire.status) => attempt \notin Seen
    BY <1>3, <2>1, PreUploadSound DEF TransferFails, BillInv
  <2>4. Seen' = Seen
    BY <1>3, ClientLeavesServer
  <2>5. QED
    BY <1>3, <2>1, <2>2, <2>3, <2>4, CaughtKeepsBill DEF TransferFails
<1>4. CASE Prepared \/ PrepareFails \/ TransferDone \/ Wakes \/ Threw \/ Answered
           \/ Decode
  <2>1. Seen' = Seen
    BY <1>4, ClientLeavesServer DEF Client
  <2>2. op' = op /\ attempt' = attempt
    BY <1>4 DEF Prepared, PrepareFails, TransferDone, Wakes, Threw, Answered, Decode,
       callVars
  <2>3. wire'.phase = "idle"
    BY <1>0, <1>4 DEF Prepared, PrepareFails, TransferDone, Wakes, Threw, Answered,
       Decode, wireVars, Idle
  <2>4. call' # "transfer" /\ (call' \in {"prepare", "attempt", "asleep"} =>
                                call \in {"prepare", "attempt", "asleep"})
    BY <1>4 DEF Prepared, PrepareFails, TransferDone, Wakes, Threw, Answered, Decode,
       Return
  <2>5. ProbesTell'
    BY <2>3 DEF ProbesTell
  <2>6. SeenIsPast'
    BY <2>1, <2>2, <2>4, Zenon DEF BillInv, SeenIsPast
  <2>7. NothingSeenYet'
    BY <2>1, <2>2, <2>4, Zenon DEF BillInv, NothingSeenYet, Gate
  <2>8. BilledAtMostOnce'
    BY <2>1, <2>2, Zenon DEF BillInv, BilledAtMostOnce, Gate, Seen
  <2>9. QED BY <2>5, <2>6, <2>7, <2>8 DEF BillInv
<1>5. CASE Environment
  <2>1. op' = op /\ attempt' = attempt /\ call' = call
    BY <1>5 DEF Environment, Connected, SendsPiece, ServerWorks, ServerAnswers,
       ServerRefuses, ServerRedirects, OnTheWire, callVars
  <2>2. Seen' \subseteq Seen \cup (IF call = "transfer" THEN {attempt} ELSE {})
    BY <1>0, <1>5 DEF Environment, Connected, SendsPiece, ServerWorks, ServerAnswers,
       ServerRefuses, ServerRedirects, Seen, serverVars
  <2>3. ProbesTell'
    <3>1. CASE Connected
      BY <1>0, <3>1, <2>1
      DEF Connected, ProbesTell, Seen, serverVars, BillInv, TypeInv, TypeOK, WireType
    <3>2. CASE SendsPiece
      <4>1. CASE wire.uploaded + 1 < BodySize
        <5>1. Seen' = Seen /\ wire'.phase = "sending"
          BY <3>2, <4>1 DEF SendsPiece, Seen, TypeInv, TypeOK, WireType
        <5>2. QED BY <3>2, <5>1, <2>1 DEF SendsPiece, ProbesTell, BillInv
      <4>2. CASE ~(wire.uploaded + 1 < BodySize)
        <5> DEFINE sent == wire.uploaded + 1
        <5>1. wire' = [wire EXCEPT !.uploaded = sent, !.phase = "waiting"]
          BY <3>2, <4>2 DEF SendsPiece
        <5>2. wire'.phase = "waiting" /\ wire'.uploaded = sent
          BY <5>1 DEF TypeInv, TypeOK, WireType
        <5>3. wire'.uploaded > 0
          BY <1>0, <5>2
        <5>4. QED BY <5>2, <5>3 DEF ProbesTell
      <4>3. QED BY <4>1, <4>2
    <3>3. CASE ServerWorks
      <4>1. Seen' = Seen /\ wire' = wire
        BY <3>3 DEF ServerWorks, Seen, wireVars
      <4>2. QED BY <4>1, <2>1 DEF ProbesTell, BillInv
    <3>4. CASE ServerAnswers \/ ServerRefuses
      <4>1. wire'.phase = "receiving" /\ wire'.status
        BY <3>4 DEF ServerAnswers, ServerRefuses, TypeInv, TypeOK, WireType
      <4>2. QED BY <4>1 DEF ProbesTell
    <3>5. CASE ServerRedirects
      <4>1. wire'.phase = "connecting" /\ attempt \notin Seen'
        BY <3>5 DEF ServerRedirects, Seen
      <4>2. QED BY <4>1, <2>1 DEF ProbesTell
    <3>6. QED BY <1>5, <3>1, <3>2, <3>3, <3>4, <3>5 DEF Environment
  <2>4. SeenIsPast'
    BY <1>0, <2>1, <2>2 DEF BillInv, SeenIsPast
  <2>5. NothingSeenYet'
    BY <2>1, <2>2 DEF BillInv, NothingSeenYet, Gate
  <2>6. BilledAtMostOnce'
    <3>1. CASE call = "transfer"
      <4>1. Gate(op) = "PreUploadOnly" => Seen' \subseteq {attempt}
        BY <2>2, <3>1 DEF BillInv, NothingSeenYet
      <4>2. QED BY <2>1, <4>1 DEF BilledAtMostOnce, Seen, Gate
    <3>2. CASE call # "transfer"
      BY <2>1, <2>2, <3>2 DEF BillInv, BilledAtMostOnce, Seen, Gate
    <3>3. QED BY <3>1, <3>2
  <2>7. QED BY <2>3, <2>4, <2>5, <2>6 DEF BillInv
<1>6. CASE Rest \/ UNCHANGED vars
  BY <1>6 DEF Rest, vars, callVars, wireVars, serverVars, BillInv, ProbesTell,
     SeenIsPast, NothingSeenYet, BilledAtMostOnce, Seen, Gate
<1>7. QED
  BY <1>1, <1>2, <1>3, <1>4, <1>5, <1>6 DEF Next, Client

\* No call behind the strict gate brings the server two whole requests: for any
\* max_attempts, any size of the body, whatever fails and when, with redirects
\* too as long as a server that redirects has not worked on the request.
THEOREM NeverBilledTwice ==
  ASSUME ~RedirectsAfterWork PROVE Spec => []BilledAtMostOnce
<1>1. Spec => []BillInv
  BY TypedAlways, InitBill, NextBill, PTL DEF Spec
<1>2. BillInv => BilledAtMostOnce
  BY DEF BillInv
<1>3. QED BY <1>1, <1>2, PTL

---------------------------------------------------------------------------------
(* When the loop gives up *)

MayGiveUp ==
  attempt = Limit \/ (op \notin {"read", "preflight"} /\ ~beforeUpload)

GaveUp ==
  /\ call = "threw" \/ outcome = "ConnectionError" => MayGiveUp
  /\ outcome # "none" => call = "returned"

LEMMA OutcomeIsNoConnectionError ==
  ASSUME NEW o, NEW r PROVE Outcome(o, r) # "ConnectionError"
BY DEF Outcome, Raised

LEMMA CaughtGivesUp ==
  ASSUME TypeInv, GaveUp, NEW pre \in BOOLEAN, Caught(pre), UNCHANGED <<callVars, outcome>>,
         call \in {"attempt", "transfer"}
  PROVE  GaveUp'
<1>1. attempt \in Nat /\ attempt < Limit /\ Limit \in Nat /\ Limit' = Limit
  BY LimitFacts, LimitKept DEF TypeInv, TypeOK, AttemptsLeft
<1>2. outcome' = "none"
  BY DEF GaveUp
<1>3. call' = "threw" => MayGiveUp'
  <2> SUFFICES ASSUME call' = "threw" PROVE MayGiveUp'
    OBVIOUS
  <2>1. StopsRetrying(pre)
    BY DEF Caught
  <2>2. CASE attempt + 1 >= Limit
    <3>1. attempt' = Limit'
      BY <1>1, <2>2 DEF Caught
    <3>2. QED BY <3>1 DEF MayGiveUp
  <2>3. CASE Gate(op) # "AllConnectionErrors" /\ ~pre
    <3>1. op' = op /\ beforeUpload' = pre
      BY DEF Caught, callVars
    <3>2. op \notin {"read", "preflight"}
      BY <2>3 DEF Gate
    <3>3. QED BY <2>3, <3>1, <3>2 DEF MayGiveUp
  <2>4. QED BY <2>1, <2>2, <2>3 DEF StopsRetrying
<1>4. QED BY <1>2, <1>3 DEF GaveUp

LEMMA NextGaveUp == TypeInv /\ GaveUp /\ [Next]_vars => GaveUp'
<1> SUFFICES ASSUME TypeInv, GaveUp, [Next]_vars PROVE GaveUp'
  OBVIOUS
<1>1. CASE AttachFails
  BY <1>1, CaughtGivesUp DEF AttachFails
<1>2. CASE TransferFails
  <2>1. PICK code \in {"early", "ambiguous"} :
          Caught(PreUpload(code, wire.uploaded, wire.status))
    BY <1>2 DEF TransferFails
  <2>2. PreUpload(code, wire.uploaded, wire.status) \in BOOLEAN
    BY DEF PreUpload, TypeInv, TypeOK, WireType
  <2>3. QED BY <1>2, <2>1, <2>2, CaughtGivesUp DEF TransferFails
<1>3. CASE Threw
  <2>1. call' = "returned" /\ outcome' = "ConnectionError" /\ call = "threw"
    BY <1>3 DEF Threw, Return
  <2>2. MayGiveUp' = MayGiveUp
    BY <1>3 DEF Threw, MayGiveUp, Limit, callVars
  <2>3. QED BY <2>1, <2>2 DEF GaveUp
<1>4. CASE Decode \/ PrepareFails
  <2>1. call' = "returned" /\ outcome' # "ConnectionError"
    BY <1>4, OutcomeIsNoConnectionError DEF Decode, PrepareFails, Return
  <2>2. QED BY <2>1 DEF GaveUp
<1>5. CASE Prepared \/ StartAttempt \/ TransferDone \/ Wakes \/ Answered
  <2>1. call # "returned" /\ call' # "threw" /\ outcome' = outcome
    BY <1>5 DEF Prepared, StartAttempt, TransferDone, Wakes, Answered
  <2>2. QED BY <2>1 DEF GaveUp
<1>6. CASE Environment \/ Rest \/ UNCHANGED vars
  <2>1. UNCHANGED <<callVars, call, attempt, beforeUpload, outcome>>
    BY <1>6 DEF Environment, Connected, SendsPiece, ServerWorks, ServerAnswers,
       ServerRefuses, ServerRedirects, OnTheWire, Rest, vars
  <2>2. MayGiveUp' = MayGiveUp
    BY <2>1 DEF MayGiveUp, Limit, callVars
  <2>3. QED BY <2>1, <2>2 DEF GaveUp
<1>7. QED
  BY <1>1, <1>2, <1>3, <1>4, <1>5, <1>6 DEF Next, Client

\* The retry loop makes no attempt beyond the limit, and a call ends with a
\* connection error only when no further attempt was allowed.
THEOREM LoopKeepsItsPromise == Spec => []GivesUpOnlyWhenItMust
<1>1. Init => GaveUp
  BY DEF Init, GaveUp
<1>2. Spec => []GaveUp
  BY <1>1, TypedAlways, NextGaveUp, PTL DEF Spec
<1>3. TypeInv /\ GaveUp => GivesUpOnlyWhenItMust
  <2> SUFFICES ASSUME TypeInv, GaveUp PROVE GivesUpOnlyWhenItMust
    OBVIOUS
  <2>1. attempt <= Limit /\ (call = "transfer" => attempt < Limit)
    BY LimitFacts DEF TypeInv, TypeOK, AttemptsLeft
  <2>2. QED BY <2>1 DEF GaveUp, MayGiveUp, GivesUpOnlyWhenItMust
<1>4. QED BY <1>2, <1>3, TypedAlways, PTL

---------------------------------------------------------------------------------
(* What failed_before_upload() says of an attempt nobody redirected *)

ClassInv ==
  /\ call = "transfer" => ~beforeUpload
  /\ call = "transfer" /\ ~handed => attempt \notin Seen
  /\ redirects = 0 =>
       /\ wire.phase = "connecting" => ~handed
       /\ wire.phase \in {"sending", "waiting"} /\ handed => wire.uploaded > 0
       /\ wire.phase = "receiving" => wire.status
  /\ FailedBeforeUploadIsTrue

LEMMA CaughtKeepsClass ==
  ASSUME TypeInv, NEW pre \in BOOLEAN, Caught(pre),
         Seen' = Seen, call \in {"attempt", "transfer"},
         pre /\ redirects' = 0 => attempt \notin Seen /\ ~handed'
  PROVE  ClassInv'
<1>1. attempt' - 1 = attempt
  BY LimitFacts DEF Caught, TypeInv, TypeOK
<1>2. call' # "transfer" /\ wire'.phase = "idle" /\ beforeUpload' = pre
  BY DEF Caught, Idle
<1>3. FailedBeforeUploadIsTrue'
  BY <1>1, <1>2 DEF FailedBeforeUploadIsTrue, NothingSent, Seen
<1>4. QED BY <1>2, <1>3 DEF ClassInv

LEMMA NextClass == TypeInv /\ SeenIsPast /\ ClassInv /\ [Next]_vars => ClassInv'
<1> SUFFICES ASSUME TypeInv, SeenIsPast, ClassInv, [Next]_vars PROVE ClassInv'
  OBVIOUS
<1>0. /\ wire.uploaded \in Nat
      /\ wire.phase = "idle" <=> call # "transfer"
      /\ wire \in WireType
      /\ redirects \in Nat /\ attempt \in Nat /\ Seen \subseteq Nat
  BY LimitFacts DEF TypeInv, TypeOK, WireType, Seen
<1>1. CASE StartAttempt
  <2>1. Seen' = Seen /\ attempt' = attempt
    BY <1>1, ClientLeavesServer DEF Client, StartAttempt
  <2>2. attempt \notin Seen
    BY <1>0, <1>1 DEF StartAttempt, SeenIsPast
  <2>3. wire'.phase = "connecting" /\ ~handed' /\ ~beforeUpload'
    BY <1>1 DEF StartAttempt, Connecting
  <2>4. QED BY <2>1, <2>2, <2>3 DEF ClassInv, FailedBeforeUploadIsTrue
<1>2. CASE AttachFails
  <2>1. Seen' = Seen
    BY <1>2, ClientLeavesServer DEF Client
  <2>2. attempt \notin Seen /\ ~handed'
    BY <1>0, <1>2 DEF AttachFails, SeenIsPast
  <2>3. QED BY <1>2, <2>1, <2>2, CaughtKeepsClass DEF AttachFails
<1>3. CASE TransferFails
  <2>1. PICK code \in {"early", "ambiguous"} :
          /\ code = "early" => wire.phase = "connecting"
          /\ Caught(PreUpload(code, wire.uploaded, wire.status))
    BY <1>3 DEF TransferFails
  <2> DEFINE pre == PreUpload(code, wire.uploaded, wire.status)
  <2>2. pre \in BOOLEAN
    BY DEF PreUpload, TypeInv, TypeOK, WireType
  <2>3. pre /\ redirects = 0 => ~handed
    <3>1. CASE wire.phase = "connecting"
      BY <3>1 DEF ClassInv
    <3>2. CASE wire.phase \in {"sending", "waiting"}
      <4>1. pre => wire.uploaded = 0
        BY <2>1, <3>2 DEF PreUpload
      <4>2. QED BY <3>2, <4>1 DEF ClassInv
    <3>3. CASE wire.phase = "receiving"
      BY <2>1, <3>3 DEF PreUpload, ClassInv
    <3>4. wire.phase \in {"connecting", "sending", "waiting", "receiving"}
      BY <1>0, <1>3 DEF TransferFails, WireType
    <3>5. QED BY <3>1, <3>2, <3>3, <3>4
  <2>4. pre /\ redirects' = 0 => attempt \notin Seen /\ ~handed'
    BY <1>3, <2>3 DEF TransferFails, ClassInv
  <2>5. Seen' = Seen
    BY <1>3, ClientLeavesServer
  <2>6. QED BY <1>3, <2>1, <2>2, <2>4, <2>5, CaughtKeepsClass DEF TransferFails
<1>4. CASE Prepared \/ PrepareFails \/ TransferDone \/ Wakes \/ Threw \/ Answered
           \/ Decode
  <2>1. call' # "transfer" /\ wire'.phase = "idle"
    BY <1>0, <1>4 DEF Prepared, PrepareFails, TransferDone, Wakes, Threw, Answered,
       Decode, Return, wireVars, Idle
  <2>2. UNCHANGED <<beforeUpload, handed, redirects, attempt, arrived, worked>>
    BY <1>4 DEF Prepared, PrepareFails, TransferDone, Wakes, Threw, Answered,
       Decode, wireVars, serverVars
  <2>3. QED BY <2>1, <2>2 DEF ClassInv, FailedBeforeUploadIsTrue, NothingSent
<1>5. CASE Environment
  <2>1. UNCHANGED <<call, attempt, beforeUpload>>
    BY <1>5 DEF Environment, Connected, SendsPiece, ServerWorks, ServerAnswers,
       ServerRefuses, ServerRedirects, OnTheWire
  <2>2. CASE ServerWorks
    <3>1. Seen' = Seen /\ UNCHANGED wireVars
      BY <2>2 DEF ServerWorks, Seen
    <3>2. QED
      BY <2>1, <3>1 DEF ClassInv, FailedBeforeUploadIsTrue, NothingSent, Seen, wireVars
  <2>3. CASE ServerRedirects
    <3>1. redirects' # 0
      BY <1>0, <2>3 DEF ServerRedirects
    <3>2. handed' = handed /\ Seen' \subseteq Seen
      BY <2>3 DEF ServerRedirects, Seen
    <3>3. QED BY <2>1, <3>1, <3>2 DEF ClassInv, FailedBeforeUploadIsTrue
  <2>4. CASE Connected \/ SendsPiece \/ ServerAnswers \/ ServerRefuses
    <3>1. call = "transfer" /\ ~beforeUpload'
      BY <1>0, <2>1, <2>4
      DEF Connected, SendsPiece, ServerAnswers, ServerRefuses, ClassInv
    <3>2. wire'.phase # "connecting" /\ redirects' = redirects
      BY <1>0, <2>4
      DEF Connected, SendsPiece, ServerAnswers, ServerRefuses, WireType
    <3>3. ~handed' => attempt' \notin Seen'
      BY <2>1, <2>4, <3>1
      DEF Connected, SendsPiece, ServerAnswers, ServerRefuses, ClassInv, Seen, serverVars
    <3>4. redirects' = 0 =>
            /\ wire'.phase \in {"sending", "waiting"} /\ handed' => wire'.uploaded > 0
            /\ wire'.phase = "receiving" => wire'.status
      <4>1. CASE Connected
        BY <1>0, <4>1 DEF Connected, ClassInv, WireType
      <4>2. CASE SendsPiece
        <5> DEFINE sent == wire.uploaded + 1
        <5>1. \/ wire' = [wire EXCEPT !.uploaded = sent] /\ wire.phase = "sending"
              \/ wire' = [wire EXCEPT !.uploaded = sent, !.phase = "waiting"]
          BY <4>2 DEF SendsPiece
        <5>2. wire'.uploaded = sent /\ wire'.phase # "receiving"
          BY <1>0, <5>1 DEF WireType
        <5>3. QED BY <1>0, <5>2
      <4>3. CASE ServerAnswers \/ ServerRefuses
        BY <1>0, <4>3 DEF ServerAnswers, ServerRefuses, WireType
      <4>4. QED BY <2>4, <4>1, <4>2, <4>3
    <3>5. QED BY <3>1, <3>2, <3>3, <3>4 DEF ClassInv, FailedBeforeUploadIsTrue
  <2>5. QED BY <1>5, <2>2, <2>3, <2>4 DEF Environment
<1>6. CASE Rest \/ UNCHANGED vars
  BY <1>6 DEF Rest, vars, wireVars, serverVars, ClassInv, FailedBeforeUploadIsTrue,
     NothingSent, Seen
<1>7. QED
  BY <1>1, <1>2, <1>3, <1>4, <1>5, <1>6 DEF Next, Client

\* An exception that says it failed before the upload tells the truth, whatever
\* code libcurl gave, of every attempt that was not redirected.
THEOREM BeforeUploadIsTrue == Spec => []FailedBeforeUploadIsTrue
<1>1. Init => ClassInv
  BY DEF Init, ClassInv, Idle, FailedBeforeUploadIsTrue
<1>2. Spec => []ClassInv
  BY <1>1, NextClass, PastAlways, TypedAlways, PTL DEF Spec
<1>3. ClassInv => FailedBeforeUploadIsTrue
  BY DEF ClassInv
<1>4. QED BY <1>2, <1>3, PTL
---------------------------------------------------------------------------------
(* The events and the result *)

\* What on_event has seen once the call went out, and once it ended.
Opened == IF Reported(op) THEN <<"Request">> ELSE <<>>
Ended(kind) == IF Reported(op) THEN <<"Request", kind>> ELSE <<>>

\* What was reported at each place of a call.
EventsWhere ==
  /\ call = "prepare" => events = <<>>
  /\ call \in {"attempt", "transfer", "asleep", "threw", "answered"} => events = Opened
  /\ call = "decode" => events = Ended("Response")

\* How a call that is back got its outcome.
HowReturned ==
  call = "returned" =>
    \/ reply # NoReply /\ events = Ended("Response") /\ outcome # "InvalidArgument"
       /\ (outcome = Outcome(op, reply) \/ outcome = "CallbackThrew")
    \/ reply = NoReply /\ events = Ended("Exception") /\ outcome # "InvalidArgument"
    \/ reply = NoReply /\ events = <<>> /\ (outcome = "InvalidArgument" \/ ~Reported(op))

EventInv ==
  /\ EventsWhere /\ HowReturned
  /\ call \in {"prepare", "attempt", "transfer", "asleep", "threw"} => reply = NoReply
  /\ call \in {"answered", "decode"} => reply # NoReply

LEMMA InitEvents == Init => EventInv
BY DEF Init, EventInv, EventsWhere, HowReturned

LEMMA NeverInvalid == \A o, r : Outcome(o, r) # "InvalidArgument"
BY DEF Outcome, Raised

\* A second event behind the first.
LEMMA AppendToOne ==
  ASSUME NEW S, NEW x \in S, NEW y \in S, NEW s \in Seq(S), Len(s) = 1, s[1] = x,
         NEW t \in Seq(S), Len(t) = 2, t[1] = x, t[2] = y
  PROVE  Append(s, y) = t
<1>1. \A q \in Seq(S), e \in S : Append(q, e) \in Seq(S)
  BY ONLY AppendProperties
<1>2. \A q \in Seq(S), e \in S : Len(Append(q, e)) = Len(q) + 1
  BY ONLY AppendProperties
<1>3. \A q \in Seq(S), e \in S : Append(q, e)[Len(q) + 1] = e
  BY ONLY AppendProperties
<1>4. \A q \in Seq(S), e \in S : \A i \in 1..Len(q) : Append(q, e)[i] = q[i]
  BY ONLY AppendProperties
<1>5. Append(s, y)[1] = s[1]
  <2>1. 1 \in 1..Len(s)
    OBVIOUS
  <2> QED
    BY <1>4, <2>1, Zenon
<1>6. Append(s, y) \in Seq(S) /\ Len(Append(s, y)) = Len(s) + 1 /\ Append(s, y)[Len(s) + 1] = y
  BY <1>1, <1>2, <1>3, Zenon
<1>7. Len(Append(s, y)) = 2 /\ Append(s, y)[2] = y
  BY <1>6
<1>8. \A k \in 1..2 : Append(s, y)[k] = t[k]
  BY <1>5, <1>7
<1> QED
  BY <1>6, <1>7, <1>8, SeqEqual

LEMMA AppendSecond ==
  ASSUME NEW S, NEW x \in S, NEW y \in S
  PROVE  Append(<<x>>, y) = <<x, y>>
<1>1. <<x>> \in Seq(S) /\ Len(<<x>>) = 1 /\ <<x>>[1] = x
  OBVIOUS
<1>2. <<x, y>> \in Seq(S) /\ Len(<<x, y>>) = 2 /\ <<x, y>>[1] = x /\ <<x, y>>[2] = y
  OBVIOUS
<1>3. \A s, t \in Seq(S) : Len(s) = 1 /\ s[1] = x /\ Len(t) = 2 /\ t[1] = x /\ t[2] = y =>
         Append(s, y) = t
  BY AppendToOne
<1> QED
  BY <1>1, <1>2, <1>3, Zenon

LEMMA ReportEnds ==
  ASSUME NEW kind \in {"Response", "Exception"}, events = Opened, Report(kind)
  PROVE  events' = Ended(kind)
<1>1. Append(<<"Request">>, kind) = <<"Request", kind>>
  <2>1. kind \in {"Request", "Response", "Exception"} /\ "Request" \in {"Request", "Response", "Exception"}
    OBVIOUS
  <2> QED
    BY ONLY <2>1, AppendSecond
<1>2. CASE Reported(op)
  BY <1>1, <1>2 DEF Opened, Ended, Report
<1>3. CASE ~Reported(op)
  BY <1>3 DEF Opened, Ended, Report
<1> QED
  BY <1>2, <1>3

LEMMA NextEvents == EventInv /\ [Next]_vars => EventInv'
<1> SUFFICES ASSUME EventInv, [Next]_vars PROVE EventInv'
  OBVIOUS
<1> USE DEF EventInv, EventsWhere, callVars
<1>1. CASE Prepared
  BY <1>1 DEF Prepared, Report, Opened, Reported, HowReturned
<1>2. CASE PrepareFails
  BY <1>2 DEF PrepareFails, Return, Reported, HowReturned
<1>3. CASE StartAttempt \/ Wakes
  BY <1>3 DEF StartAttempt, Wakes, Opened, Reported, HowReturned
<1>4. CASE AttachFails \/ TransferFails
  <2>1. call \in {"attempt", "transfer"} /\ call' \in {"threw", "asleep"}
        /\ UNCHANGED <<op, reply, events>>
    BY <1>4 DEF AttachFails, TransferFails, Caught
  <2> QED
    BY <2>1 DEF Opened, Reported, HowReturned
<1>5. CASE TransferDone
  <2>1. call = "transfer" /\ call' = "answered" /\ reply' # NoReply
        /\ UNCHANGED <<op, events>>
    BY <1>5, RepliesDiffer DEF TransferDone, NoReply, NoJson
  <2> QED
    BY <2>1 DEF Opened, Reported, HowReturned
<1>6. CASE Threw
  <2>1. call = "threw" /\ call' = "returned" /\ outcome' = "ConnectionError"
        /\ UNCHANGED <<op, reply>> /\ events' = Ended("Exception")
    BY <1>6, ReportEnds DEF Threw, Return
  <2> QED
    BY <2>1 DEF Ended, Reported, HowReturned
<1>7. CASE Answered
  <2>1. call = "answered" /\ call' = "decode" /\ UNCHANGED <<op, reply>>
        /\ events' = Ended("Response")
    BY <1>7, ReportEnds DEF Answered
  <2> QED
    BY <2>1 DEF Ended, Reported, HowReturned
<1>8. CASE Decode
  <2>1. call = "decode" /\ call' = "returned" /\ UNCHANGED <<op, reply, events>>
        /\ (outcome' = Outcome(op, reply) \/ outcome' = "CallbackThrew")
    BY <1>8 DEF Decode, Return
  <2>2. outcome' # "InvalidArgument"
    BY <2>1, NeverInvalid
  <2> QED
    BY <2>1, <2>2 DEF Ended, Reported, HowReturned
<1>9. CASE Environment \/ Rest \/ UNCHANGED vars
  <2>1. UNCHANGED <<op, call, reply, events, outcome>>
    BY <1>9 DEF Environment, Rest, vars, OnTheWire, Connected, SendsPiece, ServerWorks,
       ServerAnswers, ServerRefuses, ServerRedirects
  <2> QED
    BY <2>1 DEF Opened, Ended, Reported, HowReturned
<1>10. QED
  BY <1>1, <1>2, <1>3, <1>4, <1>5, <1>6, <1>7, <1>8, <1>9 DEF Next, Client

LEMMA EventsAlways == Spec => []EventInv
BY InitEvents, NextEvents, PTL DEF Spec

\* on_event sees one Request and one end of each recognition that reached the
\* network, for any number of retries and any answer.
THEOREM EventsComeInPairs == Spec => []EventsPaired
<1>1. EventInv => EventsPaired
  BY DEF EventInv, HowReturned, EventsPaired, Ended
<1> QED
  BY <1>1, EventsAlways, PTL

\* Whatever the answer looks like, a result in it reaches the caller.
THEOREM ResultsAreNotLost == Spec => []PaidResultReturned
<1>1. ASSUME NEW o, NEW r, Carries(o, r, {"51"}) PROVE Outcome(o, r) = "result"
  <2>1. r.form = "object" /\ (r.status = "success" \/ r.code = "51")
    BY <1>1 DEF Carries
  <2>2. r.result # "absent"
    BY <1>1 DEF Carries
  <2>3. Succeeds(r)
    BY <2>1, <2>2 DEF Succeeds, Deprecated
  <2>4. Yields(o, r)
    BY <1>1 DEF Carries, Yields
  <2> QED
    BY <2>3, <2>4 DEF Outcome
<1>2. EventInv => PaidResultReturned
  BY <1>1 DEF EventInv, HowReturned, PaidResultReturned
<1> QED
  BY <1>2, EventsAlways, PTL

=================================================================================
