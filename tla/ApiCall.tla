--------------------------------- MODULE ApiCall --------------------------------
(***************************************************************************)
(* One call of the client, from its arguments to what the caller gets: the *)
(* retry loop (src/internal/retry.hpp), one HTTP POST per attempt with the *)
(* classification of its failure (src/http_client.cpp), the lifecycle      *)
(* events, and the decoding of the response (src/client.cpp).              *)
(*                                                                         *)
(* op is the operation:                                                    *)
(*   recognize, recognize_enterprise   metered, reported to on_event       *)
(*   catalog_add                       metered, never retried              *)
(*   find_lyrics, raw_request   the two of advanced()                      *)
(*   mutate     set_callback_url, add, set_url and del, which return       *)
(*              nothing                                                    *)
(*   read, preflight    list and get_callback_url, and get_callback_url    *)
(*              inside longpoll()                                          *)
(*                                                                         *)
(* The last two retry any connection error, the others have post_form's    *)
(* default gate.                                                           *)
(*                                                                         *)
(* External: libcurl moves one request through connecting, sending and     *)
(* waiting to receiving, and may fail anywhere; the server works on a      *)
(* request it has whole, also when nobody waits for the answer any more.   *)
(***************************************************************************)
EXTENDS Integers, Sequences, FiniteSets, ApiResponse

CONSTANTS Operations,       \* the operations a call may be
          MaxAttemptsValues,\* values of ClientConfig.max_attempts
          BodySize,         \* pieces the request body is sent in
          MaxRedirects,     \* redirects a server may answer with, per attempt
          RedirectsAfterWork,\* whether it may also work on a request first
          Answers           \* responses the server may send

AllOperations == {"recognize", "recognize_enterprise", "catalog_add", "find_lyrics",
                  "raw_request", "mutate", "read", "preflight"}

ASSUME ApiCallAssumption ==
  /\ Operations \subseteq AllOperations
  /\ MaxAttemptsValues \subseteq Int
  /\ BodySize \in Nat \ {0}
  /\ MaxRedirects \in Nat
  /\ RedirectsAfterWork \in BOOLEAN
  /\ Answers \subseteq ApiResponses

VARIABLES op, maxAttempts,
          call,         \* where the call is
          attempt,      \* failed attempts, as the retry loop counts them
          beforeUpload, \* failed_before_upload() of the exception being handled
          wire,         \* libcurl's view of the attempt on the wire
          handed,       \* a byte of this attempt's body went to the transport
          redirects,    \* redirects followed in this attempt
          arrived,      \* attempts the server has whole and has not worked on
          worked,       \* attempts the server has worked on (and billed)
          reply,        \* the response of the attempt that got one
          events,       \* kinds of the AudDEvents given to on_event
          outcome       \* what the caller gets

callVars == <<op, maxAttempts>>
wireVars == <<wire, handed, redirects>>
serverVars == <<arrived, worked>>
vars == <<callVars, call, attempt, beforeUpload, wireVars, serverVars, reply,
          events, outcome>>

NoReply == [NoJson("3xx") EXCEPT !.form = "no reply"]
Idle == [phase |-> "idle", uploaded |-> 0, status |-> FALSE]
Connecting == [phase |-> "connecting", uploaded |-> 0, status |-> FALSE]

Sourced(o) == o \in {"recognize", "recognize_enterprise", "catalog_add"}
Reported(o) == o \in {"recognize", "recognize_enterprise"}

\* Mutant: reads get post_form's default gate.
GateShut(o) == "PreUploadOnly"
\* The retry gate each call site passes to post_form or to the retry loop.
Gate(o) == IF o \in {"read", "preflight"} THEN "AllConnectionErrors"
           ELSE "PreUploadOnly"

\* max_attempts below 1 counts as 1, and custom_catalog().add always passes 1.
Limit == IF op = "catalog_add" \/ maxAttempts < 1 THEN 1 ELSE maxAttempts

\* Mutant: every failure without a status line counts.
PreUploadNoStatus(code, uploaded, status) == code = "early" \/ ~status
\* Mutant: the probes are not looked at for a timeout.
PreUploadAnyTimeout(code, uploaded, status) == TRUE
\* failure_is_pre_upload: "early" are the codes of DNS, TCP and TLS failures and
\* malformed URLs; for the others the probes must show that nothing was sent.
PreUpload(code, uploaded, status) ==
  code = "early" \/ (uploaded = 0 /\ ~status)

Init ==
  /\ op \in Operations
  /\ maxAttempts \in MaxAttemptsValues
  /\ call = "prepare"
  /\ attempt = 0
  /\ beforeUpload = FALSE
  /\ wire = Idle
  /\ handed = FALSE
  /\ redirects = 0
  /\ arrived = {}
  /\ worked = {}
  /\ reply = NoReply
  /\ events = <<>>
  /\ outcome = "none"

Report(kind) == events' = IF Reported(op) THEN Append(events, kind) ELSE events

Return(o) == call' = "returned" /\ outcome' = o

---------------------------------------------------------------------------------
(* Before the first attempt *)

Prepared ==
  /\ call = "prepare"
  /\ call' = "attempt"
  /\ Report("Request")
  /\ UNCHANGED <<callVars, attempt, beforeUpload, wireVars, serverVars, reply,
                 outcome>>

\* A source that is neither a URL nor a file, or a callback URL that already has
\* a "return" parameter: no request is made and nothing is reported.
PrepareFails ==
  /\ call = "prepare"
  /\ \/ Sourced(op) /\ Return("InvalidArgument")
     \/ op = "mutate" /\ Return("ApiError")
  /\ UNCHANGED <<callVars, attempt, beforeUpload, wireVars, serverVars, reply,
                 events>>

---------------------------------------------------------------------------------
(* The retry loop and its attempts *)

\* Mutant: one attempt more than max_attempts.
StopsRetryingLate(pre) ==
  \/ Gate(op) # "AllConnectionErrors" /\ ~pre
  \/ attempt + 1 > Limit

StopsRetrying(pre) ==
  \/ Gate(op) # "AllConnectionErrors" /\ ~pre
  \/ attempt + 1 >= Limit

\* Mutant: the failed attempt is not counted.
CaughtUncounted(pre) ==
  /\ attempt' = attempt
  /\ beforeUpload' = pre
  /\ wire' = Idle
  /\ call' = IF StopsRetrying(pre) THEN "threw" ELSE "asleep"

\* The attempt left with an AudDConnectionError.
Caught(pre) ==
  /\ attempt' = attempt + 1
  /\ beforeUpload' = pre
  /\ wire' = Idle
  /\ call' = IF StopsRetrying(pre) THEN "threw" ELSE "asleep"

\* The form is built anew and the transfer begins ...
StartAttempt ==
  /\ call = "attempt"
  /\ call' = "transfer"
  /\ wire' = Connecting
  /\ handed' = FALSE
  /\ redirects' = 0
  /\ beforeUpload' = FALSE
  /\ UNCHANGED <<callVars, attempt, serverVars, reply, events, outcome>>

\* ... unless there is no easy handle, or the file cannot be attached.
AttachFails ==
  /\ call = "attempt"
  /\ Caught(TRUE)
  /\ handed' = FALSE
  /\ redirects' = 0
  /\ UNCHANGED <<callVars, serverVars, reply, events, outcome>>

\* curl_easy_perform fails; the early codes come from an attempt to connect.
TransferFails ==
  /\ call = "transfer"
  /\ \E code \in {"early", "ambiguous"} :
       /\ code = "early" => wire.phase = "connecting"
       /\ Caught(PreUpload(code, wire.uploaded, wire.status))
  /\ UNCHANGED <<callVars, handed, redirects, serverVars, reply, events, outcome>>

TransferDone ==
  /\ call = "transfer"
  /\ wire.phase = "receiving"
  /\ call' = "answered"
  /\ wire' = Idle
  /\ reply' \in Answers
  /\ UNCHANGED <<callVars, attempt, beforeUpload, handed, redirects, serverVars,
                 events, outcome>>

Wakes ==
  /\ call = "asleep"
  /\ call' = "attempt"
  /\ UNCHANGED <<callVars, attempt, beforeUpload, wireVars, serverVars, reply,
                 events, outcome>>

---------------------------------------------------------------------------------
(* After the last attempt *)

Threw ==
  /\ call = "threw"
  /\ Report("Exception")
  /\ Return("ConnectionError")
  /\ UNCHANGED <<callVars, attempt, beforeUpload, wireVars, serverVars, reply>>

\* Mutant: no Response event for an error response.
AnsweredQuietly ==
  /\ call = "answered"
  /\ call' = "decode"
  /\ events' = IF Reported(op) /\ reply.http # "error"
               THEN Append(events, "Response") ELSE events
  /\ UNCHANGED <<callVars, attempt, beforeUpload, wireVars, serverVars, reply,
                 outcome>>

\* The Response event precedes the decoding, so an API error is a Response.
Answered ==
  /\ call = "answered"
  /\ call' = "decode"
  /\ Report("Response")
  /\ UNCHANGED <<callVars, attempt, beforeUpload, wireVars, serverVars, reply,
                 outcome>>

\* on_deprecation is called while decoding, and what it throws leaves the call;
\* what on_event throws is swallowed.
Decode ==
  /\ call = "decode"
  /\ \/ Return(Outcome(op, reply))
     \/ Deprecated(reply) /\ Return("CallbackThrew")
  /\ UNCHANGED <<callVars, attempt, beforeUpload, wireVars, serverVars, reply,
                 events>>

---------------------------------------------------------------------------------
(* External: libcurl and the server.  An attempt is known by the number of *)
(* attempts that failed before it.                                         *)

OnTheWire == <<callVars, call, attempt, beforeUpload, reply, events, outcome>>

Connected ==
  /\ wire.phase = "connecting"
  /\ wire' = [wire EXCEPT !.phase = "sending"]
  /\ UNCHANGED <<OnTheWire, handed, redirects, serverVars>>

SendsPiece ==
  /\ wire.phase = "sending"
  /\ LET sent == wire.uploaded + 1 IN
       IF sent < BodySize
       THEN /\ wire' = [wire EXCEPT !.uploaded = sent]
            /\ UNCHANGED arrived
       ELSE /\ wire' = [wire EXCEPT !.uploaded = sent, !.phase = "waiting"]
            /\ arrived' = arrived \cup {attempt}
  /\ handed' = TRUE
  /\ UNCHANGED <<OnTheWire, redirects, worked>>

ServerWorks ==
  /\ \E a \in arrived : arrived' = arrived \ {a} /\ worked' = worked \cup {a}
  /\ UNCHANGED <<OnTheWire, wireVars>>

ServerAnswers ==
  /\ wire.phase = "waiting"
  /\ attempt \in worked
  /\ wire' = [wire EXCEPT !.phase = "receiving", !.status = TRUE]
  /\ UNCHANGED <<OnTheWire, handed, redirects, serverVars>>

\* The request is refused before the server works on it, perhaps before the
\* body is through.
ServerRefuses ==
  /\ wire.phase \in {"sending", "waiting"}
  /\ attempt \notin worked
  /\ wire' = [wire EXCEPT !.phase = "receiving", !.status = TRUE]
  /\ arrived' = arrived \ {attempt}
  /\ UNCHANGED <<OnTheWire, handed, redirects, worked>>

\* A redirect that libcurl follows.  Whether its probes still show what was sent
\* before the redirect is left open.
ServerRedirects ==
  /\ wire.phase \in {"sending", "waiting"}
  /\ attempt \in worked => RedirectsAfterWork
  /\ redirects < MaxRedirects
  /\ redirects' = redirects + 1
  /\ \E u \in {0, wire.uploaded}, s \in BOOLEAN :
       wire' = [phase |-> "connecting", uploaded |-> u, status |-> s]
  /\ arrived' = arrived \ {attempt}
  /\ UNCHANGED <<OnTheWire, handed, worked>>

---------------------------------------------------------------------------------

Client == Prepared \/ PrepareFails \/ StartAttempt \/ AttachFails \/ TransferDone
            \/ Wakes \/ Threw \/ Answered \/ Decode

Environment == Connected \/ SendsPiece \/ ServerWorks \/ ServerAnswers
                 \/ ServerRefuses \/ ServerRedirects

\* A call that has returned stays so while the server goes on.
Rest == call = "returned" /\ UNCHANGED vars

Next == Client \/ TransferFails \/ Environment \/ Rest

Spec == Init /\ [][Next]_vars

\* Every thread that can run does, and every transfer ends: post_form always sets
\* a positive CURLOPT_TIMEOUT_MS.  Nothing is assumed of the server.
FairSpec == Spec /\ WF_vars(Client) /\ WF_vars(TransferFails)

---------------------------------------------------------------------------------
(* Properties *)

Outcomes == {"none", "InvalidArgument", "ApiError", "CustomCatalogAccessError",
             "SerializationError", "ConnectionError", "CallbackThrew",
             "NoCallbackUrl", "result", "nothing"}

WireType ==
  [phase : {"idle", "connecting", "sending", "waiting", "receiving"},
   uploaded : Nat, status : BOOLEAN]

\* Every variable has its type; an attempt is on the wire, and a reply there,
\* exactly when the call is at the place for it.
TypeOK ==
  /\ op \in Operations
  /\ maxAttempts \in MaxAttemptsValues
  /\ call \in {"prepare", "attempt", "transfer", "asleep", "threw", "answered",
               "decode", "returned"}
  /\ attempt \in 0..Limit
  /\ beforeUpload \in BOOLEAN
  /\ wire \in WireType
  /\ wire.phase = "idle" <=> call # "transfer"
  /\ handed \in BOOLEAN
  /\ redirects \in 0..MaxRedirects
  /\ arrived \subseteq 0..Limit
  /\ worked \subseteq 0..Limit
  /\ reply \in Answers \cup {NoReply}
  /\ call \in {"answered", "decode"} => reply # NoReply
  /\ events \in Seq({"Request", "Response", "Exception"})
  /\ outcome \in Outcomes

\* "A request the server may have already billed is never re-submitted": no call
\* but an idempotent read brings the server two whole requests, whatever fails,
\* and however late the server works on what it was sent.
BilledAtMostOnce ==
  Gate(op) = "PreUploadOnly" =>
    \A a, b \in arrived \cup worked : a = b

\* The retry loop's promise in both directions: it gives up only after the last
\* attempt max_attempts allows, or when the gate forbids another one; and a call
\* never makes more attempts than that.
GivesUpOnlyWhenItMust ==
  /\ attempt <= Limit
  /\ call = "transfer" => attempt < Limit
  /\ outcome = "ConnectionError" =>
       \/ attempt = Limit
       \/ op \notin {"read", "preflight"} /\ ~beforeUpload

\* No byte of the attempt that failed was sent, and the server has nothing of it
\* to work on.
NothingSent == ~handed /\ attempt - 1 \notin arrived \cup worked

\* failed_before_upload() is true only of an attempt that sent nothing, unless the
\* attempt was redirected on its way.
FailedBeforeUploadIsTrue == beforeUpload /\ redirects = 0 => NothingSent

\* on_event sees one Request and one end of each call that is reported and was
\* prepared, however often it was retried.
EventsPaired ==
  call = "returned" /\ Reported(op) =>
    events = IF outcome = "InvalidArgument" THEN <<>>
             ELSE IF reply = NoReply THEN <<"Request", "Exception">>
             ELSE <<"Request", "Response">>

\* Whether response r holds something for op, read from the response and not
\* from what the code makes of it; deprecated: error codes that are warnings.
Carries(o, r, deprecated) ==
  /\ r.form = "object"
  /\ r.status = "success" \/ (r.status = "error" /\ r.code \in deprecated)
  /\ \/ o \in {"recognize", "raw_request"} /\ r.result # "absent"
     \/ o \in {"recognize_enterprise", "read", "find_lyrics"} /\ r.result = "array"

\* A result the server has sent is not lost in the client: the caller gets it,
\* also when it comes with the deprecation warning 51, unless the application's
\* own on_deprecation throws.
PaidResultReturned ==
  call = "returned" /\ reply # NoReply /\ Carries(op, reply, {"51"}) =>
    outcome \in {"result", "CallbackThrew"}

\* Every call comes back, however the network and the server behave.
CallReturns == <>(call = "returned")

---------------------------------------------------------------------------------
(* What the documentation says and the code does not do *)

\* http_client.cpp: the codes of DNS, TCP and TLS failures can only occur before
\* the transfer starts, when the request body was never sent.
EarlyCodesAreEarly == beforeUpload => NothingSent

\* client.hpp: on_event is called for every API-call lifecycle event, so a call
\* that was answered has reported its Request and its Response, whichever it is.
EveryCallReported ==
  call = "returned" /\ reply # NoReply => events = <<"Request", "Response">>
=================================================================================
