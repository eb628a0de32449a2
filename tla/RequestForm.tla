------------------------------- MODULE RequestForm ------------------------------
(***************************************************************************)
(* What a request carries: the form fields of every operation, from the    *)
(* caller's arguments to what HttpClient::post_form and get send, attempt  *)
(* by attempt (src/client.cpp, src/streams.cpp, src/custom_catalog.cpp,    *)
(* src/advanced.cpp, src/longpoll.cpp, src/http_client.cpp).               *)
(*                                                                         *)
(* A field is a name and where its value comes from: the audio source, an  *)
(* extra parameter, a typed parameter, a default of the library, or the    *)
(* token.  Several of them can write the same name, and the token may be   *)
(* rotated and the file may come and go between two attempts.  A call is   *)
(*                                                                         *)
(*   op        the operation                                               *)
(*   source    "none", "url", "file" (a path in a string), "path" (a       *)
(*             SourceFilePath), "no path" (an empty one) or "bytes"        *)
(*   typed     the names of the typed parameters the caller gave           *)
(*   extras    the names in extra_parameters, or in raw_request's params   *)
(*   query     the query keys of a callback URL                            *)
(*   metadata  whether return_metadata is to be added to them              *)
(*   since     the since_time a poll is asked to begin at; 0 otherwise     *)
(*                                                                         *)
(* A poll is not retried: its worker asks again and again, each time with  *)
(* parameters of its own, in which since_time follows the timestamps of    *)
(* the responses.                                                          *)
(***************************************************************************)
EXTENDS Integers, Sequences

CONSTANTS
  Calls,         \* the calls the application may make
  MaxAttempts,   \* config.max_attempts
  MaxRotations,  \* bound on the number of rotations
  MaxRequests,   \* bound on the requests of a poll that are followed
  Stamps         \* timestamps a response to a poll may carry

Names == {"url", "return", "market", "skip", "every", "limit", "skip_first_seconds",
          "use_timecode", "accurate_offsets", "radio_id", "callbacks", "audio_id", "q",
          "category", "timeout", "since_time", "api_token", "flag", "file"}

\* What an operation writes by itself: the parameters it always has, those the
\* caller may leave out, whether it takes a source and extra parameters, whether
\* each attempt builds the form anew, and whether there is another attempt.
Operation(always, options, sourced, extended, rebuilt, again) ==
  [always |-> always, options |-> options, sourced |-> sourced, extended |-> extended,
   rebuilt |-> rebuilt, again |-> again]

Recognize == Operation({}, {"return", "market"}, TRUE, TRUE, TRUE, TRUE)
RecognizeEnterprise ==
  Operation({}, {"return", "skip", "every", "limit", "skip_first_seconds", "use_timecode",
                 "accurate_offsets"}, TRUE, TRUE, TRUE, TRUE)
SetCallbackUrl == Operation({"url"}, {}, FALSE, TRUE, FALSE, TRUE)
AddStream == Operation({"url", "radio_id"}, {"callbacks"}, FALSE, TRUE, FALSE, TRUE)
SetUrl == Operation({"url", "radio_id"}, {}, FALSE, FALSE, FALSE, TRUE)
Delete == Operation({"radio_id"}, {}, FALSE, FALSE, FALSE, TRUE)
Read == Operation({}, {}, FALSE, FALSE, FALSE, TRUE)
Upload == Operation({"audio_id"}, {}, TRUE, FALSE, FALSE, FALSE)
FindLyrics == Operation({"q"}, {}, FALSE, FALSE, FALSE, TRUE)
RawRequest == Operation({}, {}, FALSE, TRUE, FALSE, TRUE)
Poll == Operation({"category", "timeout"}, {}, FALSE, FALSE, TRUE, FALSE)

Operations ==
  [recognize |-> Recognize, recognize_enterprise |-> RecognizeEnterprise,
   set_callback_url |-> SetCallbackUrl, add_stream |-> AddStream, set_url |-> SetUrl,
   delete |-> Delete, read |-> Read, upload |-> Upload, find_lyrics |-> FindLyrics,
   raw_request |-> RawRequest, poll |-> Poll]

Sources == {"none", "url", "file", "path", "no path", "bytes"}

\* The calls the signatures allow.
Wellformed(c) ==
  LET o == Operations[c.op] IN
  /\ c.source \in Sources /\ (c.source # "none") = o.sourced
  /\ o.always \subseteq c.typed /\ c.typed \subseteq o.always \cup o.options
  /\ c.extras \subseteq Names \ {"file"} /\ (c.extras # {} => o.extended)

ASSUME FormAssumption ==
  /\ MaxAttempts \in Nat \ {0} /\ MaxRotations \in Nat
  /\ MaxRequests \in Nat \ {0} /\ Stamps \subseteq Int
  /\ \A c \in Calls :
       /\ c.op \in DOMAIN Operations /\ Wellformed(c)
       /\ c.query \in Seq(Names) /\ c.metadata \in BOOLEAN /\ c.since \in Int

VARIABLES
  call,    \* the call
  pc,      \* "begun", "ready" for an attempt, "built", "injected", "sent", "done"
  kept,    \* the form an operation built before its first attempt
  form,    \* the form of this attempt
  began,   \* the client's token when the call, or this request of a poll, began
  tries,   \* attempts, or requests of a poll, begun
  cursor,  \* the poll's cur_since
  token,   \* the client's token: 0 if it is empty, then the number of rotations
  disk,    \* whether the file is there
  query,   \* the query keys of the callback URL that is sent
  sent     \* the requests that reached the network, with the timestamp of the
           \* response if it had one

vars == <<call, pc, kept, form, began, tries, cursor, token, disk, query, sent>>

-----------------------------------------------------------------------------
(* Fields *)

From(x) == [from |-> x, age |-> 0]
Token(t) == [from |-> "token", age |-> t]
Cursor(t) == [from |-> "cursor", age |-> t]

Fill(names, x) == [n \in names |-> From(x)]

\* Later writes over earlier ones.
Over(f, g) == [n \in DOMAIN f \cup DOMAIN g |-> IF n \in DOMAIN g THEN g[n] ELSE f[n]]

\* A URL is a field, the rest a file part, whose path may be empty.
SourceFields(c) ==
  CASE c.source = "url"     -> Fill({"url"}, "source")
    [] c.source = "no path" -> Fill({"file"}, "nothing")
    [] c.source = "none"    -> Fill({}, "source")
    [] OTHER -> Fill({"file"}, "source")

\* accurate_offsets is on unless the caller says something else.
Defaults(c) ==
  Fill(IF c.op = "recognize_enterprise" THEN {"accurate_offsets"} \ c.typed ELSE {}, "default")

\* Mutant: the extra parameters are written last.
FormExtrasLast(c) ==
  Over(Over(SourceFields(c), Fill(c.typed, "typed")), Over(Fill(c.extras, "extra"), Defaults(c)))

\* Source first, then the extra parameters, then the typed ones.
Form(c) ==
  Over(Over(SourceFields(c), Fill(c.extras, "extra")), Over(Fill(c.typed, "typed"), Defaults(c)))

\* A cursor that is not positive is not sent.
SinceField(since) ==
  [n \in (IF since > 0 THEN {"since_time"} ELSE {}) |-> Cursor(since)]

\* The token, unless there is none or the form has one already.
Injected(f) ==
  IF token = 0 \/ "api_token" \in DOMAIN f THEN f
  ELSE [n \in DOMAIN f \cup {"api_token"} |-> IF n = "api_token" THEN Token(token) ELSE f[n]]

\* A callback URL that has the key already is refused.
HasKey(keys, key) == \E k \in 1..Len(keys) : keys[k] = key
WithReturn(c) == IF c.metadata THEN Append(c.query, "return") ELSE c.query

-----------------------------------------------------------------------------
(* A call *)

Init ==
  /\ call \in Calls
  /\ pc = "begun" /\ kept = Fill({}, "none") /\ form = Fill({}, "none")
  /\ began = 0 /\ tries = 0 /\ cursor = call.since
  /\ token \in {0, 1} /\ disk \in BOOLEAN
  /\ query = <<>> /\ sent = <<>>

Refused ==
  \/ call.source = "file" /\ ~disk
  \/ call.op = "set_callback_url" /\ call.metadata /\ HasKey(call.query, "return")

\* The source is prepared, a callback URL edited, and most forms built for good.
Prepare ==
  /\ pc = "begun" /\ ~Refused
  /\ query' = WithReturn(call)
  /\ kept' = Form(call)
  /\ began' = token
  /\ pc' = "ready"
  /\ UNCHANGED <<call, form, tries, cursor, token, disk, sent>>

\* A source that is neither a URL nor a file, or a URL with the key: the call throws.
Refuse ==
  /\ pc = "begun" /\ Refused
  /\ pc' = "done"
  /\ UNCHANGED <<call, kept, form, began, tries, cursor, token, disk, query, sent>>

\* Mutant: the first attempt moves the source out of the form.
AttemptFormMoved ==
  IF tries = 0 THEN kept ELSE [n \in DOMAIN kept \ {"url", "file"} |-> kept[n]]

\* recognize and recognize_enterprise reopen the source for every attempt, and
\* the poll fills its parameters anew, with where its cursor is by then; the
\* others pass a copy of what they built.
AttemptForm ==
  IF call.op = "poll" THEN Over(Form(call), SinceField(cursor))
  ELSE IF Operations[call.op].rebuilt THEN Form(call) ELSE kept

StartAttempt ==
  /\ pc = "ready"
  /\ form' = AttemptForm
  /\ began' = IF call.op = "poll" THEN token ELSE began
  /\ tries' = tries + 1
  /\ pc' = "built"
  /\ UNCHANGED <<call, kept, cursor, token, disk, query, sent>>

Inject ==
  /\ pc = "built"
  /\ form' = Injected(form)
  /\ pc' = "injected"
  /\ UNCHANGED <<call, kept, began, tries, cursor, token, disk, query, sent>>

\* A file is opened when it is attached, not before.
Missing == call.source \in {"file", "path"} /\ ~disk

Send ==
  /\ pc = "injected" /\ ~Missing
  /\ sent' = Append(sent, [data |-> form, began |-> began, stamp |-> {}])
  /\ pc' = "sent"
  /\ UNCHANGED <<call, kept, form, began, tries, cursor, token, disk, query>>

\* Mutant: one attempt too many.
MayRetryOnceMore == Operations[call.op].again /\ tries <= MaxAttempts

MayRetry == Operations[call.op].again /\ tries < MaxAttempts

\* The transfer failed, or the file was not there: perhaps there is another
\* attempt.
Again ==
  /\ pc = "sent" \/ (pc = "injected" /\ Missing)
  /\ MayRetry
  /\ pc' = "ready"
  /\ UNCHANGED <<call, kept, form, began, tries, cursor, token, disk, query, sent>>

\* The poll asks again: the request failed, or its response had no timestamp or
\* was skipped ...
PollOn ==
  /\ pc = "sent" /\ call.op = "poll" /\ tries < MaxRequests
  /\ pc' = "ready"
  /\ UNCHANGED <<call, kept, form, began, tries, cursor, token, disk, query, sent>>

\* ... or it had one, which moves the cursor.
PollAdvance ==
  /\ pc = "sent" /\ call.op = "poll" /\ tries < MaxRequests
  /\ \E stamp \in Stamps :
       /\ cursor' = stamp
       /\ sent' = [sent EXCEPT ![Len(sent)].stamp = {stamp}]
  /\ pc' = "ready"
  /\ UNCHANGED <<call, kept, form, began, tries, token, disk, query>>

Finish ==
  /\ pc = "sent" \/ (pc = "injected" /\ Missing)
  /\ pc' = "done"
  /\ UNCHANGED <<call, kept, form, began, tries, cursor, token, disk, query, sent>>

Done == pc = "done" /\ UNCHANGED vars

(* Meanwhile *)

Rotate ==
  /\ token < MaxRotations
  /\ token' = token + 1
  /\ UNCHANGED <<call, pc, kept, form, began, tries, cursor, disk, query, sent>>

FileComesOrGoes ==
  /\ disk' = ~disk
  /\ UNCHANGED <<call, pc, kept, form, began, tries, cursor, token, query, sent>>

Next ==
  \/ Prepare \/ Refuse \/ StartAttempt \/ Inject \/ Send \/ Again \/ PollOn \/ PollAdvance
  \/ Finish \/ Done
  \/ Rotate \/ FileComesOrGoes

Spec == Init /\ [][Next]_vars

-----------------------------------------------------------------------------
(* Properties *)

Fields(f) == DOMAIN f \subseteq Names /\ \A n \in DOMAIN f : f[n].age \in Nat

\* Every variable has its type, and no call makes more attempts than it may.
TypeOK ==
  /\ pc \in {"begun", "ready", "built", "injected", "sent", "done"}
  /\ Fields(kept) /\ Fields(form)
  /\ began \in Nat /\ cursor \in Int /\ token \in Nat /\ disk \in BOOLEAN
  /\ tries \in 0..(IF call.op = "poll" THEN MaxRequests ELSE MaxAttempts)
  /\ tries > 1 => call.op = "poll" \/ Operations[call.op].again
  /\ Len(sent) <= tries
  /\ \A k \in 1..Len(sent) :
       Fields(sent[k].data) /\ sent[k].began \in Nat /\ sent[k].stamp \subseteq Stamps

\* "Typed parameters win on collision": every typed parameter is sent as it was
\* given, every extra one unless a typed one has its name, and no field is sent
\* that nobody asked for.
FieldsAsAsked(f, c) ==
  /\ \A n \in c.typed : n \in DOMAIN f /\ f[n] = From("typed")
  /\ \A n \in c.extras \ c.typed :
       /\ n \in DOMAIN f
       /\ f[n] = From("extra") \/ (n = "accurate_offsets" /\ c.op = "recognize_enterprise")
  /\ DOMAIN f \ (c.typed \cup c.extras) \subseteq
       {"url", "file", "accurate_offsets", "api_token"}
         \cup (IF c.op = "poll" THEN {"since_time"} ELSE {})

\* The caller's own token goes before the client's, and the client's is the one
\* in effect when the call, or the request of a poll, began, or newer: which of
\* them a retry takes is left open.
TokenAsAsked(f, c, t) ==
  IF "api_token" \in c.extras THEN f["api_token"] = From("extra")
  ELSE t > 0 => "api_token" \in DOMAIN f /\ f["api_token"].from = "token"
                /\ f["api_token"].age >= t

\* A request carries its audio: the file, or the URL unless an extra parameter
\* of that name has replaced it.
SourceAsAsked(f, c) ==
  /\ "url" \in DOMAIN f <=> c.source = "url" \/ "url" \in c.typed \cup c.extras
  /\ c.source = "url" => f["url"].from \in {"source", "extra"}
  /\ "file" \in DOMAIN f <=> c.source \notin {"none", "url"}
  /\ c.source \in {"file", "path", "bytes"} => f["file"] = From("source")

\* A callback URL that is to bring metadata has the key once, after its own keys.
CallbackAsAsked(c) ==
  /\ Len(query) >= Len(c.query) /\ \A k \in 1..Len(c.query) : query[k] = c.query[k]
  /\ c.op = "set_callback_url" /\ c.metadata =>
       \A j, k \in 1..Len(query) : query[j] = "return" /\ query[k] = "return" => j = k

\* Whatever a caller's parameters collide with, every attempt of every call and
\* every request of a poll carries what was asked for.
FormAsAsked ==
  \A k \in 1..Len(sent) :
    /\ CallbackAsAsked(call)
    /\ FieldsAsAsked(sent[k].data, call)
    /\ TokenAsAsked(sent[k].data, call, sent[k].began)
    /\ SourceAsAsked(sent[k].data, call)

\* The since_time a request carries, and the one it should after a timestamp.
SinceOf(f) == IF "since_time" \in DOMAIN f THEN {f["since_time"]} ELSE {}
Since(t) == IF t > 0 THEN {Cursor(t)} ELSE {}

\* A retry asks for what the attempt before it did: rotations apart, no field is
\* added, lost or changed, whatever happened to the file or to the form meanwhile.
\* A poll asks from the caller's since_time, then from the timestamp of the last
\* response that had one, and from the same place again after a failure or a
\* response that had none.
RetriesAskTheSame ==
  /\ \A k \in 1..Len(sent) - 1 :
       LET f == sent[k].data
           g == sent[k + 1].data
           moving == {"api_token", "since_time"} IN
       /\ DOMAIN f \ moving = DOMAIN g \ moving
       /\ \A n \in DOMAIN f \ moving : f[n] = g[n]
       /\ sent[k].stamp = {} => SinceOf(g) = SinceOf(f)
       /\ \A t \in sent[k].stamp : SinceOf(g) = Since(t)
  /\ call.op = "poll" /\ sent # <<>> => SinceOf(sent[1].data) = Since(call.since)
=================================================================================
