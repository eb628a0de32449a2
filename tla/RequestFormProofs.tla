--------------------------- MODULE RequestFormProofs ----------------------------
(***************************************************************************)
(* Proofs about RequestForm for any calls, attempts, rotations and         *)
(* timestamps.                                                             *)
(***************************************************************************)
EXTENDS RequestForm, TLAPS

USE FormAssumption DEF FormAssumption

---------------------------------------------------------------------------------
(* What is written into a form *)

TypedNames == Names \ {"file", "api_token", "since_time"}

LEMMA OperationNames ==
  ASSUME NEW op \in DOMAIN Operations
  PROVE  /\ Operations[op].always \cup Operations[op].options \subseteq TypedNames
         /\ Operations[op].sourced \in BOOLEAN
         /\ Operations[op].sourced => "url" \notin Operations[op].always \cup Operations[op].options
         /\ "accurate_offsets" \in Operations[op].always \cup Operations[op].options
              => op = "recognize_enterprise"
         /\ op = "poll" => /\ ~Operations[op].sourced /\ ~Operations[op].extended
                           /\ ~Operations[op].again
<1> USE DEF Operation, TypedNames, Names
<1>1. DOMAIN Operations = {"recognize", "recognize_enterprise", "set_callback_url",
        "add_stream", "set_url", "delete", "read", "upload", "find_lyrics", "raw_request", "poll"}
  BY DEF Operations
<1>2. CASE op = "recognize"
  BY <1>2 DEF Operations, Recognize
<1>3. CASE op = "recognize_enterprise"
  BY <1>3 DEF Operations, RecognizeEnterprise
<1>4. CASE op = "set_callback_url"
  BY <1>4 DEF Operations, SetCallbackUrl
<1>5. CASE op = "add_stream"
  BY <1>5 DEF Operations, AddStream
<1>6. CASE op = "set_url"
  BY <1>6 DEF Operations, SetUrl
<1>7. CASE op = "delete"
  BY <1>7 DEF Operations, Delete
<1>8. CASE op = "read"
  BY <1>8 DEF Operations, Read
<1>9. CASE op = "upload"
  BY <1>9 DEF Operations, Upload
<1>10. CASE op = "find_lyrics"
  BY <1>10 DEF Operations, FindLyrics
<1>11. CASE op = "raw_request"
  BY <1>11 DEF Operations, RawRequest
<1>12. CASE op = "poll"
  BY <1>12 DEF Operations, Poll
<1>13. QED BY <1>1, <1>2, <1>3, <1>4, <1>5, <1>6, <1>7, <1>8, <1>9, <1>10, <1>11, <1>12

\* The names in a form, and who wrote each of them last.
LEMMA FormWrites ==
  ASSUME NEW c \in Calls
  PROVE  /\ DOMAIN Form(c) = DOMAIN SourceFields(c) \cup c.extras \cup c.typed \cup DOMAIN Defaults(c)
         /\ \A n \in DOMAIN Form(c) :
              Form(c)[n] = IF n \in DOMAIN Defaults(c) THEN From("default")
                           ELSE IF n \in c.typed THEN From("typed")
                           ELSE IF n \in c.extras THEN From("extra")
                           ELSE SourceFields(c)[n]
<1> DEFINE base == SourceFields(c)
           extra == Fill(c.extras, "extra")
           typed == Fill(c.typed, "typed")
           rest == Defaults(c)
<1>1. DOMAIN extra = c.extras /\ \A n \in c.extras : extra[n] = From("extra")
  BY DEF Fill
<1>2. DOMAIN typed = c.typed /\ \A n \in c.typed : typed[n] = From("typed")
  BY DEF Fill
<1>3. \A n \in DOMAIN rest : rest[n] = From("default")
  BY DEF Fill, Defaults
<1> DEFINE low == Over(base, extra)
           high == Over(typed, rest)
<1>4. /\ DOMAIN low = DOMAIN base \cup c.extras
      /\ \A n \in DOMAIN low : low[n] = IF n \in c.extras THEN From("extra") ELSE base[n]
  <2> HIDE DEF base, extra
  <2>1. /\ DOMAIN low = DOMAIN base \cup DOMAIN extra
        /\ \A n \in DOMAIN low : low[n] = IF n \in DOMAIN extra THEN extra[n] ELSE base[n]
    BY DEF Over
  <2> HIDE DEF low
  <2>2. QED BY <1>1, <2>1
<1>5. /\ DOMAIN high = c.typed \cup DOMAIN rest
      /\ \A n \in DOMAIN high : high[n] = IF n \in DOMAIN rest THEN From("default") ELSE From("typed")
  <2> HIDE DEF typed, rest
  <2>1. /\ DOMAIN high = DOMAIN typed \cup DOMAIN rest
        /\ \A n \in DOMAIN high : high[n] = IF n \in DOMAIN rest THEN rest[n] ELSE typed[n]
    BY DEF Over
  <2> HIDE DEF high
  <2>2. QED BY <1>2, <1>3, <2>1
<1>6. Form(c) = Over(low, high)
  BY DEF Form
<1> HIDE DEF low, high, base, rest
<1>7. /\ DOMAIN Form(c) = DOMAIN low \cup DOMAIN high
      /\ \A n \in DOMAIN Form(c) : Form(c)[n] = IF n \in DOMAIN high THEN high[n] ELSE low[n]
  BY <1>6 DEF Over
<1>8. base = SourceFields(c) /\ rest = Defaults(c)
  BY DEF base, rest
<1>9. QED BY <1>4, <1>5, <1>7, <1>8

\* The source writes the URL or the file; the defaults one name, if nobody else.
LEMMA SourceWrites ==
  ASSUME NEW c
  PROVE  /\ c.source = "url" =>
              DOMAIN SourceFields(c) = {"url"} /\ SourceFields(c)["url"] = From("source")
         /\ c.source = "none" => DOMAIN SourceFields(c) = {}
         /\ c.source \in Sources \ {"url", "none"} => DOMAIN SourceFields(c) = {"file"}
         /\ c.source \in {"file", "path", "bytes"} => SourceFields(c)["file"] = From("source")
         /\ \A n \in DOMAIN SourceFields(c) :
              SourceFields(c)[n] = From("source") \/ SourceFields(c)[n] = From("nothing")
BY DEF SourceFields, Fill, Sources

LEMMA DefaultWrites ==
  ASSUME NEW c
  PROVE  /\ DOMAIN Defaults(c) = IF c.op = "recognize_enterprise" THEN {"accurate_offsets"} \ c.typed ELSE {}
BY DEF Defaults, Fill

---------------------------------------------------------------------------------
(* The form of one request *)

\* AttemptForm, for a given place of the cursor.
FormAt(c, since) == IF c.op = "poll" THEN Over(Form(c), SinceField(since)) ELSE Form(c)

\* Where since_time may come on top of what the call asked for.
CursorNames(c) == IF c.op = "poll" THEN {"since_time"} ELSE {}

\* What a call the signatures allow has, by its operation.
LEMMA CallWrites ==
  ASSUME NEW c \in Calls
  PROVE  /\ c.op \in DOMAIN Operations /\ c.source \in Sources
         /\ c.typed \subseteq TypedNames /\ c.extras \subseteq Names \ {"file"}
         /\ c.source # "none" => "url" \notin c.typed
         /\ "accurate_offsets" \in c.typed => c.op = "recognize_enterprise"
         /\ c.op = "poll" => c.source = "none" /\ c.extras = {}
<1>1. c.op \in DOMAIN Operations /\ Wellformed(c)
  OBVIOUS
<1>2. /\ c.typed \subseteq Operations[c.op].always \cup Operations[c.op].options
      /\ (c.source # "none") = Operations[c.op].sourced
      /\ c.source \in Sources /\ c.extras \subseteq Names \ {"file"}
      /\ c.extras # {} => Operations[c.op].extended
  BY <1>1 DEF Wellformed
<1>3. QED BY <1>1, <1>2, OperationNames

LEMMA PollHasNoSince ==
  ASSUME NEW c \in Calls, c.op = "poll"
  PROVE  "since_time" \notin DOMAIN Form(c)
<1>1. c.source = "none" /\ c.extras = {} /\ "since_time" \notin c.typed
  BY CallWrites DEF TypedNames
<1>2. DOMAIN SourceFields(c) = {} /\ DOMAIN Defaults(c) = {}
  BY <1>1, SourceWrites, DefaultWrites
<1>3. QED BY <1>1, <1>2, FormWrites

LEMMA CursorWrites ==
  ASSUME NEW c \in Calls, NEW since \in Int
  PROVE  /\ DOMAIN FormAt(c, since) \ CursorNames(c) = DOMAIN Form(c) \ CursorNames(c)
         /\ \A n \in DOMAIN Form(c) : n \in DOMAIN FormAt(c, since) /\ FormAt(c, since)[n] = Form(c)[n]
         /\ c.op = "poll" => SinceOf(FormAt(c, since)) = Since(since)
<1> DEFINE g == Form(c)
           h == SinceField(since)
<1>1. CASE c.op = "poll"
  <2>1. "since_time" \notin DOMAIN g
    BY <1>1, PollHasNoSince
  <2>2. /\ DOMAIN h = IF since > 0 THEN {"since_time"} ELSE {}
        /\ since > 0 => h["since_time"] = Cursor(since)
    BY DEF SinceField
  <2>3. FormAt(c, since) = Over(g, h)
    BY <1>1 DEF FormAt
  <2> HIDE DEF g, h
  <2>4. /\ DOMAIN FormAt(c, since) = DOMAIN g \cup DOMAIN h
        /\ \A n \in DOMAIN FormAt(c, since) :
             FormAt(c, since)[n] = IF n \in DOMAIN h THEN h[n] ELSE g[n]
    BY <2>3 DEF Over
  <2>5. SinceOf(FormAt(c, since)) = Since(since)
    BY <2>1, <2>2, <2>4 DEF SinceOf, Since
  <2>6. /\ DOMAIN FormAt(c, since) \ {"since_time"} = DOMAIN g \ {"since_time"}
        /\ \A n \in DOMAIN g : n \in DOMAIN FormAt(c, since) /\ FormAt(c, since)[n] = g[n]
    BY <2>1, <2>2, <2>4
  <2>7. QED BY <1>1, <2>5, <2>6 DEF CursorNames, g
<1>2. CASE c.op # "poll"
  BY <1>2 DEF FormAt, CursorNames
<1>3. QED BY <1>1, <1>2

---------------------------------------------------------------------------------
(* A form with the token in it *)

\* Injected, for a given token.
WithToken(f, t) ==
  IF t = 0 \/ "api_token" \in DOMAIN f THEN f
  ELSE [n \in DOMAIN f \cup {"api_token"} |-> IF n = "api_token" THEN Token(t) ELSE f[n]]

\* What an attempt that began at token b sends, its cursor at since.
Complete(f, b, since) == \E t \in Nat : t >= b /\ f = WithToken(FormAt(call, since), t)

LEMMA TokenWrites ==
  ASSUME NEW g, NEW t \in Nat
  PROVE  LET f == WithToken(g, t) IN
         /\ DOMAIN f \ {"api_token"} = DOMAIN g \ {"api_token"}
         /\ \A n \in DOMAIN g : n \in DOMAIN f /\ f[n] = g[n]
         /\ "api_token" \notin DOMAIN g /\ t > 0 =>
              "api_token" \in DOMAIN f /\ f["api_token"] = Token(t)
BY DEF WithToken

\* What the token and the cursor leave of the form the call asked for, and where
\* the cursor has got to.
LEMMA CompleteWrites ==
  ASSUME NEW c \in Calls, NEW t \in Nat, NEW since \in Int
  PROVE  LET f == WithToken(FormAt(c, since), t)
             added == {"api_token"} \cup CursorNames(c) IN
         /\ DOMAIN f \ added = DOMAIN Form(c) \ added
         /\ \A n \in DOMAIN Form(c) : n \in DOMAIN f /\ f[n] = Form(c)[n]
         /\ "api_token" \notin DOMAIN Form(c) /\ t > 0 =>
              "api_token" \in DOMAIN f /\ f["api_token"] = Token(t)
         /\ c.op = "poll" => SinceOf(f) = Since(since)
<1> DEFINE h == FormAt(c, since)
           f == WithToken(h, t)
<1>1. /\ DOMAIN h \ CursorNames(c) = DOMAIN Form(c) \ CursorNames(c)
      /\ \A n \in DOMAIN Form(c) : n \in DOMAIN h /\ h[n] = Form(c)[n]
      /\ c.op = "poll" => SinceOf(h) = Since(since)
  BY CursorWrites
<1> HIDE DEF h
<1>2. /\ DOMAIN f \ {"api_token"} = DOMAIN h \ {"api_token"}
      /\ \A n \in DOMAIN h : n \in DOMAIN f /\ f[n] = h[n]
      /\ "api_token" \notin DOMAIN h /\ t > 0 =>
              "api_token" \in DOMAIN f /\ f["api_token"] = Token(t)
  BY TokenWrites
<1> HIDE DEF f
<1>3. "api_token" \notin CursorNames(c)
  BY DEF CursorNames
<1>4. c.op = "poll" => SinceOf(f) = Since(since)
  BY <1>1, <1>2 DEF SinceOf
<1>5. QED BY <1>1, <1>2, <1>3, <1>4 DEF f, h

\* Whatever a complete form has, it is what the call asked for.
LEMMA CompleteAsAsked ==
  ASSUME NEW c \in Calls, NEW t \in Nat, NEW b \in Nat, t >= b, NEW since \in Int
  PROVE  LET f == WithToken(FormAt(c, since), t) IN
         FieldsAsAsked(f, c) /\ TokenAsAsked(f, c, b) /\ SourceAsAsked(f, c)
<1> DEFINE f == WithToken(FormAt(c, since), t)
<1>1. /\ c.op \in DOMAIN Operations /\ c.source \in Sources
      /\ c.typed \subseteq TypedNames /\ c.extras \subseteq Names \ {"file"}
      /\ c.source # "none" => "url" \notin c.typed
      /\ "accurate_offsets" \in c.typed => c.op = "recognize_enterprise"
  BY CallWrites
<1>2. /\ DOMAIN Form(c) = DOMAIN SourceFields(c) \cup c.extras \cup c.typed \cup DOMAIN Defaults(c)
      /\ \A n \in DOMAIN Form(c) :
              Form(c)[n] = IF n \in DOMAIN Defaults(c) THEN From("default")
                           ELSE IF n \in c.typed THEN From("typed")
                           ELSE IF n \in c.extras THEN From("extra")
                           ELSE SourceFields(c)[n]
  BY FormWrites
<1>3. DOMAIN SourceFields(c) \subseteq {"url", "file"}
  BY <1>1, SourceWrites DEF Sources
<1>4. /\ DOMAIN Defaults(c) \subseteq {"accurate_offsets"} \ c.typed
      /\ DOMAIN Defaults(c) # {} => c.op = "recognize_enterprise"
  BY DefaultWrites
<1> DEFINE added == {"api_token"} \cup CursorNames(c)
<1>5. /\ DOMAIN f \ added = DOMAIN Form(c) \ added
      /\ \A n \in DOMAIN Form(c) : n \in DOMAIN f /\ f[n] = Form(c)[n]
      /\ "api_token" \notin DOMAIN Form(c) /\ t > 0 =>
              "api_token" \in DOMAIN f /\ f["api_token"] = Token(t)
  BY CompleteWrites
<1>11. "url" \notin added /\ "file" \notin added
  BY DEF CursorNames
<1> HIDE DEF f
<1>6. FieldsAsAsked(f, c)
  <2>1. \A n \in c.typed : n \in DOMAIN f /\ f[n] = From("typed")
    BY <1>2, <1>4, <1>5
  <2>2. \A n \in c.extras \ c.typed :
          /\ n \in DOMAIN f
          /\ f[n] = From("extra") \/ (n = "accurate_offsets" /\ c.op = "recognize_enterprise")
    BY <1>2, <1>4, <1>5
  <2>3. DOMAIN f \ (c.typed \cup c.extras)
          \subseteq {"url", "file", "accurate_offsets", "api_token"} \cup CursorNames(c)
    BY <1>2, <1>3, <1>4, <1>5
  <2>4. QED BY <2>1, <2>2, <2>3 DEF FieldsAsAsked, CursorNames
<1>7. TokenAsAsked(f, c, b)
  <2>1. "api_token" \notin c.typed /\ "api_token" \notin DOMAIN Defaults(c)
        /\ "api_token" \notin DOMAIN SourceFields(c)
    BY <1>1, <1>3, <1>4 DEF TypedNames
  <2>2. CASE "api_token" \in c.extras
    <3>1. "api_token" \in DOMAIN Form(c) /\ Form(c)["api_token"] = From("extra")
      BY <1>2, <2>1, <2>2
    <3>2. f["api_token"] = From("extra")
      BY <1>5, <3>1
    <3>3. QED BY <2>2, <3>2 DEF TokenAsAsked
  <2>3. CASE "api_token" \notin c.extras
    <3>1. "api_token" \notin DOMAIN Form(c)
      BY <1>2, <2>1, <2>3
    <3>2. b > 0 => "api_token" \in DOMAIN f /\ f["api_token"] = Token(t)
      BY <1>5, <3>1
    <3>3. Token(t).from = "token" /\ Token(t).age = t
      BY DEF Token
    <3>4. QED BY <2>3, <3>2, <3>3 DEF TokenAsAsked
  <2>4. QED BY <2>2, <2>3
<1>8. SourceAsAsked(f, c)
  <2>1. "url" \in DOMAIN f <=> c.source = "url" \/ "url" \in c.typed \cup c.extras
    <3>1. "url" \in DOMAIN SourceFields(c) <=> c.source = "url"
      BY <1>1, SourceWrites DEF Sources
    <3>2. QED BY <1>2, <1>4, <1>5, <1>11, <3>1
  <2>2. c.source = "url" => f["url"].from \in {"source", "extra"}
    <3> SUFFICES ASSUME c.source = "url" PROVE f["url"].from \in {"source", "extra"}
      OBVIOUS
    <3>1. SourceFields(c)["url"] = From("source") /\ "url" \in DOMAIN SourceFields(c)
      BY SourceWrites DEF Sources
    <3>2. "url" \notin c.typed /\ "url" \notin DOMAIN Defaults(c)
      BY <1>1, <1>4
    <3>3. f["url"] = From("source") \/ f["url"] = From("extra")
      BY <1>2, <1>5, <3>1, <3>2
    <3>4. QED BY <3>3 DEF From
  <2>3. "file" \in DOMAIN f <=> c.source \notin {"none", "url"}
    <3>1. "file" \in DOMAIN SourceFields(c) <=> c.source \notin {"none", "url"}
      <4>1. CASE c.source = "url"
        BY <4>1, SourceWrites
      <4>2. CASE c.source = "none"
        BY <4>2, SourceWrites
      <4>3. CASE c.source \in Sources \ {"url", "none"}
        <5>1. DOMAIN SourceFields(c) = {"file"}
          BY <4>3, SourceWrites
        <5>2. QED BY <4>3, <5>1
      <4>4. QED BY <1>1, <4>1, <4>2, <4>3
    <3>2. QED BY <1>1, <1>2, <1>4, <1>5, <1>11, <3>1 DEF TypedNames
  <2>4. c.source \in {"file", "path", "bytes"} => f["file"] = From("source")
    <3> SUFFICES ASSUME c.source \in {"file", "path", "bytes"} PROVE f["file"] = From("source")
      OBVIOUS
    <3>0. c.source \in Sources \ {"url", "none"}
      BY DEF Sources
    <3>1. SourceFields(c)["file"] = From("source") /\ "file" \in DOMAIN SourceFields(c)
      <4>1. DOMAIN SourceFields(c) = {"file"} /\ SourceFields(c)["file"] = From("source")
        BY <3>0, SourceWrites, Zenon
      <4>2. QED BY <4>1
    <3>2. "file" \notin c.typed \cup c.extras \cup DOMAIN Defaults(c)
      BY <1>1, <1>4 DEF TypedNames
    <3>3. QED BY <1>2, <1>5, <3>1, <3>2
  <2>5. QED BY <2>1, <2>2, <2>3, <2>4 DEF SourceAsAsked
<1>9. QED BY <1>6, <1>7, <1>8 DEF f
---------------------------------------------------------------------------------
(* The invariant of a call *)

\* What Prepare has settled for every attempt.
Prepared ==
  /\ kept = Form(call)
  /\ query = WithReturn(call)
  /\ ~(call.op = "set_callback_url" /\ call.metadata /\ HasKey(call.query, "return"))

\* The attempt at hand, of a call that has been prepared.
Attempt ==
  /\ pc \in {"ready", "built", "injected", "sent"} \/ sent # <<>> => Prepared
  /\ pc = "built" => form = FormAt(call, cursor)
  /\ pc = "injected" => Complete(form, began, cursor)
  /\ began <= token

Bound == IF call.op = "poll" THEN MaxRequests ELSE MaxAttempts

Counts ==
  /\ pc = "begun" => tries = 0
  /\ pc = "ready" =>
       tries < Bound /\ (tries > 0 => call.op = "poll" \/ Operations[call.op].again)
  /\ pc \in {"built", "injected"} => Len(sent) < tries
  /\ pc = "sent" => sent # <<>>
  /\ Len(sent) <= tries

Origins == {"none", "source", "nothing", "extra", "typed", "default", "token",
            "cursor"}
Values == [from : Origins, age : Nat]
Forms == UNION {[names -> Values] : names \in SUBSET Names}
Requests == [data : Forms, began : Nat, stamp : SUBSET Stamps]

Types ==
  /\ call \in Calls
  /\ pc \in {"begun", "ready", "built", "injected", "sent", "done"}
  /\ kept \in Forms /\ form \in Forms
  /\ began \in Nat /\ cursor \in Int /\ token \in Nat /\ disk \in BOOLEAN
  /\ tries \in Nat /\ tries <= Bound
  /\ tries > 1 => call.op = "poll" \/ Operations[call.op].again
  /\ sent \in Seq(Requests)

AllComplete ==
  \A k \in 1..Len(sent) : \E since \in Int : Complete(sent[k].data, sent[k].began, since)

\* Two requests of a poll, one after the other.
Follows(r, q) ==
  /\ r.stamp = {} => SinceOf(q.data) = SinceOf(r.data)
  /\ \A t \in r.stamp : SinceOf(q.data) = Since(t)

\* Where the cursor is after the last request.
CursorAfter(r) ==
  /\ r.stamp = {} => SinceOf(r.data) = Since(cursor)
  /\ \A t \in r.stamp : cursor = t

\* The cursor of a poll is where the next request begins; nothing else has one.
Followed ==
  IF call.op = "poll"
  THEN /\ sent = <<>> => cursor = call.since
       /\ sent # <<>> => /\ SinceOf(sent[1].data) = Since(call.since)
                         /\ CursorAfter(sent[Len(sent)])
       /\ \A k \in 1..Len(sent) - 1 : Follows(sent[k], sent[k + 1])
  ELSE \A k \in 1..Len(sent) : sent[k].stamp = {}

IInv == Types /\ Attempt /\ Counts /\ AllComplete /\ Followed

LEMMA FormIsForm ==
  ASSUME NEW c \in Calls
  PROVE  Form(c) \in Forms
<1>1. Form(c) = [n \in DOMAIN Form(c) |-> Form(c)[n]]
  BY DEF Form, Over
<1>2. DOMAIN Form(c) \subseteq Names
  <2>1. c.op \in DOMAIN Operations /\ Wellformed(c)
    OBVIOUS
  <2>2. c.typed \subseteq Names /\ c.extras \subseteq Names /\ c.source \in Sources
    BY <2>1, OperationNames DEF Wellformed, TypedNames
  <2>3. DOMAIN SourceFields(c) \cup DOMAIN Defaults(c) \subseteq {"url", "file", "accurate_offsets"}
    BY <2>2, SourceWrites, DefaultWrites DEF Sources
  <2>4. {"url", "file", "accurate_offsets"} \subseteq Names
    BY DEF Names
  <2>5. QED BY <2>2, <2>3, <2>4, FormWrites
<1>3. \A n \in DOMAIN Form(c) : Form(c)[n] \in Values
  <2>1. \A x \in Origins : From(x) \in Values
    BY DEF From, Values
  <2>2. /\ From("default") \in Values /\ From("typed") \in Values /\ From("extra") \in Values
        /\ From("source") \in Values /\ From("nothing") \in Values
    BY <2>1 DEF Origins
  <2>3. \A n \in DOMAIN SourceFields(c) : SourceFields(c)[n] = From("source") \/ SourceFields(c)[n] = From("nothing")
    BY SourceWrites
  <2>4. QED BY <2>2, <2>3, FormWrites
<1>4. QED BY <1>1, <1>2, <1>3 DEF Forms

LEMMA FormAtIsForm ==
  ASSUME NEW c \in Calls, NEW since \in Int
  PROVE  FormAt(c, since) \in Forms
<1> DEFINE g == Form(c)
           h == SinceField(since)
<1>1. PICK names \in SUBSET Names : g \in [names -> Values]
  BY FormIsForm DEF Forms
<1>2. /\ DOMAIN h \subseteq {"since_time"} /\ (DOMAIN h # {} => since > 0)
      /\ \A n \in DOMAIN h : h[n] = Cursor(since)
  BY DEF SinceField
<1>3. since > 0 => Cursor(since) \in Values
  BY DEF Cursor, Values, Origins
<1>4. "since_time" \in Names
  BY Zenon DEF Names
<1> HIDE DEF g, h
<1>5. names \cup DOMAIN h \in SUBSET Names
  BY <1>2, <1>4
<1>6. Over(g, h) \in [names \cup DOMAIN h -> Values]
  BY <1>1, <1>2, <1>3 DEF Over
<1>7. Over(g, h) \in Forms
  BY <1>5, <1>6 DEF Forms
<1>8. QED BY <1>7, FormIsForm DEF FormAt, g, h

LEMMA WithTokenIsForm ==
  ASSUME NEW f \in Forms, NEW t \in Nat
  PROVE  WithToken(f, t) \in Forms
<1>1. PICK names \in SUBSET Names : f \in [names -> Values]
  BY DEF Forms
<1>2. "api_token" \in Names /\ Token(t) \in Values
  <2>1. "api_token" \in Names
    BY Zenon DEF Names
  <2>2. Token(t) \in Values
    BY DEF Token, Values, Origins
  <2>3. QED BY <2>1, <2>2
<1>3. WithToken(f, t) \in [names -> Values]
      \/ WithToken(f, t) \in [names \cup {"api_token"} -> Values]
  BY <1>1, <1>2 DEF WithToken
<1>4. names \cup {"api_token"} \in SUBSET Names
  BY <1>2
<1>5. QED BY <1>3, <1>4 DEF Forms

LEMMA FormsHaveFields ==
  ASSUME NEW f \in Forms
  PROVE  Fields(f)
BY DEF Forms, Fields, Values

LEMMA InitInv == Init => IInv
<1> SUFFICES ASSUME Init PROVE IInv
  OBVIOUS
<1>1. Fill({}, "none") \in Forms
  <2>1. Fill({}, "none") \in [{} -> Values] /\ {} \in SUBSET Names
    BY DEF Fill
  <2>2. QED BY <2>1 DEF Forms
<1>2. Types
  BY <1>1 DEF Init, Types, Bound
<1>3. Attempt /\ Counts /\ AllComplete /\ Followed
  BY DEF Init, Attempt, Counts, AllComplete, Followed
<1>4. QED BY <1>2, <1>3 DEF IInv

\* A step that sends nothing and leaves the cursor leaves what was sent.
LEMMA NothingSent ==
  ASSUME AllComplete, Followed, UNCHANGED <<call, cursor, sent>>
  PROVE  AllComplete' /\ Followed'
BY DEF AllComplete, Complete, Followed, CursorAfter

LEMMA SendInv == IInv /\ Send => IInv'
<1> SUFFICES ASSUME IInv, Send PROVE IInv'
  OBVIOUS
<1> USE DEF IInv
<1> DEFINE attempt == [data |-> form, began |-> began, stamp |-> {}]
<1>1. /\ pc = "injected" /\ pc' = "sent" /\ sent' = Append(sent, attempt)
      /\ UNCHANGED <<call, kept, form, began, tries, cursor, token, disk, query>>
  BY DEF Send
<1>2. attempt \in Requests
  BY DEF Types, Requests
<1>3. sent \in Seq(Requests) /\ Len(sent) \in Nat /\ call \in Calls /\ cursor \in Int
  BY DEF Types
<1>4. /\ sent' \in Seq(Requests) /\ Len(sent') = Len(sent) + 1 /\ sent'[Len(sent) + 1] = attempt
      /\ \A k \in 1..Len(sent) : sent'[k] = sent[k]
  BY <1>1, <1>2, <1>3
<1>5. Types'
  BY <1>1, <1>4 DEF Types, Bound
<1>6. Complete(form, began, cursor) /\ Prepared
  BY <1>1 DEF Attempt
<1>7. Attempt' /\ Counts'
  BY <1>1, <1>3, <1>4, <1>6 DEF Attempt, Prepared, Counts, Types, Bound
<1>8. AllComplete'
  <2> SUFFICES ASSUME NEW k \in 1..Len(sent')
               PROVE  \E since \in Int : Complete(sent'[k].data, sent'[k].began, since)
    BY <1>1 DEF AllComplete, Complete
  <2>1. CASE k = Len(sent) + 1
    BY <1>3, <1>4, <1>6, <2>1
  <2>2. CASE k # Len(sent) + 1
    <3>1. k \in 1..Len(sent)
      BY <1>3, <1>4, <2>2
    <3>2. QED BY <1>4, <3>1 DEF AllComplete
  <2>3. QED BY <2>1, <2>2
<1>9. Followed'
  <2>1. CASE call.op = "poll"
    <3>1. SinceOf(form) = Since(cursor)
      BY <1>3, <1>6, <2>1, CompleteWrites DEF Complete
    <3>2. SinceOf(attempt.data) = Since(cursor) /\ attempt.stamp = {}
      BY <3>1
    <3>3. CursorAfter(sent[Len(sent)]) /\ sent # <<>> => Follows(sent[Len(sent)], attempt)
      BY <3>2 DEF CursorAfter, Follows
    <3>4. CursorAfter(attempt)'
      BY <1>1, <3>2 DEF CursorAfter
    <3> HIDE DEF attempt
    <3>5. SinceOf(sent'[1].data) = Since(call.since)
      BY <1>3, <1>4, <2>1, <3>2 DEF Followed
    <3>6. \A k \in 1..Len(sent') - 1 : Follows(sent'[k], sent'[k + 1])
      <4> SUFFICES ASSUME NEW k \in 1..Len(sent) PROVE Follows(sent'[k], sent'[k + 1])
        BY <1>3, <1>4
      <4>1. CASE k = Len(sent)
        BY <1>3, <1>4, <2>1, <3>3, <4>1 DEF Followed
      <4>2. CASE k # Len(sent)
        <5>1. k \in 1..Len(sent) - 1 /\ k + 1 \in 1..Len(sent)
          BY <1>3, <4>2
        <5>2. QED BY <1>4, <2>1, <5>1 DEF Followed
      <4>3. QED BY <4>1, <4>2
    <3>7. sent' # <<>>
      BY <1>3, <1>4
    <3>8. sent'[Len(sent')] = attempt /\ CursorAfter(sent[Len(sent)])' = CursorAfter(attempt)'
      BY <1>1, <1>3, <1>4 DEF attempt
    <3>9. QED BY <1>1, <2>1, <3>4, <3>5, <3>6, <3>7, <3>8 DEF Followed
  <2>2. CASE call.op # "poll"
    <3> SUFFICES ASSUME NEW k \in 1..Len(sent') PROVE sent'[k].stamp = {}
      BY <1>1, <2>2 DEF Followed
    <3>1. QED BY <1>3, <1>4, <2>2 DEF Followed
  <2>3. QED BY <2>1, <2>2
<1>10. QED BY <1>5, <1>7, <1>8, <1>9

LEMMA PollAdvanceInv == IInv /\ PollAdvance => IInv'
<1> SUFFICES ASSUME IInv, PollAdvance PROVE IInv'
  OBVIOUS
<1> USE DEF IInv
<1>1. /\ pc = "sent" /\ call.op = "poll" /\ tries < MaxRequests /\ pc' = "ready"
      /\ UNCHANGED <<call, kept, form, began, tries, token, disk, query>>
  BY DEF PollAdvance
<1>2. PICK stamp \in Stamps :
        /\ cursor' = stamp
        /\ sent' = [sent EXCEPT ![Len(sent)].stamp = {stamp}]
  BY DEF PollAdvance
<1> DEFINE n == Len(sent)
<1>3. /\ sent \in Seq(Requests) /\ n \in Nat \ {0} /\ stamp \in Int
  BY <1>1 DEF Types, Counts
<1>4. \A k \in 1..n : sent[k] \in Requests
  BY <1>3
<1> DEFINE last == [sent[n] EXCEPT !.stamp = {stamp}]
<1>5. last \in Requests /\ last.data = sent[n].data /\ last.began = sent[n].began
      /\ last.stamp = {stamp}
  BY <1>3, <1>4 DEF Requests
<1>6. /\ sent' \in Seq(Requests) /\ Len(sent') = n
      /\ \A k \in 1..n : sent'[k] = IF k = n THEN last ELSE sent[k]
  <2>1. sent' = [sent EXCEPT ![n] = last]
    BY <1>2
  <2>2. sent \in [1..n -> Requests] /\ n \in 1..n
    BY <1>3
  <2> HIDE DEF last
  <2>3. sent' \in [1..n -> Requests]
    BY <1>5, <2>1, <2>2
  <2>4. \A k \in 1..n : sent'[k] = IF k = n THEN last ELSE sent[k]
    BY <2>1, <2>2
  <2>5. QED BY <1>3, <2>3, <2>4
<1>7. /\ \A k \in 1..n : sent'[k].data = sent[k].data /\ sent'[k].began = sent[k].began
      /\ sent'[n].stamp = {stamp}
  <2> HIDE DEF last
  <2>1. QED BY <1>3, <1>5, <1>6
<1> HIDE DEF last
<1>8. Types'
  BY <1>1, <1>2, <1>3, <1>6 DEF Types, Bound
<1>9. Attempt' /\ Counts'
  BY <1>1, <1>3, <1>6 DEF Attempt, Prepared, Counts, Types, Bound
<1>10. AllComplete'
  BY <1>1, <1>6, <1>7 DEF AllComplete, Complete
<1>11. Followed'
  <2>1. sent' # <<>> /\ sent # <<>>
    BY <1>3, <1>6
  <2>2. SinceOf(sent'[1].data) = Since(call.since)
    BY <1>1, <1>3, <1>7, <2>1 DEF Followed
  <2>3. sent'[Len(sent')].stamp # {} /\ \A t \in sent'[Len(sent')].stamp : cursor' = t
    BY <1>2, <1>3, <1>6, <1>7
  <2>4. \A k \in 1..Len(sent') - 1 : Follows(sent'[k], sent'[k + 1])
    <3> SUFFICES ASSUME NEW k \in 1..n - 1 PROVE Follows(sent'[k], sent'[k + 1])
      BY <1>6
    <3>0. k \in 1..n /\ k # n /\ k + 1 \in 1..n
      BY <1>3
    <3>1. /\ Follows(sent[k], sent[k + 1]) /\ sent'[k] = sent[k]
          /\ sent'[k + 1].data = sent[k + 1].data
      BY <1>1, <1>6, <1>7, <3>0 DEF Followed
    <3>2. QED BY <3>1 DEF Follows
  <2>5. QED BY <1>1, <2>1, <2>2, <2>3, <2>4 DEF Followed, CursorAfter
<1>12. QED BY <1>8, <1>9, <1>10, <1>11

LEMMA NextInv == IInv /\ [Next]_vars => IInv'
<1> SUFFICES ASSUME IInv, [Next]_vars PROVE IInv'
  OBVIOUS
<1> USE DEF IInv
<1>1. call \in Calls /\ cursor \in Int /\ Form(call) \in Forms
  BY FormIsForm DEF Types
<1>2. CASE Prepare
  <2>1. pc = "begun" /\ pc' = "ready" /\ tries = 0 /\ ~Refused
    BY <1>2 DEF Prepare, Counts
  <2>2. UNCHANGED <<call, form, tries, cursor, token, disk, sent>> /\ kept' = Form(call)
        /\ query' = WithReturn(call) /\ began' = token
    BY <1>2 DEF Prepare
  <2>3. Types'
    BY <1>1, <2>1, <2>2 DEF Types, Bound
  <2>4. Prepared'
    BY <2>1, <2>2 DEF Prepared, Refused, Form, SourceFields, Defaults, WithReturn
  <2>5. Attempt' /\ Counts'
    BY <2>1, <2>2, <2>4 DEF Attempt, Counts, Types, Bound
  <2>6. QED BY <2>2, <2>3, <2>5, NothingSent
<1>3. CASE Refuse
  <2>1. pc = "begun" /\ pc' = "done"
        /\ UNCHANGED <<call, kept, form, began, tries, cursor, token, disk, query, sent>>
    BY <1>3 DEF Refuse
  <2>2. Types' /\ Attempt' /\ Counts'
    BY <2>1 DEF Types, Bound, Attempt, Prepared, Counts
  <2>3. QED BY <2>1, <2>2, NothingSent
<1>4. CASE StartAttempt
  <2>1. /\ pc = "ready" /\ pc' = "built" /\ form' = AttemptForm /\ tries' = tries + 1
        /\ began' \in {token, began}
        /\ UNCHANGED <<call, kept, cursor, token, disk, query, sent>>
    BY <1>4 DEF StartAttempt
  <2>2. AttemptForm = FormAt(call, cursor)
    BY <2>1 DEF AttemptForm, FormAt, Attempt, Prepared
  <2>3. FormAt(call, cursor) \in Forms
    BY <1>1, FormAtIsForm
  <2>4. Types'
    BY <2>1, <2>2, <2>3 DEF Types, Counts, Bound
  <2>5. Attempt' /\ Counts'
    BY <2>1, <2>2 DEF Attempt, Prepared, Counts, Types, Bound
  <2>6. QED BY <2>1, <2>4, <2>5, NothingSent
<1>5. CASE Inject
  <2>1. /\ pc = "built" /\ pc' = "injected" /\ form' = WithToken(form, token)
        /\ UNCHANGED <<call, kept, began, tries, cursor, token, disk, query, sent>>
    BY <1>5 DEF Inject, Injected, WithToken
  <2>2. Types'
    BY <2>1, WithTokenIsForm DEF Types, Bound
  <2>3. Complete(form, began, cursor)'
    BY <2>1 DEF Attempt, Complete, Types
  <2>4. Attempt' /\ Counts'
    BY <2>1, <2>3 DEF Attempt, Prepared, Counts, Bound
  <2>5. QED BY <2>1, <2>2, <2>4, NothingSent
<1>6. CASE Send
  BY <1>6, SendInv
<1>7. CASE Again
  <2>1. /\ pc \in {"sent", "injected"} /\ pc' = "ready" /\ Operations[call.op].again
        /\ tries < MaxAttempts
        /\ UNCHANGED <<call, kept, form, began, tries, cursor, token, disk, query, sent>>
    BY <1>7 DEF Again, MayRetry
  <2>2. call.op # "poll"
    BY <1>1, <2>1, CallWrites, OperationNames
  <2>3. Types' /\ Attempt' /\ Counts'
    BY <2>1, <2>2 DEF Types, Bound, Attempt, Prepared, Counts
  <2>4. QED BY <2>1, <2>3, NothingSent
<1>8. CASE PollOn
  <2>1. /\ pc = "sent" /\ pc' = "ready" /\ call.op = "poll" /\ tries < MaxRequests
        /\ UNCHANGED <<call, kept, form, began, tries, cursor, token, disk, query, sent>>
    BY <1>8 DEF PollOn
  <2>2. Types' /\ Attempt' /\ Counts'
    BY <2>1 DEF Types, Bound, Attempt, Prepared, Counts
  <2>3. QED BY <2>1, <2>2, NothingSent
<1>9. CASE PollAdvance
  BY <1>9, PollAdvanceInv
<1>10. CASE Finish
  <2>1. /\ pc \in {"sent", "injected"} /\ pc' = "done"
        /\ UNCHANGED <<call, kept, form, began, tries, cursor, token, disk, query, sent>>
    BY <1>10 DEF Finish
  <2>2. Types' /\ Attempt' /\ Counts'
    BY <2>1 DEF Types, Bound, Attempt, Prepared, Counts
  <2>3. QED BY <2>1, <2>2, NothingSent
<1>11. CASE Rotate
  <2>1. /\ token' = token + 1
        /\ UNCHANGED <<call, pc, kept, form, began, tries, cursor, disk, query, sent>>
    BY <1>11 DEF Rotate
  <2>2. Types' /\ Counts'
    BY <2>1 DEF Types, Bound, Counts
  <2>3. Attempt'
    BY <2>1 DEF Attempt, Prepared, Complete, Types
  <2>4. QED BY <2>1, <2>2, <2>3, NothingSent
<1>12. CASE FileComesOrGoes
  <2>1. /\ disk' \in BOOLEAN
        /\ UNCHANGED <<call, pc, kept, form, began, tries, cursor, token, query, sent>>
    BY <1>12 DEF FileComesOrGoes, Types
  <2>2. Types' /\ Counts'
    BY <2>1 DEF Types, Bound, Counts
  <2>3. Attempt'
    BY <2>1 DEF Attempt, Prepared, Complete
  <2>4. QED BY <2>1, <2>2, <2>3, NothingSent
<1>13. CASE UNCHANGED vars
  <2>1. UNCHANGED <<call, pc, kept, form, began, tries, cursor, token, disk, query, sent>>
    BY <1>13 DEF vars
  <2>2. Types' /\ Counts'
    BY <2>1 DEF Types, Bound, Counts
  <2>3. Attempt'
    BY <2>1 DEF Attempt, Prepared, Complete
  <2>4. QED BY <2>1, <2>2, <2>3, NothingSent
<1>14. QED
  BY <1>2, <1>3, <1>4, <1>5, <1>6, <1>7, <1>8, <1>9, <1>10, <1>11, <1>12, <1>13 DEF Next, Done

LEMMA InvAlways == Spec => []IInv
BY InitInv, NextInv, PTL DEF Spec

---------------------------------------------------------------------------------
(* The theorems *)

\* The types, and that no call makes more attempts than it may.
THEOREM TypeCorrect == Spec => []TypeOK
<1>1. IInv => TypeOK
  <2> SUFFICES ASSUME IInv PROVE TypeOK
    OBVIOUS
  <2>1. Fields(kept) /\ Fields(form)
    BY FormsHaveFields DEF IInv, Types
  <2>2. \A k \in 1..Len(sent) : sent[k] \in Requests
    BY DEF IInv, Types
  <2>3. \A k \in 1..Len(sent) :
          Fields(sent[k].data) /\ sent[k].began \in Nat /\ sent[k].stamp \subseteq Stamps
    BY <2>2, FormsHaveFields DEF Requests
  <2>4. QED BY <2>1, <2>3 DEF IInv, Types, Bound, Counts, TypeOK
<1>2. QED BY <1>1, InvAlways, PTL

\* Every attempt of any call, and every request of a poll, carries what its caller
\* asked for, whichever of its parameters collide: typed before extra, the caller's token before the
\* client's, the audio, and the callback URL with the key it needs once.
THEOREM CarriesWhatWasAsked == Spec => []FormAsAsked
<1>1. IInv => FormAsAsked
  <2> SUFFICES ASSUME IInv, NEW k \in 1..Len(sent)
               PROVE  /\ CallbackAsAsked(call)
                      /\ FieldsAsAsked(sent[k].data, call)
                      /\ TokenAsAsked(sent[k].data, call, sent[k].began)
                      /\ SourceAsAsked(sent[k].data, call)
    BY DEF FormAsAsked
  <2>1. call \in Calls /\ sent # <<>> /\ sent[k].began \in Nat
    <3>1. call \in Calls /\ sent \in Seq(Requests)
      BY DEF IInv, Types
    <3>2. sent[k] \in Requests
      BY <3>1
    <3>3. sent # <<>>
      BY <3>1
    <3>4. QED BY <3>1, <3>2, <3>3 DEF Requests
  <2>2. Prepared
    BY <2>1 DEF IInv, Attempt
  <2>3. CallbackAsAsked(call)
    <3>1. call.query \in Seq(Names) /\ call.metadata \in BOOLEAN
      BY <2>1
    <3>2. CASE call.metadata
      <4>1. query = Append(call.query, "return")
        BY <2>2, <3>2 DEF Prepared, WithReturn
      <4>2. /\ Len(query) = Len(call.query) + 1 /\ Len(call.query) \in Nat
            /\ \A i \in 1..Len(call.query) : query[i] = call.query[i]
        BY <3>1, <4>1
      <4>3. call.op = "set_callback_url" => \A i \in 1..Len(call.query) : call.query[i] # "return"
        BY <2>2, <3>2 DEF Prepared, HasKey
      <4>4. QED BY <4>2, <4>3 DEF CallbackAsAsked
    <3>3. CASE ~call.metadata
      BY <2>2, <3>1, <3>3 DEF Prepared, WithReturn, CallbackAsAsked
    <3>4. QED BY <3>2, <3>3
  <2>4. PICK since \in Int, t \in Nat :
          t >= sent[k].began /\ sent[k].data = WithToken(FormAt(call, since), t)
    BY DEF IInv, AllComplete, Complete
  <2>5. QED BY <2>1, <2>3, <2>4, CompleteAsAsked
<1>2. QED BY <1>1, InvAlways, PTL

\* A retry of any call carries the fields of the attempt before it, the token
\* apart, and a poll asks from where the responses have taken it.
THEOREM RetriesAreTheSame == Spec => []RetriesAskTheSame
<1>1. IInv => RetriesAskTheSame
  <2> SUFFICES ASSUME IInv PROVE RetriesAskTheSame
    OBVIOUS
  <2> DEFINE moving == {"api_token", "since_time"}
             added == {"api_token"} \cup CursorNames(call)
  <2>1. call \in Calls /\ Len(sent) \in Nat
    BY DEF IInv, Types
  <2>2. \A k \in 1..Len(sent) :
          /\ DOMAIN sent[k].data \ added = DOMAIN Form(call) \ added
          /\ \A n \in DOMAIN Form(call) : n \in DOMAIN sent[k].data /\ sent[k].data[n] = Form(call)[n]
    <3> SUFFICES ASSUME NEW k \in 1..Len(sent)
                 PROVE  /\ DOMAIN sent[k].data \ added = DOMAIN Form(call) \ added
                        /\ \A n \in DOMAIN Form(call) :
                             n \in DOMAIN sent[k].data /\ sent[k].data[n] = Form(call)[n]
      OBVIOUS
    <3>1. PICK since \in Int, t \in Nat : sent[k].data = WithToken(FormAt(call, since), t)
      BY DEF IInv, AllComplete, Complete
    <3>2. QED BY <2>1, <3>1, CompleteWrites
  <2>3. added \subseteq moving /\ (call.op # "poll" => "since_time" \notin added)
    BY DEF CursorNames
  <2>4. ASSUME NEW k \in 1..Len(sent) - 1
        PROVE  LET f == sent[k].data
                   g == sent[k + 1].data IN
               /\ DOMAIN f \ moving = DOMAIN g \ moving
               /\ \A n \in DOMAIN f \ moving : f[n] = g[n]
               /\ sent[k].stamp = {} => SinceOf(g) = SinceOf(f)
               /\ \A t \in sent[k].stamp : SinceOf(g) = Since(t)
    <3> DEFINE f == sent[k].data
               g == sent[k + 1].data
    <3>1. k \in 1..Len(sent) /\ k + 1 \in 1..Len(sent)
      BY <2>1
    <3>2. /\ DOMAIN f \ added = DOMAIN g \ added
          /\ \A n \in DOMAIN f \ added : f[n] = g[n]
      BY <2>2, <3>1
    <3> HIDE DEF added
    <3>3. /\ DOMAIN f \ moving = DOMAIN g \ moving
          /\ \A n \in DOMAIN f \ moving : f[n] = g[n]
      BY <2>3, <3>2
    <3>4. CASE call.op = "poll"
      BY <3>3, <3>4 DEF IInv, Followed, Follows
    <3>5. CASE call.op # "poll"
      <4>1. sent[k].stamp = {}
        BY <3>1, <3>5 DEF IInv, Followed
      <4>2. SinceOf(g) = SinceOf(f)
        BY <2>3, <3>2, <3>5 DEF SinceOf
      <4>3. QED BY <3>3, <4>1, <4>2
    <3>6. QED BY <3>4, <3>5
  <2>5. call.op = "poll" /\ sent # <<>> => SinceOf(sent[1].data) = Since(call.since)
    BY DEF IInv, Followed
  <2>6. QED BY <2>4, <2>5 DEF RetriesAskTheSame
<1>2. QED BY <1>1, InvAlways, PTL

=================================================================================
