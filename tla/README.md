# A verification project for audd-cpp

TLA+ models of the AudD C++ client, the TLC runs that check them on small
instances, and TLAPS proofs of what matters most for every instance. Paths are
those of the repository: `src/longpoll.cpp` is the library's source,
`include/audd/` its public headers, `tests/` its tests.

## 1. The system

audd-cpp is a client library for the AudD music recognition API. An `AudD`
object owns two HTTP clients (standard and enterprise time-outs) and three
lazily built sub-clients; every operation is one blocking HTTP request with
retries, and every `*_async` variant is the blocking one on a thread of its own.
The exception is longpolling: a `LongpollPoll` owns a worker thread that asks
the server for events in a loop and hands them to the application through three
queues.

| Part | State it keeps | Operations | Hard because |
|---|---|---|---|
| `DemuxQueue` (`src/longpoll.cpp:38-72`) | deque, closed flag, mutex, condition variable | `push`, `close`, `pull` | the notify calls come after the unlock; several threads may pull, and `close` must free them all |
| `LongpollPoll` (`src/longpoll.cpp:74-160`) | three queues, closed flag, worker thread, the client it borrows | `next_*`, `run`, `close`, destructor | consumers, `run`'s pumps, callbacks, `close` and the worker interleave; closing is four critical sections; the worker outlives `close` |
| Worker loop (`src/longpoll.cpp:175-276`) | cursor `cur_since`, back-off | ask, back off, classify, parse, push, advance | lost answers, retries, keep-alives, bodies that do not parse |
| Response classification and callback parsing (`src/json_parse.cpp:593`, `src/callback.cpp`) | none | `classify_longpoll_response`, `parse_callback` | decides whether a poll ends, waits or moves on |
| API calls (`src/client.cpp`, `src/http_client.cpp`, `src/internal/retry.hpp`, `src/streams.cpp`, `src/custom_catalog.cpp`, `src/advanced.cpp`) | attempts, the failure being handled, the transfer in libcurl | `recognize`, `recognize_enterprise`, `streams().*`, `custom_catalog().add`, `advanced().*` | a retry after a failure of unknown position may bill twice; the result of a billed call must survive decoding |
| API token (`src/client.cpp:276-289`, `src/http_client.cpp:161-178`) | three copies under three mutexes | `set_api_token`, `api_token`, injection into requests | rotations race with each other and with requests |
| JSON coercions and models (`src/json_parse.cpp`, `src/callback.cpp`) | none | `coerce_*`, `parse_*` | widths, text against numbers, partial results |
| Enterprise offsets (`src/client.cpp:362-379`) | the offset of the current chunk | `offset_to_seconds`, anchoring | offsets that do not parse beside ones that do |
| Form fields (`src/client.cpp:37-134`, `src/streams.cpp`, `src/custom_catalog.cpp`, `src/advanced.cpp`) | the form an operation built, the form of an attempt | source, options and extra parameters to fields; a form per attempt | several writes to one name; the file, the token and the form may change between attempts |
| Metadata and links (`src/json_parse.cpp:265-368`, `src/client.cpp:412-499`) | none | `parse_*`, `extract_extras`, `streaming_url`, `preview_url` | a link is found only where the model's own list of names left it |
| MD5 and the longpoll category (`src/md5.cpp`) | hash context | `md5_hex`, `derive_longpoll_category` | block boundaries |
| `global_init`, sub-clients (`src/http_client.cpp:140`, `src/client.cpp:390-406`) | initialised flag, `unique_ptr`s | once-only construction | double-checked locking; references that must stay good |
| Error categories, build, examples, tests, vendored code | none | tables and text | nothing a model would show |

How they meet: the worker borrows the `AudD` it was started from and calls its
standard `HttpClient` directly, without the retry loop; `longpoll()` first makes
an ordinary API call (the callback-URL preflight); every HTTP request takes the
token from its `HttpClient`; the application's callbacks (`on_match`,
`on_notification`, `on_error`, `on_event`, `on_deprecation`) run on the
library's threads or in the middle of a call.

## 2. The modules

| Module | Models | Used by |
|---|---|---|
| `EventStream` | abstract: one stream of events that consumers ask and that can be shut | refined by `DemuxQueue` and `LongpollPoll` |
| `DemuxQueue` | `DemuxQueue` with its wait set and late notifications | `MCDemuxQueue`, `DemuxQueueProofs` |
| `LongpollWire` | responses, their classification, the parse, the cursor's step | the two longpoll modules |
| `LongpollPoll` | the poll's threads and the end of a poll | `MCLongpollPoll`, `LongpollPollProofs` |
| `Subscription` | abstract: what a subscription promises, without requests or failures | refined by `LongpollDelivery` |
| `LongpollDelivery` | the worker's cursor and back-off against a server and a failing network | `MCLongpollDelivery`, `LongpollDeliveryProofs` |
| `ApiResponse` | what a completed call makes of a response | `ApiCall` |
| `ApiCall` | one call: retry loop, transfer, events, decoding | `MCApiCall`, `ApiCallProofs` |
| `RequestForm` | what a request carries, attempt by attempt | `MCRequestForm`, `RequestFormProofs` |
| `TokenRotation` | the three copies of the token | `ClientObject` |
| `ClientObject` | clients built by several threads, and one of them shared: composes the construction, `global_init` and the sub-clients with `TokenRotation` | `MCClientObject`, `ClientObjectProofs` |
| `Coercion` | the lenient readers of JSON scalars and of offsets; operators only | `Metadata`, `ResultParsing` |
| `Metadata` | the metadata blocks and the links found in them; operators only | `ResultParsing` |
| `ResultParsing` | from a JSON body to typed results: enterprise chunks, recognition, callbacks | `MCResultParsing`, `ResultParsingProofs` |
| `Md5Buffer` | how `md5_hex` cuts, pads and hashes a message | `MCMd5Buffer`, `Md5BufferProofs` |

### DemuxQueue

`q` and `closed` are the fields of the class; `pc` says where each consumer is
in `pull()` and `notifying`/`closing` which threads have unlocked and not yet
called `notify_one()`/`notify_all()`. The critical section of `push` is `Push`,
the call after it `NotifyOne`; those of `close` are `Close` and `NotifyAll`.
`Pull`, `Block`, `SpuriousWakeup`, `Take` and `ReturnNull` are the pieces of
`cv.wait` with its predicate and of the code after it. A thread that blocks
releases the mutex and enters the wait set in one step, as `std::condition_variable`
promises.

### LongpollWire, LongpollPoll

A response is a record of what the code looks at: HTTP status below 400 or not,
form of the body, which of the keys `timeout`, `result`, `notification`, `error`
it has, whether the result has songs, and its timestamp. `Disposition` is
`classify_longpoll_response`, `ParsedTo` the outcome of `parse_callback`,
`Advanced` is `advance_since`.

In `LongpollPoll` the queues are at the granularity `DemuxQueueProofs` and the
`demux_queue` run justify: a push, a pull and a close are single steps (each
stream is again shown to implement `EventStream`). The worker's steps are the
statements of its loop (`Top`, `GetReturns`, `GetFails`, `GetThrows`,
`SleepEnds`, `CheckClosed`, `Dispatch`, `PushError`, `WorkerReturns`).
`close_all()` is a sequence of separate steps that any number of threads may be
inside of at once (`CloseOrder`, `closeAt`). `run()` has its two pumps, the
errors loop on the calling thread, and callbacks that may call `close()`.
`Destroy`, `DestroyImpl`, `WorkerJoined` are the two ways to `~Impl` and its
join; `ClientDestroyed` is the application destroying the client the worker
borrows, when `StoppedBy` says it believes the poll stopped. The `*_async`
pulls are user threads.

### LongpollDelivery

`since`, `backoff` and `worker` are the locals of the worker's lambda. The
server is not in the repository and is modelled from what the client counts on
(`Tick`, `Answers`): every event has a timestamp of its own, and a request is
answered with the oldest event newer than `since_time` or with a keep-alive that
carries the server's time. `GetFails` loses a request or its answer; `GetOther`
is an empty body or an HTTP error from anything in between. What the worker does
with its streams is left to `LongpollPoll`: here a push appends to `delivered`.

### ApiResponse, ApiCall

`op` is the operation, `mutate` being those that return nothing; the operations differ in the gate they pass to the retry
loop, in how often they may be tried, in whether they report to `on_event`, and
in what they take from a result. `Prepared`/`PrepareFails` are the source
preparation and `add_return_to_url`; `StartAttempt`, `AttachFails`,
`TransferFails` and `TransferDone` are `HttpClient::post_form`; `Caught`,
`StopsRetrying` and `Wakes` the `catch` clause of the retry loop; `Threw` and
`Answered` the two ends of `recognize`'s `try`; `Decode` is `decode_or_throw`
with what each operation does after it. `PreUpload` is `failure_is_pre_upload`:
the `early` codes are the ten that return true at once, everything else looks at
the probes. `Yields` says what each operation takes as its result: any, an array
(enterprise matches, lyrics, streams), or the body as it is (`raw_request`).

libcurl and the server are external: a transfer goes through connecting,
sending (in `BodySize` pieces), waiting and receiving, and may fail in any of
them. The server works on a request that arrived whole, at any later moment,
also after the client gave it up. A server may refuse a request, or redirect it
(`MaxRedirects` per attempt); after a redirect the model leaves open what the
probes show of the bytes sent before. `RedirectsAfterWork` says whether a server
may work on a request and then redirect it. A `BodySize` of at least one is
true of every operation, because the form always holds the token or a field.

### RequestForm

A field is its name and where its value came from: the source, a typed
parameter, an extra one, a default of the library, the token with its age, or a
poll's cursor with its timestamp.
`Operations` says of each operation what it always writes, what the caller may
add, whether it takes a source and extra parameters, whether every attempt
builds its form anew (`recognize`, `recognize_enterprise`, the poll) or takes a
copy of one (`AttemptForm`), and whether it is ever tried again. A poll is not
retried: each turn of its worker's loop is a request of its own (`PollOn` after a
failure or a response without a timestamp, `PollAdvance` after one that has it),
built from the cursor of that moment, which is sent as `since_time` if it is
positive (`SinceField`). `sent` keeps the requests in order, each with the token
it began with and the timestamp of its response.

`Form` is the order of the writes: source, extra
parameters, typed ones, default. `Prepare` is what happens before the first
attempt, with the callback URL's query (`HasKey`, `WithReturn`); `Injected` is
the token of `HttpClient::post_form` and `get`; `Missing` the file that cannot
be attached. Rotations and the file's comings and goings happen between any two
steps. How the worker looks at a response is in `LongpollPoll` and
`LongpollDelivery`; here it may carry any of `Stamps`, or none. Why an attempt failed is left to
`ApiCall`: here any of them may be followed by another while there are attempts
left, which allows more retries than the code.

### TokenRotation, ClientObject

Tokens are numbered in the order of the rotations. `Lock`, `SetStandard`,
`SetEnterprise` and `Unlock` are the statements of `set_api_token`; each write
takes the mutex of its copy, which is held for one step. `Begin`, `Inject`,
`Retry` and `Done` are a request on either client, or `api_token()`, which reads
the client's own copy under `token_mutex`.

In `ClientObject` a builder is a thread in the constructor of an `AudD`:
`Check`, `LockInit`, `Recheck`, `CurlInitialised` or `CurlFails`, `Store` and
`UnlockInit` are the lines of `global_init`, run once for each of the two
`HttpClient`s (`NextHttpClient`). A failure throws out of the constructor and
the application may build again. One builder's client, once built, is shared:
rotators and callers use it as in `TokenRotation`, and callers ask it for its
sub-clients (`Ask`, `LockSubs`, `BuildSub`, `ReturnSub`). A sub-client is
numbered by how often its pointer was assigned, so a reference is good while the
number stays.

### Coercion, Metadata, ResultParsing

A JSON value is a record of its kind and content; a text is what the parsers of
text tell apart: what `parse_full_int` reads as an integer, another number that
`std::stod` reads to the end, a spelling of nan or inf, a clock of parts, a word.
An integer text says two things more, because its readers differ: whether,
trimmed, it is what `std::to_string` prints (`plain`: `coerce_bool` compares with
`0` and `1` only, not with `+1` or `01`), and whether `std::stod` reads it to its
end (`whole`: `offset_to_seconds` does not trim, and white space after the number
is left over). A hexadecimal number is a decimal text: `std::stod` reads it and
`parse_full_int` does not. What is not finite is `NotFinite` and stays so in sums.
`LongLimit` and `IntLimit` are the first numbers
too large for `std::int64_t` and `int`; a double counts in halves. A reader of integers stands for the set of
what it may return, because the cast of a double outside 64 bits is undefined.
`CoercedString`, `CoercedInts`, `CoercedIds`, `CoercedBool` are the `coerce_*`
functions, `Str`, `IntsOf`, `Int64sOf` the `j_*` readers, `Seconds` is
`offset_to_seconds` with its loop `Total`. `IsText` and `IsValue` say what texts
and values there are: an integer literal goes up to the largest unsigned number,
as the parser leaves it. A double that comes from the wire is finite, as JSON has
no other; `coerce_double` has no caller in the library.

A metadata block of `Metadata` is read as `parse_apple_music` and its like read
it: the texts that hold a link are typed fields, and what is not on the model's
list of names (`Known`) stays in `extras`. `Direct`, `Redirect` and
`StreamingUrl` are `streaming_url`, `PreviewUrl` is `preview_url`. A URL is its
host and whether it has a query.

`ResultParsing` steps through a body as the loops do: `ReadSong` is one turn of
the loop of `parse_enterprise_chunk` or of `parse_stream_callback_match`,
`ChunkRead` the parsing of the offset, `MoveSong` one turn of the loop of
`recognize_enterprise` that gives a match its place in the file (`Place`), `NextChunk` the
loop around it. `MatchRead`, `NotificationRead`, `ListRead` and `RecognitionRead`
are the ends of the other parsers. Fields read as text go through unchanged and are left
out; a title names a song.

### Md5Buffer

At the sizes of the source. A byte is named by its place in the stream of
everything fed to `md5_update`, so a block shows where its bytes came from; a
byte of the uninitialised buffer is `Garbage`. `Call`, `Loop` and `Rest` are the
parts of `md5_update`, `NextLen` and `Bits` the three calls that `md5_hex` and
`md5_final` make. The compression function is left out.

## 3. The runs

| Run | Bounds | What it shows |
|---|---|---|
| `demux_queue` | 3 pulling threads, 2 closers, 3 pushes | no wake-up is lost, of a push or of a close (`NoWakeupLost`), every value comes out once and in order, and the queue implements `EventStream` with its liveness: `close()` frees every pull |
| `longpoll_poll` | worker, `run()` with its pumps, one user thread, 2 events, a response of every kind, an API error in a 200 body among them | no stream ends without a reason, `run()` returns with everything delivered, nothing is freed in use, nothing is accepted after the end, the worker ends when asked, `run()` comes back |
| `longpoll_delivery` | server clock to 4 (three events), failures counted to 7, events that match, notify, or do not parse | delivery is the server's log from the cursor on, in order, no gap, no repeat; a readable event at the cursor does not wait for ever; the back-off doubles to its cap and starts again after a response |
| `api_call` | every operation, `max_attempts` -1, 1 and 3, a body of two pieces, one redirect | nothing billed twice, the loop gives up only when it must, `failed_before_upload()` is true, `on_event` told in pairs by the operations that report to it, results kept, every call returns |
| `request_form` | a call of every operation with and without colliding parameters, every kind of source, up to 3 attempts, 2 rotations; 3 requests of a poll that begins now or at a time, with timestamps below zero, before and after it | every attempt carries what the caller asked for, with the caller's own token or the client's, no older than the call; a retry asks for the same as the attempt before it, and a poll from the last timestamp it was given |
| `client_object` | 2 builders, 2 rotators, 2 callers, 2 rotations, 1 failure of `curl_global_init`, symmetric | libcurl is initialised once, alone and before any client; copies agree, requests are fresh; references to sub-clients stay good |
| `result_parsing` | integers of 4 and 3 bits; every kind of value in each numeric field; every shape of offset; up to two chunks of two songs; metadata blocks with their links present, empty, mistyped or absent | every song comes back once and in order, every number that fits its field as it was sent, anchored by its own chunk's offset; no id is invented; no such number is read as another one than its text; every link is found, and none of another provider |
| `md5_buffer` | messages of 0 to 200 bytes, real block size | no copy leaves its bounds; the blocks are the padded message in order and in the end all of it |
| `client_after_close` | 1 event, the client destroyed after `close()` | violated: the worker still uses the client |
| `unreadable_event` | as `longpoll_delivery` | violated: nothing after an event that does not parse is delivered |
| `redirected_failure` | one redirect | violated: a connect failure at a redirect's target counts as pre-upload |
| `unreported_call` | as `api_call` | violated: a call that goes through `post_form` tells `on_event` nothing |

Why the bounds are enough. A lost wake-up needs two consumers that compete for
one notification and a third that stays blocked; three pushes let a value be
queued while another is being handed over and a third notified late. The poll's
hazards lie at its end, which one or two events before it reach; a second thread
inside `close_all()` is the user thread, a callback or `run()` itself. Three
server events allow one before, one in and one after a lost answer, and seven
failures reach the cap of the back-off (500 ms to 30 s). Two pieces of a body
tell apart nothing sent, something sent and all sent; three attempts tell a
first, a middle and a last one apart. Two rotations by two threads are the
smallest race of rotations; two builders with one failure let one of them wait
while the other fails or succeeds; two callers race for one sub-client. A form
is decided by which names collide, and the calls of `MCRequestForm` have every
kind of writer meet every other on one name; three requests of a poll
are one before any timestamp, one after it and one after the next. Four and three bits leave numbers that fit both
widths, one or none, on either side of zero; two chunks let one have an offset
and its neighbour none. 200 bytes reach every index of the buffer with none, one
and two whole blocks before it. The proofs lift most of these bounds.

The violating runs each check one sentence of the documentation or of a comment
against the code; `PROJECT.json` quotes the sentence. Smaller disagreements have
no run of their own: a code 51 sent as text beside a usable result is raised as
an error and the result lost, since `decode_or_throw` does not read numbers from
text (`src/client.cpp:162`) as the rest of the library does
(`src/json_parse.cpp:24-25`), in `Deprecated`; an integer of 2^63 or more is
printed as a negative number, because nlohmann's `is_number_integer()` is true
of it (`src/json_parse.cpp:105`), in `CoercedString`, and
`NeverContradictsItsText` leaves these numbers out; an outer callback time
sent as text becomes 0 (`Times`), and `ReadAsSent` leaves such a time open; an
offset may be spelled nan, inf or in hexadecimal, which `offset_to_seconds` reads
although numbers as text are to reject them (`src/json_parse.cpp:42-44`), in
`Seconds`; an API error in a 200 body does not stop a poll as "an explicit
HTTP/API error" should (`src/internal/json_parse.hpp:93`): it is an event that
does not parse, asked for again at once, as `unreadable_event` shows
(`Disposition`); `AudDApiError` is said to cover "HTTP
non-2xx responses with a non-JSON body" (`include/audd/error.hpp:95`) and
starts at 400 (`Raised`); in-flight requests "continue with the
previous token" (README.md:73), while a retry takes the new one (`Retry`), and
`FormAsAsked` allows either; and
`set_api_token` "atomically swaps the token used for subsequent requests"
(`include/audd/client.hpp:86`), while between its copies (`src/client.cpp:287`)
a request on the standard client carries the new token and a later one on the
enterprise client the old (`SetStandard`, `SetEnterprise`); `streaming_url`
names `external_urls.spotify` and then the redirect
(`include/audd/recognition.hpp:164-171`), and returns Spotify's `uri`, which is
no URL of a page, before it (`src/client.cpp:446`), in `Direct`, and `LinksFound`
leaves a block with a `uri` and no link open; a metadata
block that is no object is in neither the typed fields nor `extras`
(`src/json_parse.cpp:355-374`), in `ParsedBlock`; and a query key appended to a
link with a fragment goes behind the fragment (`src/client.cpp:423`,
`src/streams.cpp:43`). Two cases no sentence of the documentation decides:
`SourceFilePath{""}` uploads an empty file, because a file field without a path
counts as bytes (`src/internal/http_client.hpp:29`), "nothing" in `SourceFields`;
and an extra parameter `accurate_offsets` is overridden by the default of the
option of that name (`src/client.cpp:133`), `Defaults`.

### Fairness

- `DemuxQueue`, `LongpollPoll`: weak fairness of every step a runnable thread
  takes inside the library: the operating system schedules threads, and a
  thread holds the mutex for a bounded time. None for spurious wake-ups, for
  the application's decisions (pulling, closing, destroying), or for new events.
  A worker's HTTP request ends because `timeout_ms` is always positive
  (`src/http_client.cpp:291-293`); callbacks are assumed to return.
- `LongpollDelivery`: weak fairness of the worker, and strong fairness of an
  answer that arrives: a request made over and over is some day answered. The
  code cannot give more than the network does.
- `ApiCall`: weak fairness of the client's steps and of the failure of a
  transfer, which `CURLOPT_TIMEOUT_MS` (always positive,
  `src/http_client.cpp:200-202`) justifies. Nothing is assumed of the server.
- `ClientObject`, `RequestForm`, `ResultParsing`, `Md5Buffer`: none; their
  properties are safety.

## 4. The proofs

All are for every value of the constants that satisfies the module's assumption.

**`DemuxQueueProofs`** (any consumers, closers, number of pushes). The inductive
invariant adds to the types that every queued value is matched by a thread on its
way to the queue or by a `notify_one()` still to come while any thread is
blocked, and the same for a close. `TypeCorrect`, `NoWakeupIsLost`,
`DeliveredOnceInOrder`; and `QueueIsStream`, the safety part of the refinement of
`EventStream`.

**`LongpollPollProofs`** (any users, responses, number of events).
`TypeCorrect`; `NoSilentEnd` (a stream is shut only after somebody asked or the
terminal error was accepted, which needs that the worker pushes before it
closes); `RunReturnsDrained` (the pumps saw the end of their streams, and a
stream's end is only seen empty and shut); `WorkerOutlived` (the join orders the
worker before the free); `NothingMoreAccepted` (the errors stream is shut last,
by whoever is in `close_all()`). `PollStreamsAreStreams` is the refinement of
`EventStream` by each of the three streams: `PullInv` says that a thread waits
for a stream only where its program waits, `RoomInv` that an offer fits the
abstract stream's bound, and one lemma for each kind of step (`PullIsStep`,
`PushIsStep`, `AskIsStep`, `NothingIsStep`) maps it to a step of each stream.

**`LongpollDeliveryProofs`** (any bodies, server clock, number of failures). The
invariant says what the code never states: the log is in the order of its
timestamps (`LogInOrder`), a request that is out asks for what the cursor says
(`CursorKnown`), the answer in hand is the first event after it or a keep-alive
that passes none (`ReplyKnown`), and the back-off is a function of the failures
in a row (`BackoffKnown`). `TypeCorrect`, `BackoffCounts`; and `DeliversTheLog`,
the safety part of the refinement of `Subscription`: one lemma for the server's
steps, one for `Dispatch`, which is where an answer is read, one for the rest,
which are stutters.

**`ApiCallProofs`** (any operations, `max_attempts`, body size, answers,
redirects). `TypeCorrect` rests on `AttemptsLeft`: a call that may still try has
an attempt left. `NeverBilledTwice` rests on three facts kept together: the
probes tell what libcurl has sent (`ProbesTell`), the server has seen no attempt
that was not made (`SeenIsPast`), and behind the strict gate the loop goes on
only while the server has seen nothing (`NothingSeenYet`); it assumes that no
server redirects a request it has worked on. `LoopKeepsItsPromise` is about the
counter. `BeforeUploadIsTrue` holds of every attempt that was not redirected.
`EventsComeInPairs` and `ResultsAreNotLost` share `EventInv`, which says at every
place of the call what was reported so far and how a call that has returned came
to (`EventsWhere`, `HowReturned`).

**`RequestFormProofs`** (any calls, `max_attempts`, rotations, timestamps). The
invariant says of the form of an attempt that it is `Form` of the call, with the
cursor if there is one to send (`FormAt`), with or without a token that is as new
as the beginning of the call or of the poll's request (`Attempt`, `Complete`), and
the same of everything sent (`AllComplete`); what is written is in `FormWrites`,
`SourceWrites`, `DefaultWrites`, `CursorWrites` and `TokenWrites`. `Followed` says
where a poll's cursor is: at the timestamp of the last response that had one, or
where the poll began. `TypeCorrect`,
`CarriesWhatWasAsked`, `RetriesAreTheSame`.

**`ClientObjectProofs`** (any threads, sub-clients, rotations, failures). Three
invariants of the three mutexes that do not disturb each other. What each stage
of `set_api_token` says about the copies already written (`StageTells`) makes
mutual exclusion of the writers enough for `NoCopyLeftBehind`,
`RequestsAreFresh`, `NeverBack`. What the flag says about the past (`FlagTells`:
it is set, or about to be by the holder of the mutex, exactly when libcurl was
initialised) gives `LibcurlInitialisedOnce`, of which `GlobalInitAlone` and
`NoClientWithoutCurl` are the halves. `SubsTell` (a pointer a thread saw
to be null stays null until that thread assigns it) gives `SubClientsStay`.

**`Md5BufferProofs`** (messages of any length). The invariant says at every
point of `md5_update` which place of the stream is reached (`InCall`), what the
buffer holds of it (`AtCall`, `InRest`) and how much was fed (`Fed`); the
arithmetic of 64 is in `Division`, `Remainder`, `SameBlock` and `PadEnds`.
`TypeCorrect`, `CopiesInBounds`, and `MessageIsHashed`, of which `StreamIsHashed`
and `PaddedToTheEnd` are the halves.

**`ResultParsingProofs`** (any bodies, any number of chunks and songs, any widths
of the integers with 1 < `IntLimit` <= `LongLimit`). The assumption on `Bodies`
(`RPAssumption`) is what the JSON parser and the operations give: values of the
kinds listed, one block unless the result is an enterprise one, one song in a
recognition. The first part is about the readers. `CoercedIntsFacts`,
`IntsOfFacts`, `IdsOfFacts` say what comes out of a field, `WrapFacts` that a
number that fits stays and that no other number the parser makes becomes 0,
`NumberOfItsText` and `TruthOfItsText` that a text agrees with its value, and
`SecondsMeant` that the loop of `offset_to_seconds` computes what an offset means.
The second part opens `FlattenSeq`, a recursive function, by induction over sets
of naturals (`NatSetInduction`, from the library's theorem that every set of
naturals has a least element): `BeforeFacts` says where the songs of each block
are among all songs. The inductive invariant then says how many songs have been
read and returned by where reading stands (`CountInv`), that the k-th is a reading
of the k-th one sent (`SongInv`), that the base in hand and the songs in hand are
of the same chunk (`BaseInv`: without it `MoveSong` could anchor by another
chunk's offset), and what the event was made from (`EventInv`). `TypeCorrect`,
`SongsOnceInOrder`, `NumbersReadAsSent`, `TextAgreesWithValue`, `MatchesAnchored`;
and `LinksAreFound`, which needs no invariant but the event's: a key that is not on
a model's list is in `extras` as it was sent (`ExtrasField`).

Every invariant of every passing run is stated by a theorem. Only model-checked:
all liveness (`ImplementsStream`, of which
`QueueIsStream` proves the safety part, `StopEndsWorker`, `RunComesBack`,
`EveryEventHandedOn`, `CallReturns`), which TLAPS does not reach, and the four
violated sentences of section 3, which are refuted by a counterexample.

## 5. Not modelled

- Memory visibility of `std::atomic` and of mutexes: steps are sequentially
  consistent, which the code's locking and default orderings give.
- What a callback that throws does to `run()` (`std::terminate`), and a
  `LongpollPoll` moved or destroyed under a running `next_*_async`.
- Rates and delays: the wait between attempts doubles without a cap
  (`src/internal/retry.hpp:62`), and a worker that is answered with empty or unreadable bodies asks again at
  once; the models have no clock.
- The texts of results, which go through unchanged, the list of musicbrainz
  entries, text of any kind, and the parts marked `not_modelled` in
  `PROJECT.json`. The compression function of MD5 and the table of error
  categories are data without behaviour.
- What a callback URL or a link looks like around its query: a URL is the
  sequence of its keys.
- Longpoll after a rotation: the poll keeps the category of the old token, and
  what the server makes of that is not in the repository.
- `HttpClient::get` outside the worker: `Internal::get` has no caller.

## 6. Where to go from here

1. The preflight of `longpoll()` composed with the start of the poll.
2. The step lemmas that liveness rests on (a ready thread stays ready until it
   runs, the back-off and the attempts decrease what is left), so that TLC's
   liveness runs show only the scheduling.
