------------------------------ MODULE ResultParsing ------------------------------
(***************************************************************************)
(* From a JSON body to typed results: the chunks of an enterprise result   *)
(* with the place of each match in the user's file (recognize_enterprise   *)
(* in src/client.cpp, parse_enterprise_chunk in src/json_parse.cpp), the   *)
(* result of recognize, and the callbacks of streams (src/callback.cpp).   *)
(* A body is                                                               *)
(*                                                                         *)
(*   op      "enterprise", "recognize", "lyrics", "streams", "match" or    *)
(*           "notification"                                                *)
(*   blocks  the chunks; the result of a match, the one block of the       *)
(*           others: each with its songs (recognize has one; those of      *)
(*           lyrics and streams are the entries of the result) and the     *)
(*           fields "offset" of a chunk, "radio_id" of a callback,         *)
(*           "stream_running" and the outer "time" of a notification, and  *)
(*           the "link" of a recognition with its metadata blocks, "meta"  *)
(*                                                                         *)
(* The number of an entry, its song_id or radio_id, is kept as its score.  *)
(* A song has a title, which names it, and the fields read as numbers; the *)
(* fields read as text by j_str, and what extract_extras leaves over, go   *)
(* through unchanged and are left out.  A block without the songs, or one  *)
(* whose songs are no array, has none.                                     *)
(***************************************************************************)
EXTENDS Metadata

CONSTANT Bodies    \* the bodies the server may send

IsSong(s) ==
  /\ s.title \in STRING
  /\ IsValue(s.score) /\ IsValue(s.audio) /\ IsValue(s.from) /\ IsValue(s.to)
  /\ IsValue(s.running)

IsBlock(b) ==
  /\ b.songs \in Seq(ToSet(b.songs)) /\ \A s \in ToSet(b.songs) : IsSong(s)
  /\ IsValue(b.offset) /\ IsValue(b.radio_id) /\ IsValue(b.running) /\ IsValue(b.time)

\* Only an enterprise result has more blocks than one.
IsBody(b) ==
  /\ b.op \in {"enterprise", "recognize", "lyrics", "streams", "match", "notification"}
  /\ b.blocks \in Seq(ToSet(b.blocks)) /\ \A x \in ToSet(b.blocks) : IsBlock(x)
  /\ b.op # "enterprise" => Len(b.blocks) = 1
  /\ b.op = "recognize" => Len(b.blocks[1].songs) = 1
  /\ b.op = "notification" => b.blocks[1].songs = <<>>

ASSUME RPAssumption == \A b \in Bodies : IsBody(b)

VARIABLES
  body,     \* the body being read
  at,       \* the block being read
  pc,       \* "read" its songs, "move" them to the result, "done"
  songs,    \* the songs of the block read so far
  base,     \* the offset of the block, once its songs are read
  out,      \* the songs returned
  event     \* what the caller of parse_callback gets

vars == <<body, at, pc, songs, base, out, event>>

Nothing == [type |-> "none"]

Init ==
  /\ body \in Bodies
  /\ at = 1
  /\ pc = IF body.op = "enterprise" /\ body.blocks = <<>> THEN "done" ELSE "read"
  /\ songs = <<>> /\ base = {} /\ out = <<>>
  /\ event = Nothing

Block == body.blocks[at]

-----------------------------------------------------------------------------
\* A song as it is read, every number by its own reader: those of a callback
\* have no id and no place.
ReadMatches(s, k) ==
  {[title |-> s.title, block |-> k, score |-> score, audio |-> audio,
    from |-> from, to |-> to, start |-> {}, end |-> {}] :
     score \in IntsOf(s.score), audio \in IdsOf(s.audio),
     from \in IntsOf(s.from), to \in IntsOf(s.to)}

ReadCandidates(s, k) ==
  {[title |-> s.title, block |-> k, score |-> score] : score \in IntsOf(s.score)}

\* parse_lyrics and parse_stream
ReadLyrics(s, k) ==
  {[title |-> s.title, block |-> k, score |-> id] : id \in IntsOf(s.score)}
ReadStreams(s, k) ==
  {[title |-> s.title, block |-> k, score |-> id, running |-> Truth(s.running)] :
     id \in IntsOf(s.score)}

ReadSongs(s, k) ==
  CASE body.op = "enterprise" -> ReadMatches(s, k)
    [] body.op = "match"   -> ReadCandidates(s, k)
    [] body.op = "lyrics"  -> ReadLyrics(s, k)
    [] body.op = "streams" -> ReadStreams(s, k)

\* The next song of the block is read.
ReadSong ==
  /\ pc = "read" /\ body.op \in {"enterprise", "match", "lyrics", "streams"}
  /\ Len(songs) < Len(Block.songs)
  /\ \E s \in ReadSongs(Block.songs[Len(songs) + 1], at) : songs' = Append(songs, s)
  /\ UNCHANGED <<body, at, pc, base, out, event>>

\* Mutant: a chunk whose offset does not parse goes on with the last one.
BaseOrLast(t) == IF Seconds(t) = {} THEN base ELSE Seconds(t)

BaseOf(t) == Seconds(t)

\* The songs of a chunk are read, and its offset is.
ChunkRead ==
  /\ pc = "read" /\ body.op = "enterprise"
  /\ Len(songs) = Len(Block.songs)
  /\ base' = BaseOf(Str(Block.offset))
  /\ pc' = "move"
  /\ UNCHANGED <<body, at, songs, out, event>>

\* Milliseconds into the file, from half seconds and milliseconds.
Place(b, ms) == IF b = NotFinite THEN NotFinite ELSE 500 * b + ms

Anchored(s) ==
  [s EXCEPT !.start = {Place(b, s.from) : b \in base}, !.end = {Place(b, s.to) : b \in base}]

\* Mutant: only songs with a place are returned.
MoveSongIfPlaced ==
  /\ pc = "move" /\ songs # <<>>
  /\ out' = IF base = {} THEN out ELSE Append(out, Anchored(Head(songs)))
  /\ songs' = Tail(songs)
  /\ UNCHANGED <<body, at, pc, base, event>>

\* The next song of the chunk gets its place in the file and is returned.
MoveSong ==
  /\ pc = "move" /\ songs # <<>>
  /\ out' = Append(out, Anchored(Head(songs)))
  /\ songs' = Tail(songs)
  /\ UNCHANGED <<body, at, pc, base, event>>

NextChunk ==
  /\ pc = "move" /\ songs = <<>>
  /\ at' = at + 1
  /\ pc' = IF at = Len(body.blocks) THEN "done" ELSE "read"
  /\ UNCHANGED <<body, songs, base, out, event>>

\* find_lyrics() and list() return the entries as they are.
ListRead ==
  /\ pc = "read" /\ body.op \in {"lyrics", "streams"}
  /\ Len(songs) = Len(Block.songs)
  /\ out' = songs /\ songs' = <<>>
  /\ pc' = "done"
  /\ UNCHANGED <<body, at, base, event>>

Others(seq) == Tail(seq)

\* parse_stream_callback_match: the first song is the match, the rest are its
\* alternatives, and a result without songs is an error.
MatchRead ==
  /\ pc = "read" /\ body.op = "match"
  /\ Len(songs) = Len(Block.songs)
  /\ IF songs = <<>>
     THEN event' = [type |-> "error"]
     ELSE \E id \in Int64sOf(Block.radio_id) :
            event' = [type |-> "match", radio_id |-> id, song |-> Head(songs),
                      alternatives |-> Others(songs)]
  /\ pc' = "done"
  /\ UNCHANGED <<body, at, songs, base, out>>

\* parse_recognition: one song, of which only the id is a number, with the link
\* and the metadata blocks of the result.
RecognitionRead ==
  /\ pc = "read" /\ body.op = "recognize"
  /\ \E audio \in IdsOf(Head(Block.songs).audio) :
       event' = [type |-> "recognition", title |-> Head(Block.songs).title, audio |-> audio,
                 song_link |-> Str(Block.link), blocks |-> ParsedMeta(Block.meta)]
  /\ pc' = "done"
  /\ UNCHANGED <<body, at, songs, base, out>>

\* parse_callback takes the outer time with get<int>(), which converts numbers
\* and bools at once to int and throws for the rest: the time is then 0.
Times(v) ==
  CASE v.kind = "string" -> {0}
    [] v.kind = "real"   -> IF Fits(Trunc(v.halves), IntLimit) THEN {Trunc(v.halves)} ELSE Ints
    [] OTHER -> IntsOf(v)

\* parse_stream_callback_notification
NotificationRead ==
  /\ pc = "read" /\ body.op = "notification"
  /\ \E id \in IntsOf(Block.radio_id), time \in Times(Block.time) :
       event' = [type |-> "notification", radio_id |-> id, time |-> time,
                 stream_running |-> CoercedBool(Block.running)]
  /\ pc' = "done"
  /\ UNCHANGED <<body, at, songs, base, out>>

Done == pc = "done" /\ UNCHANGED vars

Next ==
  \/ ReadSong \/ ChunkRead \/ MoveSong \/ NextChunk \/ ListRead
  \/ MatchRead \/ NotificationRead \/ RecognitionRead \/ Done

Spec == Init /\ [][Next]_vars

-----------------------------------------------------------------------------
\* Every variable keeps its type; what is read as an int is one.
TypeOK ==
  /\ at \in 1..Len(body.blocks) + 1
  /\ pc \in {"read", "move", "done"}
  /\ \A s \in ToSet(songs) \cup ToSet(out) :
       /\ s.score \in Ints
       /\ body.op = "enterprise" => {s.from, s.to} \cup s.audio \subseteq Ints
       /\ s.block \in 1..Len(body.blocks)
  /\ event.type = "match" => event.radio_id \in Longs
  /\ event.type = "notification" => event.radio_id \in Ints /\ event.time \in Ints
  /\ event.type = "recognition" => event.audio \subseteq Ints

Titles(seq) == [k \in 1..Len(seq) |-> seq[k].title]
Sent == FlattenSeq([k \in 1..Len(body.blocks) |-> body.blocks[k].songs])
Read == out \o songs

\* Every song of every chunk is returned, once and in the order of the body,
\* whether or not its chunk has an offset and whatever its fields hold, and so is
\* every entry of a list; a match
\* callback is its songs, the first as the match and the others as its
\* alternatives, and an error exactly when it has none.
EverySongOnceInOrder ==
  /\ IsPrefix(Titles(Read), Titles(Sent))
  /\ pc = "done" /\ body.op \in {"enterprise", "match", "lyrics", "streams"} =>
       Titles(Read) = Titles(Sent)
  /\ pc = "done" /\ body.op = "match" =>
       /\ (event.type = "error") = (Sent = <<>>)
       /\ event.type = "match" =>
            Titles(<<event.song>> \o event.alternatives) = Titles(Sent)

\* The number a value of a numeric field stands for; text that is no integer
\* and what is no scalar stand for 0.
Denoted(v) ==
  CASE v.kind = "integer" -> v.n
    [] v.kind = "real"    -> Trunc(v.halves)
    [] v.kind = "bool"    -> IF v.b THEN 1 ELSE 0
    [] v.kind = "string" /\ v.text.form = "integer" -> v.text.n
    [] OTHER -> 0

ReadAs(n, v, bits) == Fits(Denoted(v), bits) => n = Denoted(v)

\* Whether a value holds an id at all.
HoldsId(v) == \/ v.kind \in {"integer", "real"}
              \/ v.kind = "string" /\ v.text.form = "integer" /\ Fits(v.text.n, LongLimit)

\* A number that fits its field is read as it was sent, as a number or as text, in
\* every field of every song and of the callback around it, save the time of a
\* notification, which counts only as a number: callback.cpp reads text as 0.  And
\* a song is one of the custom catalog exactly when the server sent a number as
\* its audio_id: no other value invents an id, and none is lost.
ReadAsSent ==
  /\ \A k \in 1..Len(Read) :
       /\ ReadAs(Read[k].score, Sent[k].score, IntLimit)
       /\ body.op = "enterprise" =>
            /\ ReadAs(Read[k].from, Sent[k].from, IntLimit)
            /\ ReadAs(Read[k].to, Sent[k].to, IntLimit)
            /\ (Read[k].audio # {}) = HoldsId(Sent[k].audio)
            /\ \A id \in Read[k].audio : ReadAs(id, Sent[k].audio, IntLimit)
  /\ event.type = "recognition" =>
       /\ (event.audio # {}) = HoldsId(Sent[1].audio)
       /\ \A id \in event.audio : ReadAs(id, Sent[1].audio, IntLimit)
  /\ event.type = "match" => ReadAs(event.radio_id, Block.radio_id, LongLimit)
  /\ event.type = "notification" =>
       /\ ReadAs(event.radio_id, Block.radio_id, IntLimit)
       /\ Block.time.kind # "string" => ReadAs(event.time, Block.time, IntLimit)

\* What was read, if anything, is what the text of the value would be read as,
\* or the text is unreadable.
Agrees(read, v, limit) ==
  v.kind # "string" /\ Fits(Denoted(v), limit) =>
    \A o \in CoercedInts(String(Str(v))) : o \subseteq read

\* No number that fits its field, in a song or in a callback, and no stream_running
\* is read as one thing from the value the server sent and as another from the text
\* coerce_string makes of that value: the text may only be unreadable.  (Of the
\* integers of 2^63 and more, which fit no field and num_to_string misprints, it
\* says nothing.)
NeverContradictsItsText ==
  /\ \A k \in 1..Len(Read) :
       /\ Agrees({Read[k].score}, Sent[k].score, IntLimit)
       /\ body.op = "enterprise" =>
            /\ Agrees({Read[k].from}, Sent[k].from, IntLimit)
            /\ Agrees({Read[k].to}, Sent[k].to, IntLimit)
            /\ Agrees(Read[k].audio, Sent[k].audio, IntLimit)
  /\ event.type = "recognition" => Agrees(event.audio, Sent[1].audio, IntLimit)
  /\ event.type = "match" => Agrees({event.radio_id}, Block.radio_id, LongLimit)
  /\ event.type = "notification" =>
       /\ Agrees({event.radio_id}, Block.radio_id, IntLimit)
       /\ Agrees({event.time}, Block.time, IntLimit)
       /\ Fits(Denoted(Block.running), LongLimit) => \A b \in event.stream_running :
            CoercedBool(String(Str(Block.running))) \subseteq {b}

\* What an offset means, in halves of a second: hours, minutes and seconds.
Meant(t) ==
  LET sum(ns, n) == IF NotFinite \in ns THEN NotFinite ELSE n IN
  CASE t.form = "integer" /\ t.whole -> {2 * t.n}
    [] t.form = "decimal"   -> {t.halves}
    [] t.form = "nonfinite" -> {NotFinite}
    [] t.form = "clock" ->
         CASE Len(t.parts) = 2 -> {sum({m, s}, 60 * m + s) : m \in t.parts[1], s \in t.parts[2]}
           [] Len(t.parts) = 3 -> {sum({h, m, s}, 3600 * h + 60 * m + s) : h \in t.parts[1],
                                     m \in t.parts[2], s \in t.parts[3]}
           [] OTHER -> {}
    [] OTHER -> {}

\* A returned match has a place in the file exactly when the offset of its own
\* chunk can be read, and that place is counted from it: never from the offset
\* of another chunk.
AnchoredByItsChunk ==
  body.op = "enterprise" => \A s \in ToSet(out) :
    LET from == Meant(Str(body.blocks[s.block].offset)) IN
    /\ s.start = {Place(b, s.from) : b \in from}
    /\ s.end = {Place(b, s.to) : b \in from}

\* The link and the preview the server sent for a provider, as texts: a link a
\* model knows may be any value that has a text, one of the extras only a text.
SentLink(p) ==
  LET b == Block.meta[p] IN
  CASE p = "spotify" -> Plainly(Field(Field(b, "external_urls"), "spotify"))
    [] p = "napster" -> Plainly(Field(b, "href"))
    [] p = "deezer"  -> {Str(Field(b, "link"))} \ {EmptyText}
    [] p = "apple_music" -> {Str(Field(b, "url"))} \ {EmptyText}
SentPreviews ==
  <<Plainly(Field(First(Field(Block.meta["apple_music"], "previews")), "url")),
    Plainly(Field(Block.meta["spotify"], "preview_url")),
    Plainly(Field(Block.meta["deezer"], "preview"))>>

\* A provider's URL is its own link if the server sent one, in whichever map
\* parsing put it, else the redirect of the song's page at lis.tn, else nothing:
\* never another provider's.  (Of a Spotify block that has a uri and no link it
\* says nothing: streaming_url returns the uri, recognition.hpp names the
\* redirect.)  The preview is the first one sent.
LinksFound ==
  event.type = "recognition" =>
    /\ \A p \in Providers :
         LET url == StreamingUrl(event.blocks, event.song_link, p)
             sent == IF p \in Models THEN SentLink(p) ELSE {} IN
         \/ url = IF sent # {} THEN sent ELSE Redirect(Str(Block.link), p)
         \/ p = "spotify" /\ sent = {} /\ Str(Field(Block.meta[p], "uri")) # EmptyText
    /\ LET preview == PreviewUrl(event.blocks) IN
       \/ preview = {} /\ \A k \in 1..3 : SentPreviews[k] = {}
       \/ \E k \in 1..3 : /\ preview = SentPreviews[k] /\ preview # {}
                          /\ \A j \in 1..k - 1 : SentPreviews[j] = {}
=================================================================================
