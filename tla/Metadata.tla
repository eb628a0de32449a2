-------------------------------- MODULE Metadata --------------------------------
(***************************************************************************)
(* The metadata blocks of a recognition and the links found in them        *)
(* (parse_apple_music and its like in src/json_parse.cpp, streaming_url,   *)
(* preview_url and thumbnail_url in src/client.cpp).                       *)
(*                                                                         *)
(* A block is typed by name: the keys a model knows are read as texts or   *)
(* numbers, every other one is left as it is in extras.  A link may be in  *)
(* either, so it is found only where the model's own list says it is.  A   *)
(* link of the song is a "url" text, of which the host and whether it has  *)
(* a query are told apart.                                                 *)
(***************************************************************************)
EXTENDS Coercion

Object(f) == [kind |-> "object", of |-> f]
Array(items) == [kind |-> "array", items |-> items]
Url(host, query) == [form |-> "url", host |-> host, query |-> query]

Providers == {"spotify", "apple_music", "deezer", "napster", "youtube"}
Models == Providers \ {"youtube"}

\* find_value: the value of a key, or nothing.
Field(v, key) == IF v.kind = "object" /\ key \in DOMAIN v.of THEN v.of[key] ELSE Absent

\* Mutant: the links of Spotify and Napster are known by name but read by nobody.
KnownLinks ==
  [apple_music |-> {"artistName", "url", "durationInMillis", "name", "isrc", "albumName",
                    "trackNumber", "composerName", "discNumber", "releaseDate"},
   spotify |-> {"id", "name", "duration_ms", "explicit", "popularity", "track_number",
                "type", "uri", "external_urls"},
   deezer |-> {"id", "title", "duration", "link"},
   napster |-> {"id", "name", "isrc", "artistName", "albumName", "href"}]

Known ==
  [apple_music |-> {"artistName", "url", "durationInMillis", "name", "isrc", "albumName",
                    "trackNumber", "composerName", "discNumber", "releaseDate"},
   spotify |-> {"id", "name", "duration_ms", "explicit", "popularity", "track_number",
                "type", "uri"},
   deezer |-> {"id", "title", "duration", "link"},
   napster |-> {"id", "name", "isrc", "artistName", "albumName"}]

\* extract_extras
Extras(v, known) == [k \in DOMAIN v.of \ known |-> v.of[k]]

\* A block that is no object is none; of the typed fields the links are kept.
ParsedBlock(model, v) ==
  IF v.kind # "object" THEN {}
  ELSE {[url |-> Str(Field(v, "url")), uri |-> Str(Field(v, "uri")),
         link |-> Str(Field(v, "link")), extras |-> Object(Extras(v, Known[model]))]}

ParsedMeta(meta) == [m \in Models |-> ParsedBlock(m, meta[m])]

-----------------------------------------------------------------------------
\* A text of extras counts only as it is: no conversion, and not an empty one.
Plainly(v) == IF v.kind = "string" THEN {v.text} \ {EmptyText} ELSE {}

\* lis_tn_streaming_url: the song's own page, which redirects.
Redirect(link, to) ==
  IF link.form = "url" /\ link.host = "lis.tn"
  THEN {[form |-> "redirect", link |-> link, sep |-> IF link.query THEN "&" ELSE "?", to |-> to]}
  ELSE {}

\* Where each provider's own link is.
Direct(b, p) ==
  CASE p = "apple_music" -> {b.url} \ {EmptyText}
    [] p = "deezer"  -> {b.link} \ {EmptyText}
    [] p = "napster" -> Plainly(Field(b.extras, "href"))
    [] p = "spotify" -> LET url == Plainly(Field(Field(b.extras, "external_urls"), "spotify"))
                        IN IF url # {} THEN url ELSE {b.uri} \ {EmptyText}

\* streaming_url
StreamingUrl(blocks, link, p) ==
  LET direct == IF p \in Models THEN UNION {Direct(b, p) : b \in blocks[p]} ELSE {} IN
  IF direct # {} THEN direct ELSE Redirect(link, p)

First(v) == IF v.kind = "array" /\ v.items # <<>> THEN v.items[1] ELSE Absent

\* preview_url: Apple Music, then Spotify, then Deezer.
PreviewUrl(blocks) ==
  LET in(m, urls(_)) == UNION {urls(b.extras) : b \in blocks[m]}
      apple == in("apple_music", LAMBDA e : Plainly(Field(First(Field(e, "previews")), "url")))
      spotify == in("spotify", LAMBDA e : Plainly(Field(e, "preview_url")))
      deezer == in("deezer", LAMBDA e : Plainly(Field(e, "preview")))
  IN IF apple # {} THEN apple ELSE IF spotify # {} THEN spotify ELSE deezer
=================================================================================
