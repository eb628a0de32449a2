------------------------------ MODULE LongpollWire ------------------------------
(***************************************************************************)
(* What the longpoll worker reads from one completed HTTP round-trip: the  *)
(* disposition of the response (src/internal/json_parse.cpp), what         *)
(* parse_callback makes of an event body (src/callback.cpp) and the        *)
(* timestamp that moves the cursor (src/longpoll.cpp).  A response is a    *)
(* record of what those functions look at:                                 *)
(*                                                                         *)
(*   http   "ok" below 400, "error" from 400 up                            *)
(*   form   "empty" body, "object", or "other": text that is no JSON       *)
(*          object                                                         *)
(*   keys   which of the keys below the object has                         *)
(*   songs  result.results holds at least one song                         *)
(*   stamp  the integral "timestamp" of the object, or NoStamp             *)
(***************************************************************************)
EXTENDS Integers

Keys == {"timeout", "result", "notification", "error"}
NoStamp == -1
Stamps == Nat \cup {NoStamp}

Responses ==
  {r \in [http : {"ok", "error"}, form : {"empty", "object", "other"},
          keys : SUBSET Keys, songs : BOOLEAN, stamp : Stamps] :
     /\ r.form # "object" => r.keys = {} /\ r.stamp = NoStamp
     /\ r.songs => "result" \in r.keys}

Reply(form, keys, songs, stamp) ==
  [http |-> "ok", form |-> form, keys |-> keys, songs |-> songs, stamp |-> stamp]

\* classify_longpoll_response: a keep-alive has "timeout" and no event block.
Disposition(r) ==
  CASE r.http = "error" -> "Terminal"
    [] r.http = "ok" /\ r.form = "empty" -> "Skip"
    [] /\ r.http = "ok"
       /\ r.form = "object"
       /\ "timeout" \in r.keys
       /\ {"result", "notification"} \cap r.keys = {} -> "KeepAlive"
    [] OTHER -> "Event"

\* Mutant: every callback needs songs.
ParsedToIfSongs(r) ==
  IF r.songs THEN (IF "notification" \in r.keys THEN "notifications" ELSE "matches")
  ELSE "none"

\* The stream parse_callback's value is pushed to, or "none" when it throws: a
\* notification block wins over a result block, a result needs a song, and an
\* object with neither is no callback.
ParsedTo(r) ==
  IF "notification" \in r.keys THEN "notifications"
  ELSE IF r.songs THEN "matches"
  ELSE "none"

\* advance_since: only an object with an integral timestamp moves the cursor.
Advanced(since, r) == IF r.stamp = NoStamp THEN since ELSE r.stamp
=================================================================================
