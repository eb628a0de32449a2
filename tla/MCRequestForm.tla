------------------------------ MODULE MCRequestForm ------------------------------
(* Model-checking instance of RequestForm: every operation with and without its *)
(* optional parameters, and extra parameters that collide with each of them.    *)
EXTENDS RequestForm, FiniteSets

Asked(op, source, typed, extras, keys, metadata) ==
  [op |-> op, source |-> source, typed |-> typed, extras |-> extras,
   query |-> keys, metadata |-> metadata, since |-> 0]

\* Extra parameters: none, some nobody else writes, and collisions with each kind.
ExtraSets == {{}, {"flag", "url"}, {"return", "api_token"}, {"accurate_offsets", "skip", "url"}}

Chosen(op) == {Operations[op].always, Operations[op].always \cup Operations[op].options}

Recognitions ==
  {Asked(op, source, typed, extras, <<>>, FALSE) :
     op \in {"recognize", "recognize_enterprise"}, source \in Sources \ {"none"},
     typed \in Chosen("recognize") \cup Chosen("recognize_enterprise") \cup {{"return"}},
     extras \in ExtraSets}

Others ==
  {Asked(op, source, typed, extras, <<>>, FALSE) :
     op \in DOMAIN Operations \ {"recognize", "recognize_enterprise", "set_callback_url", "poll"},
     source \in Sources, typed \in UNION {Chosen(op) : op \in DOMAIN Operations},
     extras \in ExtraSets}

CallbackUrls ==
  {Asked("set_callback_url", "none", {"url"}, extras, keys, metadata) :
     extras \in ExtraSets, metadata \in BOOLEAN, keys \in {<<"flag">>, <<"flag", "return">>}}

\* A poll from now, and one from a time.
Polls ==
  {[Asked("poll", "none", Poll.always, {}, <<>>, FALSE) EXCEPT !.since = t] : t \in {0, 2}}

\* A timestamp that is not sent on, one before and one after those asked for.
MCStamps == {-1, 1, 3}

MCCalls == {c \in Recognitions \cup Others \cup Polls : Wellformed(c)} \cup CallbackUrls
=================================================================================
