----------------------------- MODULE MCResultParsing -----------------------------
(* Model-checking instance of ResultParsing, with integers of 4 bits for       *)
(* int64_t and 3 bits for int: every value in every field, the others plain;  *)
(* every offset; and results of up to two chunks of up to two songs.          *)
EXTENDS ResultParsing

\* Integer literals of JSON go up to the unsigned maximum.
Values ==
  {Absent, Container, Bool(TRUE), Bool(FALSE)}
    \cup {Integer(n) : n \in {-8, -5, -4, -1, 0, 1, 3, 4, 7, 8, 15}}
    \cup {Real(h) : h \in {-17, -16, -3, 0, 1, 5, 6, 14, 15, 16, 40}}
    \cup {String(IntegerText(n)) : n \in {-9, -8, -4, 0, 1, 3, 4, 7, 8}}
    \cup {String(DecimalText(5)), String(DecimalText(40)), String(Clock(<<{2}, {2}>>))}
    \cup {String(Word(w)) : w \in {"", "true", "yes", "on", "false", "no", "off", "junk", " "}}
    \cup {String(NonFiniteText)}
    \cup {String(Spelled(n, plain, whole)) : n \in {0, 1}, plain \in BOOLEAN, whole \in BOOLEAN}

Offsets ==
  {Absent, Container, Bool(TRUE), Integer(2), Real(5), Real(6), String(EmptyText),
   String(Word("junk")), String(IntegerText(3)), String(DecimalText(5)),
   String(Spelled(3, TRUE, FALSE)), String(NonFiniteText)}
    \cup {String(Clock(parts)) : parts \in {<<{2}, {60}>>, <<{2}, {4}, {6}>>, <<{2}, {}, {6}>>,
                                             <<{2}, {5}>>, <<{2}, {4}, {6}, {8}>>, <<{}, {2}>>,
                                             <<{2}, {NotFinite}>>}}

Plain == [title |-> "a", score |-> Integer(3), audio |-> Absent,
          from |-> Integer(1), to |-> Integer(2), running |-> Bool(TRUE)]
Second == [Plain EXCEPT !.title = "b", !.from = Integer(0), !.audio = Integer(1)]

\* A song that is no object.
Hollow == [title |-> "c", score |-> Absent, audio |-> Absent, from |-> Absent, to |-> Absent,
           running |-> Absent]

Songs == {Hollow} \cup {[Plain EXCEPT !.score = v] : v \in Values}
         \cup {[Plain EXCEPT !.audio = v] : v \in Values}
         \cup {[Plain EXCEPT !.from = v, !.to = w] :
                 v \in Values, w \in {Integer(2), String(IntegerText(3)), Container}}

EmptyBlock == [offset |-> Absent, songs |-> <<>>, radio_id |-> Absent,
               running |-> Absent, time |-> Absent, link |-> Absent,
               meta |-> [m \in Models |-> Absent]]
Chunk(offset, songlist) == [EmptyBlock EXCEPT !.offset = offset, !.songs = songlist]
Of(op, blocks) == [op |-> op, blocks |-> blocks]

\* A text in each of the places a link can be in, and in its neighbours.
Text(w) == String(Word(w))
Names == {"url", "uri", "link", "href", "preview", "preview_url"}
Fields(m, names) == [n \in names |-> Text(m)]
Nested(m) == [external_urls |-> Object([spotify |-> Text("nested")]),
              previews |-> Array(<<Object([url |-> Text("nested")])>>), uri |-> Text(m)]

MetaBlocks(m) ==
  {Object(Fields(m, names)) : names \in SUBSET Names}
    \cup {Object([n \in Names |-> v]) : v \in {Text(""), Integer(3), Container}}
    \cup {Object(Nested(m)), Object([external_urls |-> Text("flat"), previews |-> Array(<<>>)])}
    \cup {Absent, Container, Text("block"), Array(<<>>)}

Links == {String(Url("lis.tn", FALSE)), String(Url("lis.tn", TRUE)), String(Url("other", TRUE)),
          Text("link"), Absent}

Recognition(link, meta) ==
  Of("recognize", <<[EmptyBlock EXCEPT !.songs = <<Plain>>, !.link = link, !.meta = meta]>>)

Metas ==
  {[n \in Models |-> IF n = m THEN b ELSE rest] :
     <<m, b>> \in UNION {{m} \X MetaBlocks(m) : m \in Models},
     rest \in {Absent, Object(Fields("others", Names))}}

SongLists == {<<>>, <<Plain>>, <<Second, Plain>>}

MCBodies ==
  {Of("enterprise", <<>>)}
    \cup {Of("enterprise", <<Chunk(Integer(2), <<s>>)>>) : s \in Songs}
    \cup {Of("enterprise", <<Chunk(o, x), Chunk(p, y)>>) :
            o \in Offsets, p \in Offsets, x \in SongLists, y \in SongLists}
    \cup {Of("recognize", <<[EmptyBlock EXCEPT !.songs = <<s>>]>>) : s \in Songs}
    \cup {Of(op, <<[EmptyBlock EXCEPT !.songs = x]>>) :
            op \in {"lyrics", "streams"}, x \in SongLists \cup {<<s, Second>> : s \in Songs}}
    \cup {Of("streams", <<[EmptyBlock EXCEPT !.songs = <<[Plain EXCEPT !.running = v]>>]>>) :
            v \in Values}
    \cup {Recognition(link, meta) : link \in Links, meta \in Metas}
    \cup {Of("match", <<[EmptyBlock EXCEPT !.songs = x, !.radio_id = v]>>) :
            x \in SongLists \cup {<<s>> : s \in Songs}, v \in {Absent, Integer(7)}}
    \cup {Of("match", <<[EmptyBlock EXCEPT !.songs = <<Plain>>, !.radio_id = v]>>) : v \in Values}
    \cup {Of("notification", <<[EmptyBlock EXCEPT !.radio_id = v, !.time = w]>>) :
            v \in Values, w \in {Integer(3), Real(16), String(IntegerText(3))}}
    \cup {Of("notification", <<[EmptyBlock EXCEPT !.running = v]>>) : v \in Values}
    \cup {Of("notification", <<[EmptyBlock EXCEPT !.time = v]>>) : v \in Values}
=================================================================================
