------------------------- MODULE MCEpisodeAssembly -------------------------
(* Small documents and the proposals made for them.                        *)
EXTENDS EpisodeAssembly

MCSpeech == [w \in {"2", "12", "kg"} |->
               CASE w = "2" -> <<"two">> [] w = "12" -> <<"twelve">> [] w = "kg" -> <<"kilos">>]
Vocabulary == {"word", "2", "12", "kg", "no", "none", "now", "Ada", "okay", "disagree"}
MCInside == [w \in Vocabulary |-> CASE w \in {"now", "none"} -> {"no"}
                                   [] w = "12" -> {"2"} [] OTHER -> {}]
MCStarts == [w \in Vocabulary |-> IF w \in {"now", "none"} THEN {w, "no"} ELSE {w}]
MCEnds == [w \in Vocabulary |-> IF w = "12" THEN {w, "2"} ELSE {w}]
MCUtterances == {<<"okay">>, <<"disagree">>}

MCLine(mark, words) == [mark |-> mark, indent |-> 0, cells |-> 0, words |-> words]
Anchor(block, first, last) == [block |-> block, first |-> first, last |-> last]
Quote(id, speaker, text, source, claim) ==
  [id |-> id, speaker |-> speaker, kind |-> "factual", text |-> text,
   source |-> source, claim |-> claim]
Remark(id, speaker, text) ==
  [id |-> id, speaker |-> speaker, kind |-> "editorial", text |-> text,
   source |-> <<>>, claim |-> <<>>]
Entry(scope, key, spoken) ==
  [scope |-> scope, key |-> key, spoken |-> spoken, category |-> "name"]

NoMetadata == [format |-> Nothing, minutes |-> Nothing, overrides |-> {}]
Narration == [format |-> "narration", minutes |-> 5, speakers |-> <<"host">>,
              overridable |-> {}]
Dialogue == [Narration EXCEPT !.format = "dialogue", !.speakers = <<"host", "guest">>]
Treatment == [format |-> "narration", minutes |-> 5,
              anchors |-> <<Anchor(1, 1, 1)>>, expected |-> <<>>]
Mastering == [crossfade |-> 0, silence |-> 0, shortest |-> 1, longest |-> 9, total |-> 12]

Case(document, proposal) ==
  [metadata |-> NoMetadata, profile |-> Narration, activeVoices |-> {"host", "guest"},
   consentedVoices |-> {"host", "guest"}, treatment |-> Treatment, proposal |-> proposal,
   lexicon |-> {}, repairs |-> {}, limit |-> 7, ableSpeakers |-> {"host", "guest"},
   mastering |-> Mastering, notes |-> <<"word">>, document |-> document]

--------------------------------------------------------------------------
(* Every document of up to three lines that differ in their marks, their   *)
(* pipes and their indentation, and some of four.                          *)
Shaped(mark, indent, cells) ==
  [mark |-> mark, indent |-> indent, cells |-> cells,
   words |-> IF mark = "blank" THEN <<>> ELSE <<"word">>]
LineShapes ==
  {Shaped(mark, 0, 0) : mark \in {"blank", "heading", "quote", "text", "rule", "item",
                                 "ordered", "bare", "backticks", "tildes", "info"}}
    \cup {Shaped("heading", 2, 0), Shaped("heading", 4, 0), Shaped("quote", 3, 0),
          Shaped("item", 2, 0), Shaped("text", 2, 0), Shaped("text", 7, 0),
          Shaped("backticks", 3, 0)}
    \cup {Shaped(mark, 0, 2) : mark \in {"heading", "item", "text", "delimiter"}}
    \cup {Shaped("text", 0, 1)}
MoreShapes ==
  LineShapes
    \cup {Shaped(mark, 4, 0) : mark \in {"quote", "item", "rule", "backticks"}}
    \cup {Shaped("quote", 0, 2), Shaped("delimiter", 4, 1), Shaped("info", 2, 2)}
Tricky ==
  {Shaped("blank", 0, 0), Shaped("item", 0, 0), Shaped("heading", 2, 0), Shaped("text", 0, 0),
   Shaped("text", 2, 0), Shaped("backticks", 2, 0), Shaped("tildes", 0, 0)}
Scans ==
  {Case(document, Nothing) : document \in [1 .. 1 -> MoreShapes] \cup [1 .. 2 -> MoreShapes]
                                            \cup [1 .. 3 -> LineShapes] \cup [1 .. 4 -> Tricky]}

--------------------------------------------------------------------------
(* Two blocks, quoted whole, with a remark between them or not.            *)
Texts(words, n) == UNION {[1 .. k -> words] : k \in 1 .. n}
Whole(p, q) ==
  <<Quote("a", "host", p, <<Anchor(1, 1, Len(p))>>, <<Anchor(1, 1, Len(p))>>),
    Quote("b", "host", q, <<Anchor(2, Len(p) + 1, Len(p) + Len(q))>>,
          <<Anchor(2, Len(p) + 1, Len(p) + Len(q))>>)>>
Remarked(turns) == <<turns[1], Remark("r", "host", <<"okay">>), turns[2]>>
Names == {Entry("global", <<"Ada">>, <<"Ay", "da">>), Entry("project", <<"Ada">>, <<"Ada">>)}
Pairs ==
  {[Case(<<MCLine("heading", p), MCLine("heading", q)>>, turns) EXCEPT
       !.limit = limit, !.lexicon = Names, !.notes = <<p[1]>>] :
     <<p, q, limit, turns>> \in
       UNION {{p} \X {q} \X {3, 5, 7} \X {Whole(p, q), Remarked(Whole(p, q))} :
                p \in Texts({"word", "2", "kg", "no", "Ada"}, 2),
                q \in Texts({"2", "no", "none", "Ada"}, 1) \cup {<<"word", "2">>, <<"2", "no">>}}}

--------------------------------------------------------------------------
(* One paragraph of three words on two lines, quoted in two parts that     *)
(* cite the part and claim it, or the paragraph, or first a part.          *)
Parts == {<<1, 1, 2, 2>>, <<1, 1, 3, 3>>, <<1, 1, 2, 3>>, <<1, 2, 3, 3>>, <<2, 2, 3, 3>>}
Parted(w, r, claims) ==
  LET part(i) == Anchor(1, r[i], r[i + 1])
      whole == Anchor(1, 1, Len(w))
      claim(i) == CASE claims = "part" -> <<part(i)>>
                    [] claims = "whole" -> <<whole>>
                    [] OTHER -> <<part(1), whole>>
  IN <<Quote("a", "host", SubSeq(w, r[1], r[2]), <<part(1)>>, claim(1)),
       Quote("b", "host", SubSeq(w, r[3], r[4]), <<part(3)>>, claim(3))>>
Paragraphs ==
  {[Case(<<MCLine("text", <<w[1]>>), MCLine("text", <<w[2], w[3]>>)>>, Parted(w, r, claims))
      EXCEPT !.limit = limit, !.notes = <<w[3]>>] :
     w \in [1 .. 3 -> {"word", "2", "kg", "no", "now"}], r \in Parts,
     claims \in {"part", "whole", "both"}, limit \in {3, 5}}

--------------------------------------------------------------------------
(* Literals that show within the words of others.                          *)
Inner ==
  {[Case(<<MCLine("text", w)>>, Parted(w, <<1, 2, 3, 4>>, claims)) EXCEPT !.notes = <<w[3]>>] :
     w \in [1 .. 4 -> {"2", "12", "kg", "no", "now"}], claims \in {"part", "whole", "both"}}

--------------------------------------------------------------------------
(* Requests that differ in one way from one that is accepted.              *)
Good == Case(<<MCLine("text", <<"word", "2">>), MCLine("blank", <<>>),
               MCLine("text", <<"Ada", "no">>)>>, Whole(<<"word", "2">>, <<"Ada", "no">>))
Override(key, spoken) == [key |-> key, spoken |-> spoken]
Talk == <<Good.proposal[1], Remark("r", "guest", <<"disagree">>), Good.proposal[2]>>
GoodTalk == [Good EXCEPT !.profile = Dialogue, !.treatment.format = "dialogue",
                         !.proposal = Talk]
Variants ==
  {Good, GoodTalk,
   [Good EXCEPT !.metadata = Nothing],
   [Good EXCEPT !.metadata.minutes = 7],
   [Good EXCEPT !.metadata.minutes = 7, !.profile.overridable = {"target_minutes"}],
   [Good EXCEPT !.metadata.minutes = 181],
   [Good EXCEPT !.metadata.format = "dialogue", !.profile.overridable = {"format"}],
   [Good EXCEPT !.metadata.overrides = {Override(<<"Ada">>, <<"Ay", "da">>)}],
   [Good EXCEPT !.metadata.overrides =
                  {Override(<<"Ada">>, <<"Ay">>), Override(<<"Ada">>, <<"da">>)}],
   [Good EXCEPT !.profile.overridable = {"pronunciation_overrides"}],
   [Good EXCEPT !.profile.speakers = <<"host", "host">>],
   [Good EXCEPT !.activeVoices = {"guest"}],
   [Good EXCEPT !.consentedVoices = {"guest"}],
   [Good EXCEPT !.treatment.minutes = 6],
   [Good EXCEPT !.treatment.anchors = <<Anchor(3, 1, 1)>>],
   [Good EXCEPT !.treatment.expected = <<"b", "a">>],
   [Good EXCEPT !.proposal[2].id = "a"],
   [Good EXCEPT !.proposal[2].speaker = "guest"],
   [Good EXCEPT !.proposal = Remarked(@)],
   [Good EXCEPT !.proposal = <<@[2], @[1]>>],
   [Good EXCEPT !.proposal[1].text = <<"2", "word">>],
   [Good EXCEPT !.ableSpeakers = {"guest"}],
   [Good EXCEPT !.limit = 2],
   [Good EXCEPT !.lexicon = {Entry("domain", <<"word", "2">>, <<"one">>)}],
   [Good EXCEPT !.lexicon = {Entry("domain", <<"2", "Ada">>, <<"one">>)}],
   [Good EXCEPT !.lexicon = {Entry("domain", <<"word", "2">>, <<"one">>),
                             Entry("global", <<"word">>, <<"one">>)}],
   [Good EXCEPT !.limit = 3, !.mastering.crossfade = 1],
   [Good EXCEPT !.limit = 3, !.mastering.crossfade = 3],
   [Good EXCEPT !.limit = 3, !.mastering.silence = 8],
   [Good EXCEPT !.limit = 3, !.mastering.silence = 9],
   [Good EXCEPT !.limit = 3, !.mastering.shortest = 3],
   [Good EXCEPT !.mastering.total = 3],
   [Good EXCEPT !.notes = <<"okay">>],
   [Good EXCEPT !.repairs = {[Good.proposal[1] EXCEPT !.text = <<"2">>],
                             [Good.proposal[1] EXCEPT !.text = <<"word", "word">>],
                             [Good.proposal[1] EXCEPT !.text = <<"2">>, !.source = <<>>]}],
   [GoodTalk EXCEPT !.proposal = Good.proposal],
   [GoodTalk EXCEPT !.proposal[2].text = <<"okay">>],
   [GoodTalk EXCEPT !.proposal[2].text = <<"2">>]}

MCRequests == Scans \cup Pairs \cup Paragraphs \cup Inner \cup Variants
=============================================================================
