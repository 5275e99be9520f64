--------------------------- MODULE EpisodeAssembly ---------------------------
(***************************************************************************)
(* From prepared segments to a package: each segment's take passes its own *)
(* gate, the takes become one master (audio/mastering.py), the master is   *)
(* heard and judged (qa/final_master.py), and the evidence becomes package *)
(* artifacts (package_generation.py), as the reference demo and the        *)
(* production caller chain them.                                           *)
(*                                                                         *)
(* Audio is the sequence of words it says, one unit of time each.          *)
(***************************************************************************)
EXTENDS ContentPreparation

CONSTANT Insertions  \* words that may be heard without having been said

VARIABLES
  takes,    \* what was rendered, with its position, in order of arrival
  master,   \* the words of the master
  fault,    \* how the transcript differs from the master
  heard     \* the transcript

audio == <<takes, master, fault, heard>>
vars == <<request, lines, scan, stage, refused, prepared, audio>>

NoFault == [kind |-> "none", at |-> 0, word |-> Nothing]

(* A token is spoken in its spoken form, other words are spoken as written.*)
SpeechAt(w) ==
  LET by == {k \in 1 .. Len(tokens) : tokens[k].said <= w /\ w <= tokens[k].saidTo}
  IN IF by = {} THEN <<Text(script)[w]>>
     ELSE LET t == tokens[CHOOSE k \in by : TRUE]
          IN IF t.said = w THEN t.spoken ELSE <<>>
ScriptSpeech == FlattenSeq([w \in 1 .. Len(Text(script)) |-> SpeechAt(w)])
SegmentSpeech(k) ==
  LET first == FirstWord(script, segments[k].first)
      end == FirstWord(script, segments[k].last + 1)
  IN FlattenSeq([w \in 1 .. end - first |-> SpeechAt(first - 1 + w)])

Phrases(ids) == [t \in ids |-> tokens[t].spoken]
AllPhrases == Phrases(1 .. Len(tokens))

Init ==
  /\ PreparationInit
  /\ takes = <<>> /\ master = <<>> /\ fault = NoFault /\ heard = <<>>

Prepare == PreparationStep /\ UNCHANGED audio

(* The renderers answer in any order, and a caller may mistake positions.  *)
DeliverTakes ==
  /\ stage = "prepared"
  /\ \E order \in [1 .. Len(segments) -> 1 .. Len(segments)] :
        takes' = [i \in 1 .. Len(segments) |->
                    [position |-> order[i], words |-> SegmentSpeech(order[i])]]
  /\ stage' = "rendered"
  /\ UNCHANGED <<request, lines, scan, refused, prepared, master, fault, heard>>

JudgeTakes ==
  /\ stage = "rendered"
  /\ Advance(\A k \in 1 .. Len(segments) :
                IsFaithful(Phrases(TokensIn(k)), SegmentSpeech(k)), "selected")
  /\ UNCHANGED <<request, lines, scan, prepared, audio>>

--------------------------------------------------------------------------
(* MasteringService.master                                                 *)

InOrder(parts) ==
  CHOOSE s \in [1 .. Len(parts) -> ToSet(parts)] :
    \A i, j \in 1 .. Len(parts) : i < j => s[i].position < s[j].position

(* Each part overlaps the words before it by the crossfade.                *)
CrossfadesFit(parts) ==
  \A i \in 2 .. Len(parts) :
    LET before == FoldLeft(LAMBDA n, p : n + Len(p.words), 0, SubSeq(parts, 1, i - 1))
                  - (i - 2) * request.mastering.crossfade
    IN /\ request.mastering.crossfade <= before
       /\ request.mastering.crossfade <= Len(parts[i].words)

(* Takes are joined by the crossfade if there is one, else by silence.  A  *)
(* crossfade is taken to leave the words of both takes to be heard.        *)
Duration(parts, words) ==
  LET m == request.mastering
      joint == IF m.crossfade > 0 THEN 0 - m.crossfade ELSE m.silence
  IN Len(words) + (Len(parts) - 1) * joint

IsInspected(words, m) == m.shortest <= Len(words) /\ Len(words) <= m.longest

MasterAudio ==
  /\ stage = "selected"
  /\ LET parts == InOrder(takes)
         words == FlattenSeq([i \in 1 .. Len(parts) |-> parts[i].words])
         ok == /\ IsInjective([i \in 1 .. Len(takes) |-> takes[i].position])
               /\ \A i \in 1 .. Len(takes) : IsInspected(takes[i].words, request.mastering)
               /\ CrossfadesFit(parts)
               /\ Duration(parts, words) <= request.mastering.total
     IN /\ master' = IF ok THEN words ELSE <<>>
        /\ Advance(ok, "mastered")
  /\ UNCHANGED <<request, lines, scan, prepared, takes, fault, heard>>

--------------------------------------------------------------------------
(* FinalMasterQaService.evaluate                                           *)

(* The transcriber may miss a word, hear one more, give no usable times,   *)
(* or answer for another audio.                                            *)
Transcribe ==
  /\ stage = "mastered"
  /\ \/ /\ \E kind \in {"none", "untimed", "foreign"} :
             fault' = [NoFault EXCEPT !.kind = kind]
        /\ heard' = master
     \/ \E i \in 1 .. Len(master) :
          /\ fault' = [kind |-> "lost", at |-> i, word |-> master[i]]
          /\ heard' = RemoveAt(master, i)
     \/ \E i \in 1 .. Len(master) + 1, w \in Insertions :
          /\ fault' = [kind |-> "inserted", at |-> i, word |-> w]
          /\ heard' = InsertAt(master, i, w)
  /\ stage' = "transcribed"
  /\ UNCHANGED <<request, lines, scan, refused, prepared, takes, master>>

EvaluateMaster ==
  /\ stage = "transcribed"
  /\ Advance(/\ heard # <<>>
             /\ fault.kind # "foreign"
             /\ IsFaithful(AllPhrases, heard), "judged")
  /\ UNCHANGED <<request, lines, scan, prepared, audio>>

--------------------------------------------------------------------------
(* generate_package_artifacts                                              *)

(* A token's form is compared with the source as it is written, with the   *)
(* line break that one of them may have between its words.                 *)
HasSourceForm(t) ==
  \A i \in 1 .. Len(t.form) - 1 :
    (LineOf(t.first + i - 1) = LineOf(t.first + i))
      = (TurnOf(script, t.said + i - 1) = TurnOf(script, t.said + i))

SegmentsAreAttached ==
  \A k \in 1 .. Len(segments) :
    /\ AnchorsIn(k) # {}
    /\ \A t \in TokensIn(k) :
          /\ \E a \in AnchorsIn(k) : Within(tokens[t], a)
          /\ HasSourceForm(tokens[t])

GeneratePackage ==
  /\ stage = "judged"
  /\ Advance(/\ SegmentsAreAttached
             /\ fault.kind # "untimed"
             /\ FindSpan(request.notes, SourceWords, 1) # 0, "packaged")
  /\ UNCHANGED <<request, lines, scan, prepared, audio>>

Next ==
  \/ Prepare \/ DeliverTakes \/ JudgeTakes \/ MasterAudio \/ Transcribe
  \/ EvaluateMaster \/ GeneratePackage

Spec == Init /\ [][Next]_vars

--------------------------------------------------------------------------

(* The lost word is by itself what a token needs to be heard: its phrase   *)
(* has no other word, and is said no more often than the tokens need.      *)
LosesToken ==
  \E t \in ToSet(tokens) :
    /\ t.spoken = <<fault.word>>
    /\ Cardinality({i \in 1 .. Len(master) : master[i] = fault.word})
         = Required(AllPhrases, t.spoken)

FollowsNegation ==
  \E i \in 2 .. Len(master) :
    /\ master[i - 1] \in HeardNegations
    /\ \E t \in ToSet(tokens) : OccursAt(t.spoken, master, i)

(* A package says what its script says: its master has every segment once, *)
(* in the script's order, and was heard as it is, or with one word less or *)
(* more.  The missing word is none of which a one-word token needs every   *)
(* occurrence, and no negation; a negation too much passes only where      *)
(* there is no token.  And a faithful reading is refused only where a      *)
(* token follows a negation.  (_validate_positions, evaluate_critical_     *)
(* tokens, FinalMasterQaService.evaluate, _validate_request.)              *)
PackagesAreFaithful ==
  /\ stage = "packaged" =>
       /\ master = ScriptSpeech
       /\ fault.kind \in {"none", "lost", "inserted"}
       /\ fault.kind = "lost" => fault.word \notin HeardNegations /\ ~LosesToken
       /\ fault.kind = "inserted" /\ fault.word \in HeardNegations => tokens = <<>>
  /\ refused = "transcribed" /\ fault.kind = "none" => FollowsNegation
=============================================================================
