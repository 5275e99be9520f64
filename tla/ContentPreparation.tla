------------------------- MODULE ContentPreparation -------------------------
(***************************************************************************)
(* prepare_content (content/service.py): from a document, a profile and a  *)
(* proposed script to segments for a renderer.  One step per port, in the  *)
(* order of _build_result; the document is scanned block by block.         *)
(*                                                                         *)
(* A request holds what the caller gives: the document's frontmatter, the  *)
(* profile and the voices approved for it, the treatment, the proposal of  *)
(* the reasoning port, the lexicon layers and the renderer's limits.       *)
(***************************************************************************)
EXTENDS SourceBlocks, CriticalTokens

CONSTANTS
  Requests,     \* what callers may ask for
  Utterances,   \* texts that an editorial turn may have
  Challenges    \* words that make a turn of a dialogue a challenge

VARIABLES
  request, stage,
  refused,      \* the stage that refused the request, or "none"
  profile,      \* after the document's own metadata
  lexicon,      \* entries of all layers
  script,       \* accepted turns
  unmerged,     \* matches of the lexicon yet to be merged
  found,        \* matches of the script yet to be bound to the source
  tokens,       \* critical tokens of the script, bound to the source
  segments

matches == <<unmerged, found>>
prepared == <<profile, lexicon, script, matches, tokens, segments>>

SourceAnchor == {a \in [block : Nat, first : Nat, last : Nat] : a.first <= a.last + 1}
ScriptTurn ==
  [id : STRING, speaker : STRING, kind : {"factual", "editorial"}, text : Seq(STRING),
   source : Seq(SourceAnchor), claim : Seq(SourceAnchor)]
Key == Seq(STRING) \ {<<>>}
LexiconEntry ==
  [scope : ToSet(Scopes), key : Key, spoken : Seq(STRING),
   category : {"name", "organization", "product", "technical_term"}]

ASSUME RequestsAssumption ==
  \A r \in Requests :
    /\ r.document \in Seq(Line)
    /\ r.proposal # Nothing => r.proposal \in Seq(ScriptTurn)
    /\ r.repairs \subseteq ScriptTurn
    /\ r.lexicon \subseteq LexiconEntry
    /\ r.metadata # Nothing =>
         \A o \in r.metadata.overrides : o.key \in Key /\ o.spoken \in Seq(STRING)
    /\ r.limit \in Nat /\ r.mastering.shortest \in Nat \ {0}

Advance(ok, next) ==
  /\ stage' = IF ok THEN next ELSE "rejected"
  /\ refused' = IF ok THEN refused ELSE stage

PreparationInit ==
  /\ ScanInit
  /\ request \in Requests /\ lines = request.document
  /\ stage = "profile" /\ refused = "none" /\ profile = Nothing
  /\ lexicon = {} /\ script = <<>> /\ unmerged = {} /\ found = {}
  /\ tokens = <<>> /\ segments = <<>>

--------------------------------------------------------------------------
(* Profile and metadata                                                    *)

OverridableFields == {"format", "target_minutes", "style", "audio", "quality"}
IsProfile(p) ==
  /\ p.speakers # <<>> /\ IsInjective(p.speakers)
  /\ p.overridable \subseteq OverridableFields
  /\ p.minutes \in 1 .. 180

LoadProfile ==
  /\ stage = "profile"
  /\ profile' = request.profile
  /\ Advance(/\ IsProfile(request.profile)
             /\ ToSet(request.profile.speakers) \subseteq
                  request.activeVoices \cap request.consentedVoices, "frontmatter")
  /\ UNCHANGED <<request, lines, scan, lexicon, script, matches, tokens, segments>>

ReadFrontmatter ==
  /\ stage = "frontmatter"
  /\ Advance(request.metadata # Nothing, "scanning")
  /\ UNCHANGED <<request, lines, scan, prepared>>

Scan ==
  /\ stage = "scanning"
  /\ ScanStep
  /\ UNCHANGED <<request, stage, refused, prepared>>

EndScan ==
  /\ stage = "scanning" /\ Scanned
  /\ Advance(TRUE, "metadata")
  /\ UNCHANGED <<request, lines, scan, prepared>>

(* Pronunciations of the document replace those of the episode layer; no   *)
(* allow list is asked.                                                    *)
Overlay(entries, overrides) ==
  {e \in entries : e.scope = "episode" => e.key \notin {o.key : o \in overrides}}
  \cup {[scope |-> "episode", key |-> o.key, spoken |-> o.spoken,
         category |-> "technical_term"] : o \in overrides}

ResolveMetadata ==
  /\ stage = "metadata"
  /\ LET m == request.metadata
         Own(field, value, default) ==
           IF value # Nothing /\ field \in profile.overridable THEN value ELSE default
         resolved == [profile EXCEPT
                        !.format = Own("format", m.format, @),
                        !.minutes = Own("target_minutes", m.minutes, @)]
     IN /\ profile' = resolved
        /\ lexicon' = Overlay(request.lexicon, m.overrides)
        /\ Advance(m.minutes = Nothing \/ m.minutes \in 1 .. 180, "adapting")
  /\ UNCHANGED <<request, lines, scan, script, matches, tokens, segments>>

--------------------------------------------------------------------------
(* Adaptation: a proposed script becomes canonical only past these gates   *)

Text(turns) == FlattenSeq([i \in 1 .. Len(turns) |-> turns[i].text])
ClaimText(turn) ==
  FlattenSeq([i \in 1 .. Len(turn.claim) |-> AnchorText(turn.claim[i])])

IsEditorial(turn) ==
  /\ turn.kind = "editorial"
  /\ turn.claim = <<>>
  /\ StructuralMatches(turn.text) = {}
  /\ turn.text \in Utterances

(* The text is a quotation from one claim anchor.  That it has no literal, *)
(* word or comparison of its own follows, except for literals that are     *)
(* only part of a word of the claim.                                       *)
IsSourceBound(turn) ==
  /\ turn.kind = "factual"
  /\ turn.source # <<>> /\ turn.claim # <<>>
  /\ \A a \in ToSet(turn.source) \cup ToSet(turn.claim) : IsAnchored(a)
  /\ \E a \in ToSet(turn.claim) : FindSpan(turn.text, AnchorText(a), 1) # 0
  /\ LET said == Tally(turn.text)
         claimed == Tally(ClaimText(turn))
     IN \A k \in DOMAIN said : said[k] <= CountOf(claimed, k)
  /\ NegationsIn(turn.text) = NegationsIn(ClaimText(turn))

Ids(turns) == [i \in 1 .. Len(turns) |-> turns[i].id]

IsDialogue(turns) ==
  /\ Cardinality({t.speaker : t \in ToSet(turns)}) = 2
  /\ \E t \in ToSet(turns) : ToSet(t.text) \cap Challenges # {}

AreAccepted(turns, expected) ==
  /\ IsInjective(Ids(turns)) /\ expected \in {<<>>, Ids(turns)}
  /\ \A t \in ToSet(turns) :
        /\ t.speaker \in ToSet(profile.speakers)
        /\ IsEditorial(t) \/ IsSourceBound(t)
  /\ profile.format = "dialogue" => IsDialogue(turns)

AdaptSource ==
  /\ stage = "adapting"
  /\ LET t == request.treatment
         ok == /\ t.format = profile.format /\ t.minutes = profile.minutes
               /\ \A a \in ToSet(t.anchors) : IsAnchored(a)
               /\ request.proposal # Nothing
               /\ AreAccepted(request.proposal, t.expected)
     IN /\ script' = IF ok THEN request.proposal ELSE <<>>
        /\ Advance(ok, "adapted")
  /\ UNCHANGED <<request, lines, scan, profile, lexicon, matches, tokens, segments>>

(* repair_turn: a replacement that would break the script changes nothing. *)
RepairTurn ==
  /\ stage = "adapted"
  /\ \E r \in request.repairs : \E i \in 1 .. Len(script) :
        LET turns == ReplaceAt(script, i, r)
            protected(t) == [t EXCEPT !.text = <<>>]
        IN script' = IF /\ protected(r) = protected(script[i])
                        /\ AreAccepted(turns, Ids(script))
                     THEN turns ELSE script
  /\ stage' = "repaired"
  /\ UNCHANGED <<request, refused, lines, scan, profile, lexicon, matches, tokens, segments>>

--------------------------------------------------------------------------
(* _source_bound_tokens                                                    *)

FirstWord(turns, i) == 1 + Len(Text(SubSeq(turns, 1, i - 1)))
TurnOf(turns, w) ==
  CHOOSE i \in 1 .. Len(turns) : FirstWord(turns, i) <= w /\ w < FirstWord(turns, i + 1)

(* extract_critical_tokens: matches of the lexicon are merged one by one,  *)
(* in order, with those that need none.                                    *)
ExtractTokens ==
  /\ stage \in {"adapted", "repaired"}
  /\ found' = StructuralMatches(Text(script))
  /\ LET ok == ~LexiconConflicts(Text(script), lexicon)
     IN /\ unmerged' = IF ok THEN LexiconMatches(Text(script), lexicon) ELSE {}
        /\ Advance(ok, "merging")
  /\ UNCHANGED <<request, lines, scan, profile, lexicon, script, tokens, segments>>

MergeMatch ==
  /\ stage = "merging"
  /\ \E m \in unmerged :
       /\ \A n \in unmerged : Precedes(m, n)
       /\ unmerged' = unmerged \ {m}
       /\ found' = IF IsMergeable(m, found) THEN Merged(m, found) ELSE found
       /\ Advance(IsMergeable(m, found), "merging")
  /\ UNCHANGED <<request, lines, scan, profile, lexicon, script, tokens, segments>>

EndMerge ==
  /\ stage = "merging" /\ unmerged = {}
  /\ Advance(TRUE, "binding")
  /\ UNCHANGED <<request, lines, scan, prepared>>

(* Where the search in a claim anchor begins: after the last occurrence of *)
(* the same form that a token has been bound to.                           *)
SearchFromStart(bound, anchor, form) == 1
SearchFrom(bound, anchor, form) ==
  LET used == {b.last : b \in {b \in ToSet(bound) : b.anchor = anchor /\ b.form = form}}
  IN IF used = {} THEN 1
     ELSE 2 - anchor.first + CHOOSE n \in used : \A m \in used : m <= n
PlaceIn(anchor, form) == FindSpan(form, AnchorText(anchor), SearchFrom(tokens, anchor, form))

BoundToken(m, i, anchor) ==
  LET first == anchor.first + PlaceIn(anchor, m.form) - 1
  IN [anchor |-> anchor, form |-> m.form, spoken |-> m.spoken, category |-> m.category,
      turn |-> i, first |-> first, last |-> first + m.last - m.first,
      said |-> m.first, saidTo |-> m.last]

(* The next match is bound in the first claim anchor of its turn that has  *)
(* an occurrence left; one that cannot be bound ends the request.          *)
BindToken ==
  /\ stage = "binding"
  /\ \E m \in found, i \in 1 .. Len(script) :
       /\ \A n \in found : m.first <= n.first
       /\ FirstWord(script, i) <= m.first /\ m.first < FirstWord(script, i + 1)
       /\ LET claim == script[i].claim
              places == {c \in 1 .. Len(claim) : PlaceIn(claim[c], m.form) # 0}
          IN /\ tokens' = IF places = {} THEN <<>>
                          ELSE Append(tokens, BoundToken(m, i,
                                 claim[CHOOSE c \in places : \A d \in places : c <= d]))
             /\ Advance(places # {}, "binding")
       /\ found' = found \ {m}
  /\ UNCHANGED <<request, lines, scan, profile, lexicon, script, unmerged, segments>>

EndBinding ==
  /\ stage = "binding" /\ found = {}
  /\ Advance(TRUE, "bound")
  /\ UNCHANGED <<request, lines, scan, prepared>>

--------------------------------------------------------------------------
(* segment_script                                                          *)

(* Where the script cites the source: a turn, and which of its anchors.    *)
Citations == UNION {{i} \X (1 .. Len(script[i].source)) : i \in 1 .. Len(script)}
Cited(c) == script[c[1]].source[c[2]]
Before(c, d) == c[1] < d[1] \/ (c[1] = d[1] /\ c[2] < d[2])

AnchorsAreOrdered ==
  /\ \A t \in ToSet(script) : (t.kind = "editorial") = (t.source = <<>>)
  /\ \A c \in Citations : IsAnchored(Cited(c))
  /\ \A c, d \in Citations : Before(c, d) =>
       Cited(c).block <= Cited(d).block /\ Cited(c).last < Cited(d).first

IsInOneAnchor(t) ==
  \E c \in Citations : \A d \in Citations : Within(t, Cited(d)) <=> d = c

(* Words are one character wide, as is what separates them or two turns.   *)
WidthWithoutBreaks(i, j) == 2 * (FirstWord(script, j + 1) - FirstWord(script, i)) - (j - i + 1)
Width(i, j) == 2 * (FirstWord(script, j + 1) - FirstWord(script, i)) - 1

SegmentScript ==
  /\ stage = "bound"
  /\ Advance(/\ script # <<>> /\ AnchorsAreOrdered
             /\ \A t \in ToSet(tokens) : IsInOneAnchor(t)
             /\ \A i \in 1 .. Len(script) :
                   script[i].speaker \in request.ableSpeakers /\ Width(i, i) <= request.limit,
             "segmenting")
  /\ UNCHANGED <<request, lines, scan, prepared>>

NextTurn == IF segments = <<>> THEN 1 ELSE Last(segments).last + 1

(* The next turn joins the segment before it if both are within the limit. *)
AddTurn ==
  /\ stage = "segmenting" /\ NextTurn <= Len(script)
  /\ segments' =
       IF segments # <<>> /\ Width(Last(segments).first, NextTurn) <= request.limit
       THEN ReplaceAt(segments, Len(segments), [Last(segments) EXCEPT !.last = NextTurn])
       ELSE Append(segments, [first |-> NextTurn, last |-> NextTurn])
  /\ UNCHANGED <<request, stage, refused, lines, scan, profile, lexicon, script, matches, tokens>>

EndSegments ==
  /\ stage = "segmenting" /\ NextTurn > Len(script)
  /\ Advance(TRUE, "prepared")
  /\ UNCHANGED <<request, lines, scan, prepared>>

AnchorsIn(k) ==
  {Cited(c) : c \in {c \in Citations : segments[k].first <= c[1] /\ c[1] <= segments[k].last}}
TokensIn(k) ==
  {t \in 1 .. Len(tokens) : \E a \in AnchorsIn(k) : Overlap(tokens[t], a)}

PreparationStep ==
  LoadProfile \/ ReadFrontmatter \/ Scan \/ EndScan \/ ResolveMetadata \/ AdaptSource
  \/ RepairTurn \/ ExtractTokens \/ MergeMatch \/ EndMerge \/ BindToken \/ EndBinding
  \/ SegmentScript \/ AddTurn \/ EndSegments

--------------------------------------------------------------------------

(* Tokens are bound in the order in which the script says them, and share  *)
(* no word of it.  Repeated literals keep their identity: tokens of one    *)
(* form that are bound in one claim anchor are bound to different          *)
(* occurrences, in that order too.  (_merge_lexicon_matches,               *)
(* _source_bound_tokens.)                                                  *)
TokensKeepTheirPlace ==
  \A i, j \in 1 .. Len(tokens) : i < j =>
    /\ tokens[i].saidTo < tokens[j].said
    /\ tokens[i].anchor = tokens[j].anchor /\ tokens[i].form = tokens[j].form
         => tokens[i].last < tokens[j].first

CharactersOf(turns) == 2 * Len(Text(turns)) - 1

(* Segments divide the script: each turn is in one segment, whole and in   *)
(* order; a segment is within the renderer's limit, and only because the   *)
(* next turn did not fit does it end; each token belongs to one segment,   *)
(* that of the turn which says it if that turn cites the anchor in which   *)
(* the token was bound.  (segment_script, _make_segment, _validate_tokens.)*)
SegmentsPartitionTurns ==
  segments # <<>> /\ stage # "segmenting" =>
    /\ segments[1].first = 1 /\ Last(segments).last = Len(script)
    /\ \A k \in 1 .. Len(segments) :
          LET s == segments[k] IN
          /\ s.first <= s.last
          /\ CharactersOf(SubSeq(script, s.first, s.last)) <= request.limit
          /\ k < Len(segments) =>
               /\ segments[k + 1].first = s.last + 1
               /\ CharactersOf(SubSeq(script, s.first, s.last + 1)) > request.limit
    /\ \A t \in 1 .. Len(tokens) : \E k \in 1 .. Len(segments) :
          /\ \A j \in 1 .. Len(segments) : t \in TokensIn(j) <=> j = k
          /\ tokens[t].anchor \in ToSet(script[tokens[t].turn].source) =>
               tokens[t].turn \in segments[k].first .. segments[k].last
=============================================================================
