--------------------------- MODULE CriticalTokens ---------------------------
(***************************************************************************)
(* What must be said exactly: critical tokens, their spoken forms, and the *)
(* check that a transcript says them (content/tokens.py, content/lexicon.py*)
(* and qa/fidelity.py).  Texts are sequences of words.  The categories     *)
(* whose patterns are single words are represented by number and negation, *)
(* those of several words by unit.                                         *)
(***************************************************************************)
EXTENDS SequencesExt, FiniteSets, Naturals

CONSTANTS
  Numbers, Units,
  Negations,        \* words extracted as negations (tokens.py)
  HeardNegations,   \* those that qa/fidelity.py counts
  Speech,           \* Speech[w]: words spoken for a number or a unit
  Inside,           \* Inside[w]: critical words whose letters occur in w
  Starts, Ends      \* Starts[w], Ends[w]: words that w starts and ends with, and w

ASSUME CriticalTokensAssumption ==
  /\ HeardNegations \subseteq Negations
  /\ Numbers \cap Units = {} /\ Negations \cap (Numbers \cup Units) = {}
  /\ \A w \in Numbers \cup Units : Speech[w] \in Seq(STRING) \ {<<>>}

Scopes == <<"episode", "project", "domain", "global">>

--------------------------------------------------------------------------
(* extract_critical_tokens                                                 *)

Overlap(m, n) == m.first <= n.last /\ n.first <= m.last
Within(m, n) == n.first <= m.first /\ m.last <= n.last

Spoken(w) == IF w \in Numbers \cup Units THEN Speech[w] ELSE <<w>>

Match(text, i, j, category, spoken) ==
  [first |-> i, last |-> j, category |-> category, spoken |-> spoken,
   form |-> SubSeq(text, i, j)]

StructuralMatches(text) ==
  LET units == {i \in 1 .. Len(text) - 1 : text[i] \in Numbers /\ text[i + 1] \in Units}
      alone == {i \in 1 .. Len(text) : i \notin units /\ i - 1 \notin units}
  IN {Match(text, i, i + 1, "unit", Spoken(text[i]) \o Spoken(text[i + 1])) : i \in units}
     \cup {Match(text, i, i, "negation", <<text[i]>>) :
             i \in {j \in alone : text[j] \in Negations}}
     \cup {Match(text, i, i, "number", Spoken(text[i])) :
             i \in {j \in alone : text[j] \in Numbers}}

OccursAt(key, text, i) ==
  i + Len(key) - 1 <= Len(text) /\ SubSeq(text, i, i + Len(key) - 1) = key

(* The entries of the first layer that has any for the key.                *)
Resolve(key, lexicon) ==
  LET of(s) == {e \in lexicon : e.scope = Scopes[s] /\ e.key = key}
      selected == CHOOSE s \in 1 .. 4 : of(s) # {} /\ \A t \in 1 .. s - 1 : of(t) = {}
  IN of(selected)

Found(text, lexicon) ==
  {k \in {e.key : e \in lexicon} \X (1 .. Len(text)) : OccursAt(k[1], text, k[2])}

LexiconConflicts(text, lexicon) ==
  \E k \in Found(text, lexicon) : Cardinality(Resolve(k[1], lexicon)) > 1

LexiconMatches(text, lexicon) ==
  LET match(k) == LET e == CHOOSE e \in Resolve(k[1], lexicon) : TRUE
                  IN Match(text, k[2], k[2] + Len(k[1]) - 1, e.category, e.spoken)
  IN {match(k) : k \in Found(text, lexicon)}

(* Lexicon matches are merged from left to right, the longest first.       *)
Precedes(m, n) ==
  \/ m.first < n.first
  \/ m.first = n.first /\ m.last >= n.last

Structural == {"unit", "negation", "number"}

(* A lexicon match stands alone, or covers one structural match, whose     *)
(* category it keeps; everything else is a conflict.                       *)
Overlapped(m, found) == {n \in found : Overlap(m, n)}
IsMergeable(m, found) ==
  \A n \in Overlapped(m, found) :
    Overlapped(m, found) = {n} /\ n.category \in Structural /\ Within(n, m)
Merged(m, found) ==
  LET over == Overlapped(m, found)
      category == IF over = {} THEN m.category ELSE (CHOOSE n \in over : TRUE).category
  IN (found \ over) \cup {[m EXCEPT !.category = category]}

(* _token_counts: how often each literal occurs.                           *)
Tally(text) ==
  LET tokens == StructuralMatches(text)
  IN [k \in {<<m.category, m.form>> : m \in tokens} |->
        Cardinality({m \in tokens : <<m.category, m.form>> = k})]
CountOf(tally, k) == IF k \in DOMAIN tally THEN tally[k] ELSE 0
NegationsIn(text) == Cardinality({m \in StructuralMatches(text) : m.category = "negation"})

(* _find_normalized_span: the first occurrence at or after start, which    *)
(* need not begin and end with whole words; 0 if there is none.            *)
ShowsAt(form, text, i) ==
  LET n == Len(form) IN
  \/ OccursAt(form, text, i)
  \/ n = 1 /\ form[1] \in Inside[text[i]]
  \/ /\ n > 1 /\ i + n - 1 <= Len(text)
     /\ form[1] \in Ends[text[i]] /\ form[n] \in Starts[text[i + n - 1]]
     /\ SubSeq(form, 2, n - 1) = SubSeq(text, i + 1, i + n - 2)
FindSpan(form, text, start) ==
  LET at == {i \in start .. Len(text) : ShowsAt(form, text, i)}
  IN IF at = {} THEN 0 ELSE CHOOSE i \in at : \A j \in at : i <= j

--------------------------------------------------------------------------
(* evaluate_critical_tokens                                                *)

HasNegation(phrase) == ToSet(phrase) \cap HeardNegations # {}

Occurrences(phrase, heard) ==
  Cardinality({i \in 1 .. Len(heard) :
    /\ phrase # <<>> /\ OccursAt(phrase, heard, i)
    /\ \/ HasNegation(phrase) \/ i = 1
       \/ heard[i - 1] \notin HeardNegations})

(* Phrases are indexed by the tokens that they are the spoken forms of.    *)
NegationsHeard(words) == Cardinality({i \in 1 .. Len(words) : words[i] \in HeardNegations})
NegationsExpected(phrases) ==
  Cardinality(UNION {{k} \X {i \in 1 .. Len(phrases[k]) : phrases[k][i] \in HeardNegations} :
                       k \in DOMAIN phrases})

Required(phrases, p) == Cardinality({k \in DOMAIN phrases : phrases[k] = p})

AllHeard(phrases, heard) ==
  \A k \in DOMAIN phrases :
    Required(phrases, phrases[k]) <= Occurrences(phrases[k], heard)

IsFaithfulButForNegations(phrases, heard) == AllHeard(phrases, heard)

IsFaithful(phrases, heard) ==
  DOMAIN phrases # {} =>
    /\ AllHeard(phrases, heard)
    /\ NegationsHeard(heard) = NegationsExpected(phrases)
=============================================================================
