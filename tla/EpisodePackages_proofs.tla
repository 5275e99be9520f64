----------------------- MODULE EpisodePackages_proofs -----------------------
(***************************************************************************)
(* Packages are faithful (PackagesAreFaithful), for any document, script,  *)
(* lexicon, limits and faults of the transcriber.                          *)
(*                                                                         *)
(* What the script says is a sequence of words in which each token has a   *)
(* place of its own, one after the other.  So a transcript without a fault *)
(* has each phrase as often as it is required, and only a negation before  *)
(* a token can keep the check from counting it.  The negations heard and   *)
(* expected are as many, because every negation of the script is in a      *)
(* token: a transcript with one negation less or more cannot pass.         *)
(***************************************************************************)
EXTENDS EpisodeAssembly_proofs, FiniteSetTheorems

(* What is said for each word of the script.                               *)
Speeches == [w \in 1 .. Len(Text(script)) |-> SpeechAt(w)]

SaidBy(k, w) == tokens[k].said <= w /\ w <= tokens[k].saidTo

(* Tokens are said one after the other.                                    *)
LEMMA TokenOrder ==
  ASSUME TokenInv, NEW j \in 1 .. Len(tokens), NEW k \in 1 .. Len(tokens), j < k
  PROVE  tokens[j].saidTo < tokens[k].said
BY DEF TokenInv, TokensKeepTheirPlace

(* Tokens are inside the script.                                           *)
LEMMA TokenTypes ==
  ASSUME TokenInv, SaidInv
  PROVE  /\ Len(tokens) \in Nat
         /\ \A k \in 1 .. Len(tokens) :
              /\ tokens[k].said \in Int /\ tokens[k].saidTo \in Int
              /\ 1 <= tokens[k].said /\ tokens[k].said <= tokens[k].saidTo
              /\ tokens[k].saidTo <= Len(Text(script))
              /\ tokens[k].spoken \in Seq(STRING)
         /\ script \in Seq(ScriptTurn) /\ Len(Text(script)) \in Nat
         /\ Text(script) \in Seq(STRING)
<1>1. Len(tokens) \in Nat
  BY DEF TokenInv, BoundInv
<1>2. \A k \in 1 .. Len(tokens) : IsBound(tokens[k]) /\ IsPlaced(tokens[k])
  BY DEF TokenInv, BoundInv, SaidInv
<1>3. script \in Seq(ScriptTurn)
  BY DEF TokenInv, InputInv
<1>4. Len(Text(script)) \in Nat /\ Text(script) \in Seq(STRING)
  BY <1>3, TextFacts
<1> QED
  BY <1>1, <1>2, <1>3, <1>4 DEF IsBound, IsPlaced

(* A word is said by at most one token.                                    *)
LEMMA OneToken ==
  ASSUME TokenInv, SaidInv, NEW j \in 1 .. Len(tokens), NEW k \in 1 .. Len(tokens),
         NEW w \in Int, SaidBy(j, w), SaidBy(k, w)
  PROVE  j = k
<1>1. ~(j < k)
  <2> SUFFICES ASSUME j < k
               PROVE  FALSE
    OBVIOUS
  <2>1. tokens[j].saidTo < tokens[k].said /\ tokens[k].said <= w /\ w <= tokens[j].saidTo
    BY TokenOrder DEF SaidBy
  <2>2. tokens[j].saidTo \in Int /\ tokens[k].said \in Int
    BY TokenTypes
  <2> QED
    BY <2>1, <2>2
<1>2. ~(k < j)
  <2> SUFFICES ASSUME k < j
               PROVE  FALSE
    OBVIOUS
  <2>1. tokens[k].saidTo < tokens[j].said /\ tokens[j].said <= w /\ w <= tokens[k].saidTo
    BY TokenOrder DEF SaidBy
  <2>2. tokens[k].saidTo \in Int /\ tokens[j].said \in Int
    BY TokenTypes
  <2> QED
    BY <2>1, <2>2
<1> QED
  BY <1>1, <1>2

(* What is spoken at a word of the script.                                 *)
LEMMA SpeechAtFacts ==
  ASSUME TokenInv, SaidInv, NEW w \in 1 .. Len(Text(script))
  PROVE  /\ SpeechAt(w) \in Seq(STRING)
         /\ \A k \in 1 .. Len(tokens) : SaidBy(k, w) =>
              SpeechAt(w) = IF tokens[k].said = w THEN tokens[k].spoken ELSE <<>>
         /\ (\A k \in 1 .. Len(tokens) : ~SaidBy(k, w)) => SpeechAt(w) = <<Text(script)[w]>>
<1>1. PICK by : by = {k \in 1 .. Len(tokens) : SaidBy(k, w)}
  OBVIOUS
<1>2. PICK c : c = CHOOSE k \in by : TRUE
  OBVIOUS
<1>3. SpeechAt(w) = IF by = {} THEN <<Text(script)[w]>>
                    ELSE IF tokens[c].said = w THEN tokens[c].spoken ELSE <<>>
  BY <1>1, <1>2 DEF SpeechAt, SaidBy
<1>4. by # {} => c \in by
  BY <1>2
<1>5. w \in Int
  BY TokenTypes
<1>6. \A k \in by : by # {} /\ k = c
  <2> SUFFICES ASSUME NEW k \in by
               PROVE  k = c
    OBVIOUS
  <2>1. k \in 1 .. Len(tokens) /\ c \in 1 .. Len(tokens) /\ SaidBy(k, w) /\ SaidBy(c, w)
    BY <1>1, <1>4
  <2> QED
    BY <1>5, <2>1, OneToken
<1>7. <<Text(script)[w]>> \in Seq(STRING)
  <2>1. PICK S : S = STRING
    OBVIOUS
  <2>2. Text(script) \in Seq(S)
    BY <2>1, TokenTypes, Zenon
  <2>3. PICK text : text = Text(script)
    OBVIOUS
  <2>4. text \in Seq(S) /\ w \in 1 .. Len(text)
    BY <2>2, <2>3
  <2>5. <<text[w]>> \in Seq(S)
    BY ONLY <2>4
  <2> QED
    BY <2>1, <2>3, <2>5
<1>8. by # {} => tokens[c].spoken \in Seq(STRING)
  BY <1>1, <1>4, TokenTypes
<1>9. <<>> \in Seq(STRING)
  BY EmptySeq
<1>10. SpeechAt(w) \in Seq(STRING)
  BY <1>3, <1>7, <1>8, <1>9
<1>11. ASSUME NEW k \in 1 .. Len(tokens), SaidBy(k, w)
       PROVE  SpeechAt(w) = IF tokens[k].said = w THEN tokens[k].spoken ELSE <<>>
  <2>1. k \in by
    BY <1>1, <1>11
  <2> QED
    BY <1>3, <1>6, <2>1
<1>12. (\A k \in 1 .. Len(tokens) : ~SaidBy(k, w)) => SpeechAt(w) = <<Text(script)[w]>>
  BY <1>1, <1>3
<1> QED
  BY <1>10, <1>11, <1>12

(* What is spoken, word by word of the script.                             *)
LEMMA SpeechesFacts ==
  ASSUME TokenInv, SaidInv
  PROVE  /\ Speeches \in Seq(Seq(STRING)) /\ Len(Speeches) = Len(Text(script))
         /\ \A w \in 1 .. Len(Text(script)) : Speeches[w] = SpeechAt(w)
         /\ ScriptSpeech = FlattenSeq(Speeches) /\ ScriptSpeech \in Seq(STRING)
         /\ Len(ScriptSpeech) \in Nat
<1>1. Len(Text(script)) \in Nat
  BY TokenTypes
<1>2. \A w \in 1 .. Len(Text(script)) : SpeechAt(w) \in Seq(STRING)
  BY SpeechAtFacts
<1>3. /\ Speeches \in Seq(Seq(STRING)) /\ Len(Speeches) = Len(Text(script))
      /\ \A w \in 1 .. Len(Text(script)) : Speeches[w] = SpeechAt(w)
  BY <1>1, <1>2 DEF Speeches
<1>4. ScriptSpeech = FlattenSeq(Speeches)
  BY DEF ScriptSpeech, Speeches
<1>5. ScriptSpeech \in Seq(STRING)
  BY <1>3, <1>4, FlattenPrefix
<1> QED
  BY <1>3, <1>4, <1>5, LenProperties

(* A token is heard from the offset of its first word on.                  *)
Heard(k) == Offset(Speeches, tokens[k].said)

(* A token is heard whole.                                                 *)
LEMMA TokenIsSpoken ==
  ASSUME TokenInv, SaidInv, NEW k \in 1 .. Len(tokens)
  PROVE  /\ Heard(k) \in Nat /\ Len(tokens[k].spoken) \in Nat
         /\ Heard(k) + Len(tokens[k].spoken) <= Len(ScriptSpeech)
         /\ \A i \in 1 .. Len(tokens[k].spoken) :
              /\ Heard(k) + i \in 1 .. Len(ScriptSpeech)
              /\ ScriptSpeech[Heard(k) + i] = tokens[k].spoken[i]
<1>1. PICK w : w = tokens[k].said
  OBVIOUS
<1>2. w \in 1 .. Len(Text(script)) /\ SaidBy(k, w)
  BY <1>1, TokenTypes DEF SaidBy
<1>3. PICK s : s = Speeches
  OBVIOUS
<1>4. /\ s \in Seq(Seq(STRING)) /\ Len(s) = Len(Text(script)) /\ ScriptSpeech = FlattenSeq(s)
      /\ s[w] = tokens[k].spoken /\ w \in 1 .. Len(s)
  BY <1>1, <1>2, <1>3, SpeechesFacts, SpeechAtFacts
<1>5. \A i \in 1 .. Len(s[w]) : /\ Offset(s, w) + i \in 1 .. Len(FlattenSeq(s))
                               /\ FlattenSeq(s)[Offset(s, w) + i] = s[w][i]
  BY <1>4, FlattenAt
<1>6. /\ Offset(s, w) \in Nat /\ Len(s[w]) \in Nat /\ Offset(s, w + 1) = Offset(s, w) + Len(s[w])
      /\ Offset(s, Len(s) + 1) = Len(FlattenSeq(s)) /\ w \in 1 .. Len(s) + 1
      /\ w + 1 \in 1 .. Len(s) + 1 /\ Len(s) + 1 \in w + 1 .. Len(s) + 1
  <2>1. w \in 1 .. Len(s) + 1 /\ w + 1 \in 1 .. Len(s) + 1 /\ Len(s) + 1 \in w + 1 .. Len(s) + 1
    BY <1>4
  <2> QED
    BY <1>4, <2>1, OffsetFacts
<1>7. Offset(s, w + 1) <= Len(FlattenSeq(s))
  BY <1>4, <1>6, OffsetMonotone
<1> QED
  BY <1>1, <1>3, <1>4, <1>5, <1>6, <1>7 DEF Heard

(* Tokens are heard one after another.                                     *)
LEMMA TokensFollow ==
  ASSUME TokenInv, SaidInv, NEW j \in 1 .. Len(tokens), NEW k \in 1 .. Len(tokens), j < k
  PROVE  Heard(j) + Len(tokens[j].spoken) <= Heard(k)
<1>1. PICK v, w : v = tokens[j].said /\ w = tokens[k].said
  OBVIOUS
<1>2. /\ v \in 1 .. Len(Text(script)) /\ SaidBy(j, v)
      /\ w \in 1 .. Len(Text(script)) /\ v < w
  <2>1. tokens[j].saidTo < tokens[k].said
    BY TokenOrder
  <2>2. /\ v \in Int /\ w \in Int /\ 1 <= v /\ v <= tokens[j].saidTo /\ tokens[j].saidTo \in Int
        /\ tokens[j].saidTo <= Len(Text(script)) /\ Len(Text(script)) \in Nat
        /\ w <= tokens[k].saidTo /\ tokens[k].saidTo \in Int
        /\ tokens[k].saidTo <= Len(Text(script))
    BY <1>1, TokenTypes
  <2>3. v < w /\ w \in 1 .. Len(Text(script)) /\ v \in 1 .. Len(Text(script))
    BY <1>1, <2>1, <2>2
  <2> QED
    BY <1>1, <2>2, <2>3 DEF SaidBy
<1>3. PICK s : s = Speeches
  OBVIOUS
<1>4. /\ s \in Seq(Seq(STRING)) /\ Len(s) = Len(Text(script))
      /\ s[v] = tokens[j].spoken
  BY <1>1, <1>2, <1>3, SpeechesFacts, SpeechAtFacts
<1>5. v \in 1 .. Len(s) /\ v + 1 \in 1 .. Len(s) + 1 /\ w \in v + 1 .. Len(s) + 1
  BY <1>2, <1>4
<1>6. Offset(s, v + 1) = Offset(s, v) + Len(s[v]) /\ Offset(s, v + 1) <= Offset(s, w)
  BY <1>4, <1>5, OffsetFacts, OffsetMonotone
<1> QED
  BY <1>1, <1>3, <1>4, <1>6 DEF Heard

--------------------------------------------------------------------------
(***************************************************************************)
(* Negations. The script's speech has exactly the negations that its       *)
(* tokens have: each place of a negation in a token is a place in the      *)
(* speech and the other way round, because every negation of the text is   *)
(* in a token.                                                             *)
(***************************************************************************)

(* Where a text has words of a set, and where tokens have negations.       *)
Places(words, X) == {i \in 1 .. Len(words) : words[i] \in X}
ExpectedPlaces ==
  UNION {{k} \X {i \in 1 .. Len(tokens[k].spoken) : tokens[k].spoken[i] \in HeardNegations} :
           k \in 1 .. Len(tokens)}

(* Negations heard and expected are counted by their places.               *)
LEMMA ExpectedFacts ==
  /\ NegationsExpected(AllPhrases) = Cardinality(ExpectedPlaces)
  /\ DOMAIN AllPhrases = 1 .. Len(tokens)
  /\ \A k \in 1 .. Len(tokens) : AllPhrases[k] = tokens[k].spoken
  /\ \A words : NegationsHeard(words) = Cardinality(Places(words, HeardNegations))
<1>1. /\ DOMAIN AllPhrases = 1 .. Len(tokens)
      /\ \A k \in 1 .. Len(tokens) : AllPhrases[k] = tokens[k].spoken
  BY DEF AllPhrases, Phrases
<1>2. NegationsExpected(AllPhrases)
        = Cardinality(UNION {{k} \X {i \in 1 .. Len(AllPhrases[k]) :
                                       AllPhrases[k][i] \in HeardNegations} :
                               k \in DOMAIN AllPhrases})
  BY DEF NegationsExpected
<1>3. UNION {{k} \X {i \in 1 .. Len(AllPhrases[k]) : AllPhrases[k][i] \in HeardNegations} :
               k \in DOMAIN AllPhrases} = ExpectedPlaces
  BY <1>1 DEF ExpectedPlaces
<1>4. \A words : NegationsHeard(words) = Cardinality(Places(words, HeardNegations))
  BY DEF NegationsHeard, Places
<1> QED
  BY <1>1, <1>2, <1>3, <1>4

(* A place of a negation in a token.                                       *)
LEMMA ExpectedElements ==
  \A p : p \in ExpectedPlaces <=>
    \E k \in 1 .. Len(tokens) : \E i \in 1 .. Len(tokens[k].spoken) :
      p = <<k, i>> /\ tokens[k].spoken[i] \in HeardNegations
BY DEF ExpectedPlaces

(* A text has finitely many places.                                        *)
LEMMA PlacesAreFinite ==
  ASSUME NEW words, NEW X, Len(words) \in Nat
  PROVE  IsFiniteSet(Places(words, X)) /\ Cardinality(Places(words, X)) \in Nat
<1>1. IsFiniteSet(1 .. Len(words))
  BY FS_Interval
<1> QED
  BY <1>1, FS_Subset, FS_CardinalityType DEF Places

(* The script says exactly the negations that its tokens have.             *)
LEMMA NegationsOfScript ==
  ASSUME TokenInv, SaidInv, Reached \in Bound
  PROVE  NegationsHeard(ScriptSpeech) = NegationsExpected(AllPhrases)
<1> DEFINE P == ExpectedPlaces
           Q == Places(ScriptSpeech, HeardNegations)
           f == [p \in P |-> Heard(p[1]) + p[2]]
<1>1. ASSUME NEW p \in P
      PROVE  /\ p[1] \in 1 .. Len(tokens) /\ p[2] \in 1 .. Len(tokens[p[1]].spoken)
             /\ p = <<p[1], p[2]>> /\ tokens[p[1]].spoken[p[2]] \in HeardNegations
  BY ExpectedElements
<1>2. f \in [P -> Q]
  <2> SUFFICES ASSUME NEW p \in P
               PROVE  Heard(p[1]) + p[2] \in Q
    OBVIOUS
  <2>1. PICK k \in 1 .. Len(tokens), i \in 1 .. Len(tokens[p[1]].spoken) :
          /\ p[1] = k /\ p[2] = i /\ tokens[k].spoken[i] \in HeardNegations
    BY <1>1
  <2>2. /\ Heard(k) + i \in 1 .. Len(ScriptSpeech)
        /\ ScriptSpeech[Heard(k) + i] = tokens[k].spoken[i]
    BY <2>1, TokenIsSpoken
  <2> QED
    BY <2>1, <2>2 DEF Places
<1>3. ASSUME NEW p \in P, NEW q \in P, f[p] = f[q]
      PROVE  p = q
  <2> DEFINE j == p[1]
             k == q[1]
  <2>1. /\ j \in 1 .. Len(tokens) /\ p[2] \in 1 .. Len(tokens[j].spoken)
        /\ k \in 1 .. Len(tokens) /\ q[2] \in 1 .. Len(tokens[k].spoken)
        /\ p = <<j, p[2]>> /\ q = <<k, q[2]>>
        /\ Heard(j) + p[2] = Heard(k) + q[2]
    BY <1>1, <1>3
  <2> HIDE DEF j, k, P, f
  <2>2. /\ Heard(j) \in Nat /\ Heard(k) \in Nat
        /\ Len(tokens[j].spoken) \in Nat /\ Len(tokens[k].spoken) \in Nat
    BY <2>1, TokenIsSpoken
  <2>3. Len(tokens) \in Nat
    BY TokenTypes
  <2>4. ~(j < k)
    <3> SUFFICES ASSUME j < k
                 PROVE  FALSE
      OBVIOUS
    <3>1. Heard(j) + Len(tokens[j].spoken) <= Heard(k)
      BY <2>1, TokensFollow
    <3> QED
      BY <2>1, <2>2, <3>1
  <2>5. ~(k < j)
    <3> SUFFICES ASSUME k < j
                 PROVE  FALSE
      OBVIOUS
    <3>1. Heard(k) + Len(tokens[k].spoken) <= Heard(j)
      BY <2>1, TokensFollow
    <3> QED
      BY <2>1, <2>2, <3>1
  <2>6. j = k
    BY <2>1, <2>3, <2>4, <2>5
  <2>7. p[2] = q[2]
    BY <2>1, <2>2, <2>6
  <2> QED
    BY <2>1, <2>6, <2>7
<1>4. ASSUME NEW n \in Q
      PROVE  \E p \in P : f[p] = n
  <2>1. n \in 1 .. Len(ScriptSpeech) /\ ScriptSpeech[n] \in HeardNegations
    BY DEF Places
  <2>2. PICK s : s = Speeches
    OBVIOUS
  <2>3. /\ s \in Seq(Seq(STRING)) /\ Len(s) = Len(Text(script)) /\ ScriptSpeech = FlattenSeq(s)
        /\ \A w \in 1 .. Len(Text(script)) : s[w] = SpeechAt(w)
    BY <2>2, SpeechesFacts
  <2>4. PICK w \in 1 .. Len(s) : n - Offset(s, w) \in 1 .. Len(s[w])
    BY <2>1, <2>3, FlattenPlace
  <2>5. PICK i \in 1 .. Len(s[w]) : i = n - Offset(s, w)
    BY <2>4
  <2>6. Offset(s, w) \in Nat /\ n \in Nat /\ Offset(s, w) + i = n
    <3>1. w \in 1 .. Len(s) + 1
      BY <2>3, TokenTypes
    <3> QED
      BY <2>1, <2>3, <2>5, <3>1, OffsetFacts
  <2>7. ScriptSpeech[n] = s[w][i]
    BY <2>3, <2>5, <2>6, FlattenAt, SMTT(30)
  <2>8. w \in 1 .. Len(Text(script)) /\ s[w] = SpeechAt(w)
    BY <2>3
  <2>9. PICK k \in 1 .. Len(tokens) : SaidBy(k, w)
    <3> SUFFICES ASSUME \A k \in 1 .. Len(tokens) : ~SaidBy(k, w)
                 PROVE  FALSE
      OBVIOUS
    <3>1. s[w] = <<Text(script)[w]>>
      BY <2>8, SpeechAtFacts
    <3>2. Len(s[w]) = 1 /\ s[w][1] = Text(script)[w]
      BY ONLY <3>1
    <3>3. i = 1
      BY <2>5, <3>2
    <3>4. Text(script)[w] \in Negations
      BY <2>1, <2>7, <3>2, <3>3, CriticalTokensAssumption
    <3>5. IsCovered(w) /\ found = {}
      BY <2>8, <3>4 DEF SaidInv, NegationsAreCovered
    <3> QED
      BY <3>5 DEF IsCovered, SaidBy
  <2>10. s[w] = IF tokens[k].said = w THEN tokens[k].spoken ELSE <<>>
    BY <2>8, <2>9, SpeechAtFacts
  <2>11. tokens[k].said = w /\ s[w] = tokens[k].spoken
    <3>1. s[w] # <<>>
      BY <2>5, EmptySeq
    <3> QED
      BY <2>10, <3>1
  <2>12. <<k, i>> \in P
    <3>1. i \in 1 .. Len(tokens[k].spoken) /\ tokens[k].spoken[i] \in HeardNegations
      BY <2>1, <2>5, <2>7, <2>11
    <3> QED
      BY <2>9, <3>1, ExpectedElements
  <2>13. Heard(k) = Offset(s, w)
    BY <2>2, <2>11 DEF Heard
  <2>14. f[<<k, i>>] = Heard(k) + i
    BY <2>12
  <2> QED
    BY <2>6, <2>12, <2>13, <2>14
<1>5. f \in Bijection(P, Q)
  <2> HIDE DEF f, P, Q
  <2>1. IsInjective(f)
    BY <1>2, <1>3 DEF IsInjective
  <2>2. f \in Injection(P, Q)
    BY <1>2, <2>1 DEF Injection
  <2>3. f \in Surjection(P, Q)
    BY <1>2, <1>4 DEF Surjection
  <2> QED
    BY <2>2, <2>3 DEF Bijection
<1>6. IsFiniteSet(Q)
  BY SpeechesFacts, PlacesAreFinite
<1> HIDE DEF f, P, Q
<1>7. Cardinality(P) = Cardinality(Q)
  <2>1. f \in Injection(P, Q) /\ f \in Surjection(P, Q)
    BY <1>5 DEF Bijection
  <2> QED
    BY <1>6, <2>1, FS_Injection
<1> QED
  BY <1>7, ExpectedFacts DEF P, Q

--------------------------------------------------------------------------
(***************************************************************************)
(* Faults. A word lost or inserted changes how often that word is heard.   *)
(***************************************************************************)

(* A text with one word more has that word more often.                     *)
LEMMA OneMore ==
  ASSUME NEW s, NEW t, NEW X, Len(s) \in Nat, Len(t) = Len(s) + 1, NEW i \in 1 .. Len(t),
         t[i] \in X, \A j \in 1 .. Len(s) : s[j] = t[IF j < i THEN j ELSE j + 1]
  PROVE  /\ IsFiniteSet(Places(s, X)) /\ IsFiniteSet(Places(t, X))
         /\ Cardinality(Places(s, X)) \in Nat /\ Cardinality(Places(t, X)) \in Nat
         /\ Cardinality(Places(s, X)) < Cardinality(Places(t, X))
<1> DEFINE P == Places(s, X)
           Q == Places(t, X) \ {i}
           f == [j \in P |-> IF j < i THEN j ELSE j + 1]
<1>1. IsFiniteSet(Places(t, X)) /\ IsFiniteSet(P)
  BY PlacesAreFinite
<1>2. f \in [P -> Q]
  <2> SUFFICES ASSUME NEW j \in P
               PROVE  (IF j < i THEN j ELSE j + 1) \in Q
    OBVIOUS
  <2>1. j \in 1 .. Len(s) /\ s[j] \in X
    BY DEF Places
  <2>2. PICK n : n = IF j < i THEN j ELSE j + 1
    OBVIOUS
  <2>3. n \in 1 .. Len(t) /\ n # i /\ t[n] \in X
    BY <2>1, <2>2
  <2> QED
    BY <2>2, <2>3 DEF Places
<1>3. \A j, k \in P : f[j] = f[k] => j = k
  <2>1. \A j \in P : j \in Nat
    BY DEF Places
  <2> QED
    BY <2>1
<1>4. i \in Places(t, X)
  BY DEF Places
<1> HIDE DEF f, P, Q
<1>5. f \in Injection(P, Q)
  BY <1>2, <1>3 DEF Injection, IsInjective
<1>6. IsFiniteSet(Q) /\ Cardinality(Q) = Cardinality(Places(t, X)) - 1
  BY <1>1, <1>4, FS_RemoveElement DEF Q
<1>7. Cardinality(P) <= Cardinality(Q)
  BY <1>5, <1>6, FS_Injection
<1>8. Cardinality(P) \in Nat /\ Cardinality(Places(t, X)) \in Nat
  BY PlacesAreFinite DEF P
<1> QED
  BY <1>1, <1>6, <1>7, <1>8 DEF P

(* A text without its i-th word.                                           *)
LEMMA RemoveFacts ==
  ASSUME NEW S, NEW s \in Seq(S), NEW i \in 1 .. Len(s)
  PROVE  /\ Len(RemoveAt(s, i)) \in Nat /\ Len(s) = Len(RemoveAt(s, i)) + 1
         /\ \A j \in 1 .. Len(RemoveAt(s, i)) :
              RemoveAt(s, i)[j] = s[IF j < i THEN j ELSE j + 1]
<1>1. PICK p, q : p = SubSeq(s, 1, i - 1) /\ q = SubSeq(s, i + 1, Len(s))
  OBVIOUS
<1>2. /\ p \in Seq(S) /\ Len(p) = i - 1 /\ \A j \in 1 .. i - 1 : p[j] = s[j]
  BY <1>1, PrefixFacts, i - 1 \in 0 .. Len(s)
<1>3. /\ q \in Seq(S) /\ Len(q) = Len(s) - i
      /\ \A j \in 1 .. Len(s) - i : q[j] = s[i + j]
  <2>1. \A j \in i + 1 .. Len(s) : s[j] \in S
    BY ElementOfSeq
  <2>2. i + 1 \in Int /\ Len(s) \in Int
    OBVIOUS
  <2>3. /\ q \in Seq(S) /\ Len(q) = (IF i + 1 <= Len(s) THEN Len(s) - (i + 1) + 1 ELSE 0)
        /\ \A j \in 1 .. Len(s) - (i + 1) + 1 : q[j] = s[(i + 1) + j - 1]
    BY <1>1, <2>1, <2>2, SubSeqProperties
  <2>4. Len(q) = Len(s) - i
    BY <2>2, <2>3
  <2>5. ASSUME NEW j \in 1 .. Len(s) - i
        PROVE  q[j] = s[i + j]
    <3>1. j \in 1 .. Len(s) - (i + 1) + 1 /\ (i + 1) + j - 1 = i + j
      BY <2>2
    <3> QED
      BY <2>3, <3>1
  <2> QED
    BY <2>3, <2>4, <2>5
<1>4. RemoveAt(s, i) = p \o q
  BY <1>1 DEF RemoveAt
<1>5. PICK r : r = p \o q
  OBVIOUS
<1>6. /\ Len(r) = Len(p) + Len(q)
      /\ \A j \in 1 .. Len(p) + Len(q) : r[j] = IF j <= Len(p) THEN p[j] ELSE q[j - Len(p)]
  BY <1>2, <1>3, <1>5, ConcatProperties
<1>7. Len(s) \in Nat /\ Len(r) = Len(s) - 1
  BY <1>2, <1>3, <1>6
<1>8. \A j \in 1 .. Len(r) : r[j] = s[IF j < i THEN j ELSE j + 1]
  <2> SUFFICES ASSUME NEW j \in 1 .. Len(r)
               PROVE  r[j] = s[IF j < i THEN j ELSE j + 1]
    OBVIOUS
  <2>1. CASE j < i
    BY <1>2, <1>6, <1>7, <2>1
  <2>2. CASE ~(j < i)
    <3>1. j - Len(p) \in 1 .. Len(s) - i /\ ~(j <= Len(p)) /\ i + (j - Len(p)) = j + 1
      BY <1>2, <1>7, <2>2
    <3>2. r[j] = q[j - Len(p)]
      BY <1>6, <3>1
    <3> QED
      BY <1>3, <2>2, <3>1, <3>2
  <2> QED
    BY <2>1, <2>2
<1>9. RemoveAt(s, i) = r
  BY <1>4, <1>5
<1> HIDE <1>1
<1>10. Len(s) = Len(r) + 1 /\ Len(r) \in Nat
  BY <1>7
<1> QED
  BY <1>8, <1>9, <1>10

(* A text with one word more.                                              *)
LEMMA InsertFacts ==
  ASSUME NEW S, NEW s \in Seq(S), NEW e \in S, NEW i \in 1 .. Len(s) + 1
  PROVE  /\ Len(InsertAt(s, i, e)) = Len(s) + 1 /\ InsertAt(s, i, e)[i] = e
         /\ \A j \in 1 .. Len(s) : s[j] = InsertAt(s, i, e)[IF j < i THEN j ELSE j + 1]
<1>1. PICK p, q : p = SubSeq(s, 1, i - 1) /\ q = SubSeq(s, i, Len(s))
  OBVIOUS
<1>2. /\ p \in Seq(S) /\ Len(p) = i - 1 /\ \A j \in 1 .. i - 1 : p[j] = s[j]
  BY <1>1, PrefixFacts, i - 1 \in 0 .. Len(s)
<1>3. /\ q \in Seq(S) /\ Len(q) = Len(s) - i + 1
      /\ \A j \in 1 .. Len(s) - i + 1 : q[j] = s[i + j - 1]
  <2>1. \A j \in i .. Len(s) : s[j] \in S
    BY ElementOfSeq
  <2>2. i \in Int /\ Len(s) \in Int
    OBVIOUS
  <2>3. /\ q \in Seq(S) /\ Len(q) = (IF i <= Len(s) THEN Len(s) - i + 1 ELSE 0)
        /\ \A j \in 1 .. Len(s) - i + 1 : q[j] = s[i + j - 1]
    BY <1>1, <2>1, <2>2, SubSeqProperties
  <2> QED
    BY <2>2, <2>3
<1>4. PICK o : o = p \o <<e>>
  OBVIOUS
<1>5. /\ o \in Seq(S) /\ Len(o) = i /\ o[i] = e /\ \A j \in 1 .. i - 1 : o[j] = s[j]
  <2>1. o = Append(p, e)
    BY <1>2, <1>4, AppendIsConcat
  <2> QED
    BY <1>2, <2>1, AppendProperties
<1>6. PICK r : r = o \o q
  OBVIOUS
<1>7. InsertAt(s, i, e) = r
  BY <1>1, <1>4, <1>6 DEF InsertAt
<1>8. /\ Len(r) = Len(o) + Len(q)
      /\ \A j \in 1 .. Len(o) + Len(q) : r[j] = IF j <= Len(o) THEN o[j] ELSE q[j - Len(o)]
  BY <1>3, <1>5, <1>6, ConcatProperties
<1>9. Len(s) \in Nat /\ Len(r) = Len(s) + 1 /\ r[i] = e
  BY <1>3, <1>5, <1>8
<1>10. \A j \in 1 .. Len(s) : s[j] = r[IF j < i THEN j ELSE j + 1]
  <2> SUFFICES ASSUME NEW j \in 1 .. Len(s)
               PROVE  s[j] = r[IF j < i THEN j ELSE j + 1]
    OBVIOUS
  <2>1. CASE j < i
    BY <1>5, <1>8, <1>9, <2>1
  <2>2. CASE ~(j < i)
    <3>1. /\ (j + 1) - Len(o) \in 1 .. Len(s) - i + 1 /\ ~(j + 1 <= Len(o))
          /\ i + ((j + 1) - Len(o)) - 1 = j /\ j + 1 \in 1 .. Len(o) + Len(q)
      BY <1>3, <1>5, <1>9, <2>2
    <3>2. r[j + 1] = q[(j + 1) - Len(o)]
      BY <1>8, <3>1
    <3> QED
      BY <1>3, <2>2, <3>1, <3>2
  <2> QED
    BY <2>1, <2>2
<1> QED
  BY <1>7, <1>9, <1>10

(* Negations heard are counted by their places.                            *)
LEMMA NegationsAreCounted ==
  ASSUME NEW words, Len(words) \in Nat
  PROVE  /\ NegationsHeard(words) = Cardinality(Places(words, HeardNegations))
         /\ NegationsHeard(words) \in Nat
BY ExpectedFacts, PlacesAreFinite

(* A word occurs no more often than it is there.                           *)
LEMMA WordOccurs ==
  ASSUME NEW word, NEW words, Len(words) \in Nat
  PROVE  /\ Occurrences(<<word>>, words) \in Nat
         /\ Occurrences(<<word>>, words) <= Cardinality(Places(words, {word}))
<1>1. PICK O : O = {i \in 1 .. Len(words) :
                      /\ <<word>> # <<>> /\ OccursAt(<<word>>, words, i)
                      /\ \/ HasNegation(<<word>>) \/ i = 1
                         \/ words[i - 1] \notin HeardNegations}
  OBVIOUS
<1>2. Occurrences(<<word>>, words) = Cardinality(O)
  BY <1>1 DEF Occurrences
<1>3. O \subseteq Places(words, {word})
  <2> SUFFICES ASSUME NEW i \in O
               PROVE  i \in Places(words, {word})
    OBVIOUS
  <2>1. i \in 1 .. Len(words) /\ OccursAt(<<word>>, words, i)
    BY <1>1
  <2>2. PICK n \in Int : n = i + Len(<<word>>) - 1
    <3>1. Len(<<word>>) = 1 /\ i \in Int
      BY <2>1
    <3> QED
      BY <3>1
  <2>3. n = i /\ SubSeq(words, i, n) = <<word>>
    BY <2>1, <2>2 DEF OccursAt
  <2>4. PICK S : S = {words[i]}
    OBVIOUS
  <2>5. PICK m \in Int : m = i
    BY <2>1
  <2>6. PICK u : u = SubSeq(words, m, n)
    OBVIOUS
  <2>7. \A j \in m .. n : words[j] \in S
    BY <2>3, <2>4, <2>5
  <2>8. u \in Seq(S)
    BY <2>6, <2>7, SubSeqProperties
  <2>9. u = <<word>>
    BY ONLY <2>3, <2>5, <2>6
  <2>10. Len(u) = 1 /\ u[1] = word
    BY ONLY <2>9
  <2>11. u[1] \in S
    BY <2>8, <2>10, ElementOfSeq
  <2>12. words[i] = word
    BY <2>4, <2>10, <2>11
  <2> QED
    BY <2>1, <2>12 DEF Places
<1>4. IsFiniteSet(Places(words, {word}))
  BY PlacesAreFinite
<1>5. IsFiniteSet(O) /\ Cardinality(O) <= Cardinality(Places(words, {word}))
  BY <1>3, <1>4, FS_Subset
<1> QED
  BY <1>2, <1>5, FS_CardinalityType

(* The master as the transcriber hears it.                                 *)
IsHeard ==
  \/ fault.kind \in {"none", "untimed", "foreign"} /\ heard = master
  \/ /\ fault.kind = "lost" /\ fault.at \in 1 .. Len(master)
     /\ fault.word = master[fault.at] /\ heard = RemoveAt(master, fault.at)
  \/ /\ fault.kind = "inserted" /\ fault.at \in 1 .. Len(master) + 1
     /\ heard = InsertAt(master, fault.at, fault.word)
Passes == heard # <<>> /\ fault.kind # "foreign" /\ IsFaithful(AllPhrases, heard)

(* What passes has the negations of the master, if there are tokens.       *)
LEMMA PassingFacts ==
  ASSUME TokenInv, SaidInv, Reached \in Bound, master = ScriptSpeech, Passes
  PROVE  /\ tokens = <<>> => NegationsHeard(master) = 0
         /\ tokens # <<>> => NegationsHeard(heard) = NegationsHeard(master)
         /\ \A k \in 1 .. Len(tokens) :
              Required(AllPhrases, tokens[k].spoken) <= Occurrences(tokens[k].spoken, heard)
<1>1. NegationsHeard(master) = NegationsExpected(AllPhrases)
  BY NegationsOfScript
<1>2. ASSUME tokens = <<>>
      PROVE  NegationsHeard(master) = 0
  <2>1. Len(tokens) = 0
    BY <1>2
  <2>2. 1 .. Len(tokens) = {}
    BY <2>1
  <2>3. ExpectedPlaces = {}
    BY <2>2, ExpectedElements
  <2> QED
    BY <1>1, <2>3, ExpectedFacts, FS_EmptySet
<1>3. \A k \in 1 .. Len(tokens) : AllHeard(AllPhrases, heard)
                                    /\ NegationsHeard(heard) = NegationsExpected(AllPhrases)
  BY ExpectedFacts DEF Passes, IsFaithful
<1>4. ASSUME tokens # <<>>
      PROVE  NegationsHeard(heard) = NegationsHeard(master)
  <2>1. 1 \in 1 .. Len(tokens)
    <3>1. PICK S : tokens \in Seq(S)
      BY DEF TokenInv, BoundInv
    <3> QED
      BY <1>4, <3>1, EmptySeq
  <2> QED
    BY <1>1, <1>3, <2>1
<1>5. \A k \in 1 .. Len(tokens) :
        Required(AllPhrases, tokens[k].spoken) <= Occurrences(tokens[k].spoken, heard)
  BY <1>3, ExpectedFacts DEF AllHeard
<1> QED
  BY <1>2, <1>4, <1>5

(* A transcript that passes has lost no negation and no token that was     *)
(* just the lost word, and has gained no negation.                         *)
LEMMA PassingIsFaithful ==
  ASSUME TokenInv, SaidInv, Reached \in Bound, master = ScriptSpeech, IsHeard, Passes
  PROVE  /\ fault.kind = "lost" => fault.word \notin HeardNegations /\ ~LosesToken
         /\ fault.kind = "inserted" /\ fault.word \in HeardNegations => tokens = <<>>
<1>1. master \in Seq(STRING) /\ Len(master) \in Nat
  BY SpeechesFacts
<1>2. ASSUME fault.kind = "lost"
      PROVE  fault.word \notin HeardNegations /\ ~LosesToken
  <2>1. PICK i \in 1 .. Len(master) :
          fault.at = i /\ fault.word = master[i] /\ heard = RemoveAt(master, i)
    BY <1>2 DEF IsHeard
  <2>2. /\ Len(heard) \in Nat /\ Len(master) = Len(heard) + 1
        /\ \A j \in 1 .. Len(heard) : heard[j] = master[IF j < i THEN j ELSE j + 1]
    BY <1>1, <2>1, RemoveFacts
  <2>3. \A X : master[i] \in X =>
          /\ Cardinality(Places(heard, X)) < Cardinality(Places(master, X))
          /\ Cardinality(Places(heard, X)) \in Nat /\ Cardinality(Places(master, X)) \in Nat
    BY <2>2, OneMore
  <2>4. ASSUME fault.word \in HeardNegations
        PROVE  FALSE
    <3>1. /\ NegationsHeard(heard) < NegationsHeard(master)
          /\ NegationsHeard(heard) \in Nat /\ NegationsHeard(master) \in Nat
      BY <1>1, <2>1, <2>2, <2>3, <2>4, NegationsAreCounted
    <3> QED
      BY <3>1, PassingFacts
  <2>5. ASSUME LosesToken
        PROVE  FALSE
    <3>1. PICK t \in ToSet(tokens) :
            /\ t.spoken = <<fault.word>>
            /\ Cardinality({j \in 1 .. Len(master) : master[j] = fault.word})
                 = Required(AllPhrases, t.spoken)
      BY <2>5 DEF LosesToken
    <3>2. PICK k \in 1 .. Len(tokens) : t = tokens[k]
      BY DEF ToSet
    <3>3. Required(AllPhrases, <<fault.word>>) <= Occurrences(<<fault.word>>, heard)
      BY <3>1, <3>2, PassingFacts
    <3>4. {j \in 1 .. Len(master) : master[j] = fault.word} = Places(master, {fault.word})
      BY DEF Places
    <3>5. /\ Occurrences(<<fault.word>>, heard) \in Nat
          /\ Occurrences(<<fault.word>>, heard) <= Cardinality(Places(heard, {fault.word}))
      BY <2>2, WordOccurs
    <3>6. /\ Cardinality(Places(heard, {fault.word})) < Cardinality(Places(master, {fault.word}))
          /\ Cardinality(Places(heard, {fault.word})) \in Nat
          /\ Cardinality(Places(master, {fault.word})) \in Nat
      BY <2>1, <2>3
    <3>7. Cardinality(Places(master, {fault.word})) <= Occurrences(<<fault.word>>, heard)
      <4>1. Required(AllPhrases, <<fault.word>>) = Cardinality(Places(master, {fault.word}))
        BY ONLY <3>1, <3>4, Zenon
      <4> QED
        BY <3>3, <4>1
    <3> QED
      BY <3>5, <3>6, <3>7
  <2> QED
    BY <2>4, <2>5
<1>3. ASSUME fault.kind = "inserted", fault.word \in HeardNegations, tokens # <<>>
      PROVE  FALSE
  <2>1. PICK i \in 1 .. Len(master) + 1 :
          fault.at = i /\ heard = InsertAt(master, i, fault.word)
    BY <1>3 DEF IsHeard
  <2>2. PICK S : S = STRING \cup {fault.word}
    OBVIOUS
  <2>3. master \in Seq(S) /\ fault.word \in S
    <3>1. STRING \subseteq S
      BY <2>2
    <3>2. \A j \in 1 .. Len(master) : master[j] \in S
      BY <1>1, <3>1, ElementOfSeq
    <3> QED
      BY <1>1, <2>2, <3>2
  <2>4. /\ Len(heard) = Len(master) + 1 /\ heard[i] = fault.word
        /\ \A j \in 1 .. Len(master) : master[j] = heard[IF j < i THEN j ELSE j + 1]
    BY <2>1, <2>3, InsertFacts
  <2>5. Cardinality(Places(master, HeardNegations)) < Cardinality(Places(heard, HeardNegations))
    BY <1>1, <1>3, <2>1, <2>4, OneMore
  <2>6. /\ NegationsHeard(master) < NegationsHeard(heard)
        /\ NegationsHeard(heard) \in Nat /\ NegationsHeard(master) \in Nat
    BY <1>1, <2>4, <2>5, NegationsAreCounted
  <2> QED
    BY <1>3, <2>6, PassingFacts
<1> QED
  BY <1>2, <1>3

(* Each token's phrase occurs where the token is spoken, unless a token    *)
(* follows a negation.                                                     *)
LEMMA TokenOccurs ==
  ASSUME TokenInv, SaidInv, ~FollowsNegation, master = ScriptSpeech,
         NEW k \in 1 .. Len(tokens), tokens[k].spoken # <<>>
  PROVE  LET p == tokens[k].spoken
             i == Heard(k) + 1
         IN /\ i \in 1 .. Len(master) /\ OccursAt(p, master, i)
            /\ i = 1 \/ master[i - 1] \notin HeardNegations
<1>1. PICK p : p = tokens[k].spoken
  OBVIOUS
<1>2. p \in Seq(STRING) /\ p # <<>> /\ Len(p) \in Nat /\ Len(p) # 0
  <2>1. p \in Seq(STRING)
    BY <1>1, TokenTypes
  <2> QED
    BY <1>1, <2>1, EmptySeq
<1>3. master \in Seq(STRING) /\ Len(master) \in Nat
  BY SpeechesFacts
<1>4. PICK i \in Nat : i = Heard(k) + 1
  BY TokenIsSpoken
<1>5. PICK n \in Nat : n = i + Len(p) - 1
  BY <1>2, <1>4, TokenIsSpoken
<1>6. /\ n <= Len(master) /\ i \in 1 .. Len(master)
      /\ \A j \in 1 .. Len(p) : /\ i + j - 1 \in 1 .. Len(master)
                                /\ master[i + j - 1] = p[j]
  <2>1. /\ Heard(k) \in Nat /\ Heard(k) + Len(p) <= Len(master)
        /\ \A j \in 1 .. Len(p) : /\ Heard(k) + j \in 1 .. Len(master)
                                  /\ master[Heard(k) + j] = p[j]
    BY <1>1, TokenIsSpoken
  <2>2. \A j \in 1 .. Len(p) : i + j - 1 = Heard(k) + j
    BY <1>4, <2>1
  <2>3. n <= Len(master) /\ i \in 1 .. Len(master)
    BY <1>2, <1>3, <1>4, <1>5, <2>1
  <2>4. \A j \in 1 .. Len(p) : /\ i + j - 1 \in 1 .. Len(master)
                               /\ master[i + j - 1] = p[j]
    <3> SUFFICES ASSUME NEW j \in 1 .. Len(p)
                 PROVE  i + j - 1 \in 1 .. Len(master) /\ master[i + j - 1] = p[j]
      OBVIOUS
    <3>1. PICK m : m = Heard(k) + j
      OBVIOUS
    <3>2. m \in 1 .. Len(master) /\ master[m] = p[j]
      BY <2>1, <3>1
    <3>3. i + j - 1 = m
      BY <2>2, <3>1
    <3> QED
      BY <3>2, <3>3
  <2> QED
    BY <2>3, <2>4
<1>7. PICK u : u = SubSeq(master, i, n)
  OBVIOUS
<1>8. u = p
  <2>1. \A j \in i .. n : master[j] \in STRING
    BY <1>3, <1>4, <1>6, ElementOfSeq
  <2>2. /\ u \in Seq(STRING) /\ Len(u) = (IF i <= n THEN n - i + 1 ELSE 0)
        /\ \A j \in 1 .. n - i + 1 : u[j] = master[i + j - 1]
    BY <1>7, <2>1, SubSeqProperties
  <2>3. Len(u) = Len(p) /\ \A j \in 1 .. Len(u) : u[j] = p[j]
    BY <1>2, <1>5, <1>6, <2>2
  <2> QED
    BY <1>2, <2>2, <2>3, SeqEqual
<1>9. OccursAt(p, master, i)
  BY <1>5, <1>6, <1>7, <1>8 DEF OccursAt
<1>10. i = 1 \/ master[i - 1] \notin HeardNegations
  <2> SUFFICES ASSUME i # 1, master[i - 1] \in HeardNegations
               PROVE  FALSE
    OBVIOUS
  <2>1. i \in 2 .. Len(master)
    BY <1>3, <1>6
  <2>2. tokens[k] \in ToSet(tokens)
    BY DEF ToSet
  <2> QED
    BY <1>1, <1>9, <2>1, <2>2 DEF FollowsNegation
<1> QED
  BY <1>1, <1>4, <1>6, <1>9, <1>10

(* A faithful reading is refused only where a token follows a negation.    *)
LEMMA FaithfulReadingPasses ==
  ASSUME TokenInv, SaidInv, Reached \in Bound, ~FollowsNegation, master = ScriptSpeech,
         \A k \in 1 .. Len(tokens) : tokens[k].spoken # <<>>
  PROVE  IsFaithful(AllPhrases, master)
<1>1. NegationsHeard(master) = NegationsExpected(AllPhrases)
  BY NegationsOfScript
<1>2. ASSUME NEW k \in 1 .. Len(tokens)
      PROVE  Required(AllPhrases, tokens[k].spoken) <= Occurrences(tokens[k].spoken, master)
  <2>1. PICK p : p = tokens[k].spoken
    OBVIOUS
  <2> DEFINE R == {j \in 1 .. Len(tokens) : tokens[j].spoken = p}
             O == {i \in 1 .. Len(master) :
                     /\ p # <<>> /\ OccursAt(p, master, i)
                     /\ HasNegation(p) \/ i = 1 \/ master[i - 1] \notin HeardNegations}
             f == [j \in R |-> Heard(j) + 1]
  <2>2. f \in [R -> O]
    <3> SUFFICES ASSUME NEW j \in R
                 PROVE  Heard(j) + 1 \in O
      OBVIOUS
    <3>1. j \in 1 .. Len(tokens) /\ tokens[j].spoken = p /\ p # <<>>
      OBVIOUS
    <3>2. PICK i : i = Heard(j) + 1
      OBVIOUS
    <3>3. /\ i \in 1 .. Len(master) /\ OccursAt(p, master, i)
          /\ i = 1 \/ master[i - 1] \notin HeardNegations
      BY <3>1, <3>2, TokenOccurs
    <3> QED
      BY <3>1, <3>2, <3>3
  <2>3. ASSUME NEW i \in R, NEW j \in R, f[i] = f[j]
        PROVE  i = j
    <3>1. /\ i \in 1 .. Len(tokens) /\ j \in 1 .. Len(tokens)
          /\ tokens[i].spoken # <<>> /\ tokens[j].spoken # <<>>
          /\ Heard(i) + 1 = Heard(j) + 1
      BY <2>3
    <3> HIDE DEF R, O, f
    <3>2. /\ Heard(i) \in Nat /\ Heard(j) \in Nat
          /\ Len(tokens[i].spoken) \in Nat /\ Len(tokens[i].spoken) # 0
          /\ Len(tokens[j].spoken) \in Nat /\ Len(tokens[j].spoken) # 0
      <4>1. tokens[i].spoken \in Seq(STRING) /\ tokens[j].spoken \in Seq(STRING)
        BY <3>1, TokenTypes
      <4> QED
        BY <3>1, <4>1, TokenIsSpoken, EmptySeq
    <3>3. ~(i < j)
      BY <3>1, <3>2, TokensFollow
    <3>4. ~(j < i)
      BY <3>1, <3>2, TokensFollow
    <3> QED
      BY <3>1, <3>3, <3>4, TokenTypes
  <2>4. IsFiniteSet(O)
    <3>1. IsFiniteSet(1 .. Len(master))
      BY SpeechesFacts, FS_Interval
    <3> QED
      BY <3>1, FS_Subset
  <2>5. Required(AllPhrases, p) = Cardinality(R)
    <3>1. {j \in DOMAIN AllPhrases : AllPhrases[j] = p} = R
      BY ExpectedFacts
    <3> QED
      BY <3>1 DEF Required
  <2>6. Occurrences(p, master) = Cardinality(O)
    BY DEF Occurrences
  <2> HIDE DEF R, O, f
  <2>7. f \in Injection(R, O)
    BY <2>2, <2>3 DEF Injection, IsInjective
  <2>8. Cardinality(R) <= Cardinality(O)
    BY <2>4, <2>7, FS_Injection
  <2> QED
    BY <2>1, <2>5, <2>6, <2>8
<1>3. AllHeard(AllPhrases, master)
  BY <1>2, ExpectedFacts DEF AllHeard
<1> QED
  BY <1>1, <1>3 DEF IsFaithful

--------------------------------------------------------------------------
(***************************************************************************)
(* Mastering. Takes at different positions have one order, in which        *)
(* positions are the places; flattening the segments' speeches, which are  *)
(* consecutive ranges of the script's, gives the script's speech.          *)
(***************************************************************************)

(* Flattening consecutive ranges of a sequence, one after the other,       *)
(* flattens the sequence.                                                  *)
LEMMA FlattenParts ==
  ASSUME NEW S, NEW s \in Seq(Seq(S)), NEW parts \in Seq(Seq(S)), NEW end,
         \A k \in 0 .. Len(parts) : end[k] \in 0 .. Len(s),
         end[0] = 0, end[Len(parts)] = Len(s),
         \A k \in 1 .. Len(parts) :
           /\ end[k - 1] <= end[k]
           /\ parts[k] = FlattenSeq(SubSeq(s, end[k - 1] + 1, end[k]))
  PROVE  FlattenSeq(parts) = FlattenSeq(s)
<1> DEFINE Same(k) == FlattenSeq(SubSeq(parts, 1, k)) = FlattenSeq(SubSeq(s, 1, end[k]))
           T == {k \in Int : k \in 0 .. Len(parts) => Same(k)}
<1>1. Len(parts) \in Nat /\ Len(s) \in Nat
  OBVIOUS
<1>2. Same(0)
  <2>1. SubSeq(parts, 1, 0) = <<>> /\ SubSeq(s, 1, 0) = <<>>
    BY EmptySeq, PrefixFacts, <1>1
  <2> QED
    BY <2>1
<1>3. ASSUME NEW k \in 1 .. Len(parts), Same(k - 1)
      PROVE  Same(k)
  <2>1. PICK a \in Nat, b \in Nat : a = end[k - 1] /\ b = end[k]
    <3>1. k - 1 \in 0 .. Len(parts) /\ k \in 0 .. Len(parts)
      BY <1>1
    <3>2. end[k - 1] \in 0 .. Len(s) /\ end[k] \in 0 .. Len(s)
      BY <3>1
    <3> QED
      BY <1>1, <3>2
  <2>2. a <= b /\ b <= Len(s) /\ parts[k] = FlattenSeq(SubSeq(s, a + 1, b))
    <3>1. k \in 0 .. Len(parts)
      BY <1>1
    <3>2. end[k] \in 0 .. Len(s)
      BY <3>1
    <3> QED
      BY <1>1, <2>1, <3>2
  <2>3. PICK p, q : p = SubSeq(s, 1, a) /\ q = SubSeq(s, a + 1, b)
    OBVIOUS
  <2>4. p \o q = SubSeq(s, 1, b)
    <3>1. /\ 1 \in 1 .. Len(s) + 1 /\ a \in 1 - 1 .. Len(s) /\ b \in a .. Len(s)
      BY <1>1, <2>2
    <3> QED
      BY <2>3, <3>1, ConcatAdjacentSubSeq
  <2>5. p \in Seq(Seq(S)) /\ q \in Seq(Seq(S))
    <3>1. p \in Seq(Seq(S))
      BY <1>1, <2>2, <2>3, PrefixFacts
    <3>2. \A j \in a + 1 .. b : s[j] \in Seq(S)
      BY <1>1, <2>2, ElementOfSeq, SMTT(30)
    <3>3. a + 1 \in Int /\ b \in Int
      OBVIOUS
    <3>4. q \in Seq(Seq(S))
      BY <2>3, <3>2, <3>3, SubSeqProperties
    <3> QED
      BY <3>1, <3>4
  <2>6. FlattenSeq(SubSeq(s, 1, b)) = FlattenSeq(p) \o FlattenSeq(q)
    BY <2>4, <2>5, FlattenConcat
  <2>7. FlattenSeq(SubSeq(parts, 1, k)) = FlattenSeq(SubSeq(parts, 1, k - 1)) \o parts[k]
    BY FlattenPrefix
  <2>8. FlattenSeq(SubSeq(parts, 1, k - 1)) = FlattenSeq(p) /\ parts[k] = FlattenSeq(q)
    BY <1>3, <2>1, <2>2, <2>3
  <2>9. FlattenSeq(SubSeq(parts, 1, k)) = FlattenSeq(SubSeq(s, 1, b))
    BY <2>6, <2>7, <2>8
  <2> QED
    BY <2>1, <2>9
<1> HIDE DEF Same
<1>4. 0 \in T
  BY <1>2
<1>5. ASSUME NEW n \in Int, 0 <= n, n \in T
      PROVE  n + 1 \in T
  <2>1. CASE n + 1 \in 0 .. Len(parts)
    <3>1. n \in 0 .. Len(parts) /\ n + 1 \in 1 .. Len(parts) /\ (n + 1) - 1 = n
      BY <1>1, <1>5, <2>1
    <3>2. Same((n + 1) - 1)
      BY <1>5, <3>1
    <3>3. Same(n + 1)
      BY <1>3, <3>1, <3>2
    <3> QED
      BY <3>3
  <2>2. CASE n + 1 \notin 0 .. Len(parts)
    BY <2>2
  <2> QED
    BY <2>1, <2>2
<1> HIDE DEF T
<1>6. \A n \in Int : 0 <= n => n \in T
  <2>1. 0 \in Int /\ \A n \in Int : 0 <= n /\ n \in T => n + 1 \in T
    BY <1>5
  <2> QED
    BY ONLY <1>4, <2>1, Induct
<1>7. Same(Len(parts))
  BY <1>1, <1>6 DEF T
<1>8. SubSeq(parts, 1, Len(parts)) = parts /\ SubSeq(s, 1, Len(s)) = s
  BY SubSeqFull
<1> QED
  BY <1>7, <1>8 DEF Same

(* Numbers that increase within their own range are in their places.       *)
LEMMA IncreasingIsIdentity ==
  ASSUME NEW n \in Nat, NEW f \in [1 .. n -> 1 .. n],
         \A i, j \in 1 .. n : i < j => f[i] < f[j]
  PROVE  \A i \in 1 .. n : f[i] = i
<1> DEFINE U == {i \in Int : i \in 1 .. n => i <= f[i]}
           D == {d \in Int : n - d \in 1 .. n => f[n - d] <= n - d}
<1>1. \A i \in 1 .. n : f[i] \in Int /\ 1 <= f[i] /\ f[i] <= n
  OBVIOUS
<1>2. 1 \in U
  BY <1>1
<1>3. ASSUME NEW i \in Int, 1 <= i, i \in U
      PROVE  i + 1 \in U
  <2> SUFFICES ASSUME i + 1 \in 1 .. n
               PROVE  i + 1 <= f[i + 1]
    OBVIOUS
  <2>1. i \in 1 .. n /\ f[i] < f[i + 1] /\ i <= f[i]
    BY <1>3
  <2> QED
    BY <1>1, <2>1
<1>4. 0 \in D
  BY <1>1
<1>5. ASSUME NEW d \in Int, 0 <= d, d \in D
      PROVE  d + 1 \in D
  <2> SUFFICES ASSUME n - (d + 1) \in 1 .. n
               PROVE  f[n - (d + 1)] <= n - (d + 1)
    OBVIOUS
  <2>1. PICK i \in Int, j \in Int : i = n - (d + 1) /\ j = n - d
    OBVIOUS
  <2>2. i \in 1 .. n /\ j \in 1 .. n /\ i < j /\ j = i + 1
    BY <1>5, <2>1
  <2>3. f[i] < f[j] /\ f[j] <= j
    BY <1>5, <2>1, <2>2
  <2>4. f[i] <= i
    BY <1>1, <2>2, <2>3
  <2> QED
    BY <2>1, <2>4
<1> HIDE DEF U, D
<1>6. \A i \in Int : 1 <= i => i \in U
  <2>1. 1 \in Int /\ \A i \in Int : 1 <= i /\ i \in U => i + 1 \in U
    BY <1>3
  <2> QED
    BY ONLY <1>2, <2>1, Induct
<1>7. \A d \in Int : 0 <= d => d \in D
  <2>1. 0 \in Int /\ \A d \in Int : 0 <= d /\ d \in D => d + 1 \in D
    BY <1>5
  <2> QED
    BY ONLY <1>4, <2>1, Induct
<1>8. ASSUME NEW i \in 1 .. n
      PROVE  f[i] = i
  <2>1. i <= f[i]
    BY <1>6 DEF U
  <2>2. n - i \in Int /\ 0 <= n - i /\ n - (n - i) = i
    OBVIOUS
  <2>3. n - i \in D
    BY <1>7, <2>2
  <2>4. f[i] <= i
    <3>1. PICK d \in Int : d = n - i
      OBVIOUS
    <3>2. n - d = i /\ d \in D
      BY <2>3, <3>1
    <3>3. n - d \in 1 .. n => f[n - d] <= n - d
      BY <3>2 DEF D
    <3> QED
      BY <3>2, <3>3
  <2> QED
    BY <1>1, <2>1, <2>4
<1> QED
  BY <1>8

(* Takes at different positions have one order.                            *)
LEMMA InOrderFacts ==
  ASSUME NEW n \in Nat, NEW parts, DOMAIN parts = 1 .. n, Len(parts) = n,
         \A i \in 1 .. n : parts[i].position \in 1 .. n,
         \A i, j \in 1 .. n : parts[i].position = parts[j].position => i = j
  PROVE  /\ InOrder(parts) \in [1 .. n -> ToSet(parts)]
         /\ \A i \in 1 .. n : InOrder(parts)[i].position = i
<1> DEFINE order == [i \in 1 .. n |-> parts[i].position]
<1>1. Len(parts) = n /\ DOMAIN parts = 1 .. n
  OBVIOUS
<1>2. ToSet(parts) = {parts[i] : i \in 1 .. n}
  BY <1>1 DEF ToSet
<1>3. order \in Surjection(1 .. n, 1 .. n)
  <2>1. order \in Injection(1 .. n, 1 .. n)
    BY DEF Injection, IsInjective
  <2>2. IsFiniteSet(1 .. n)
    BY FS_Interval
  <2> QED
    BY <2>1, <2>2, FS_Injection
<1>4. \A p \in 1 .. n : \E i \in 1 .. n : order[i] = p
  BY <1>3 DEF Surjection
<1> DEFINE t == [p \in 1 .. n |-> parts[CHOOSE i \in 1 .. n : order[i] = p]]
           IsOrdered(s) == \A i, j \in 1 .. n : i < j => s[i].position < s[j].position
<1>5. \A p \in 1 .. n : t[p] \in ToSet(parts) /\ t[p].position = p
  <2> SUFFICES ASSUME NEW p \in 1 .. n
               PROVE  t[p] \in ToSet(parts) /\ t[p].position = p
    OBVIOUS
  <2>1. PICK i \in 1 .. n : i = CHOOSE j \in 1 .. n : order[j] = p
    BY <1>4
  <2>2. order[i] = p
    BY <1>4, <2>1
  <2>3. t[p] = parts[i]
    BY <2>1
  <2>4. parts[i].position = p
    BY <2>2
  <2> QED
    BY <1>2, <2>3, <2>4
<1>6. t \in [1 .. n -> ToSet(parts)] /\ IsOrdered(t)
  <2>1. t \in [1 .. n -> ToSet(parts)]
    BY <1>5
  <2> QED
    BY <1>5, <2>1
<1>7. InOrder(parts) = CHOOSE s \in [1 .. n -> ToSet(parts)] : IsOrdered(s)
  BY <1>1 DEF InOrder
<1> HIDE DEF t
<1>8. PICK s : s = InOrder(parts)
  OBVIOUS
<1>9. s \in [1 .. n -> ToSet(parts)] /\ IsOrdered(s)
  BY <1>6, <1>7, <1>8
<1>10. \A i \in 1 .. n : s[i].position \in 1 .. n
  <2> SUFFICES ASSUME NEW i \in 1 .. n
               PROVE  s[i].position \in 1 .. n
    OBVIOUS
  <2>1. PICK j \in 1 .. n : s[i] = parts[j]
    <3>1. s[i] \in ToSet(parts)
      BY <1>9
    <3> QED
      BY <1>2, <3>1
  <2> QED
    BY <2>1
<1>11. \A i \in 1 .. n : s[i].position = i
  <2> DEFINE f == [i \in 1 .. n |-> s[i].position]
  <2>1. f \in [1 .. n -> 1 .. n] /\ \A i, j \in 1 .. n : i < j => f[i] < f[j]
    BY <1>9, <1>10
  <2> HIDE DEF f
  <2>2. \A i \in 1 .. n : f[i] = i
    BY <2>1, IncreasingIsIdentity
  <2> QED
    BY <2>2 DEF f
<1> HIDE DEF IsOrdered
<1> QED
  BY <1>8, <1>9, <1>11

(* Where the speech of a segment ends, by the words of the script.         *)
SpeechEnd(k) == IF k = 0 THEN 0 ELSE FirstWord(script, segments[k].last + 1) - 1
(* What the segments say, in order.                                        *)
SegmentSpeeches == [k \in 1 .. Len(segments) |-> SegmentSpeech(k)]

(* A segment's speech begins where that of the segment before it ends, and *)
(* the last one ends with the script.                                      *)
LEMMA SpeechEndFacts ==
  ASSUME TokenInv, SaidInv, SegmentInv, Reached \in Segmented
  PROVE  /\ \A k \in 0 .. Len(segments) : SpeechEnd(k) \in 0 .. Len(Text(script))
         /\ SpeechEnd(Len(segments)) = Len(Text(script))
         /\ \A k \in 1 .. Len(segments) :
              /\ SpeechEnd(k - 1) <= SpeechEnd(k)
              /\ FirstWord(script, segments[k].first) = SpeechEnd(k - 1) + 1
              /\ FirstWord(script, segments[k].last + 1) = SpeechEnd(k) + 1
<1>1. script \in Seq(ScriptTurn) /\ Len(Text(script)) \in Nat /\ Len(script) \in Nat
  BY TokenTypes
<1>2. Len(segments) \in Nat /\ Len(segments) # 0 /\ segments[Len(segments)].last = Len(script)
  <2>1. segments \in Seq([first : Nat, last : Nat]) /\ segments # <<>>
    BY DEF SegmentInv
  <2> QED
    BY <2>1, EmptySeq DEF SegmentInv
<1>3. ASSUME NEW k \in 1 .. Len(segments)
      PROVE  /\ segments[k].first \in 1 .. Len(script) /\ segments[k].last \in 1 .. Len(script)
             /\ segments[k].first <= segments[k].last
  <2>1. segments[k].first \in Nat /\ segments[k].last \in Nat
    BY SegmentTypes DEF SegmentInv
  <2>2. IsSegment(k)
    BY DEF SegmentInv
  <2>3. PICK f \in Nat, l \in Nat : f = segments[k].first /\ l = segments[k].last
    BY <2>1
  <2>4. 1 <= f /\ f <= l /\ l <= Len(script)
    BY <2>2, <2>3 DEF IsSegment
  <2> QED
    BY <1>1, <2>3, <2>4
<1>4. ASSUME NEW k \in 1 .. Len(segments)
      PROVE  /\ FirstWord(script, segments[k].last + 1) = SpeechEnd(k) + 1
             /\ SpeechEnd(k) \in 0 .. Len(Text(script))
  <2>1. PICK l \in 1 .. Len(script) : l = segments[k].last
    BY <1>3
  <2>2. /\ FirstWord(script, l + 1) \in Nat /\ 1 <= FirstWord(script, l + 1)
        /\ FirstWord(script, l + 1) <= FirstWord(script, Len(script) + 1)
        /\ FirstWord(script, Len(script) + 1) = 1 + Len(Text(script))
    <3>1. /\ l + 1 \in 1 .. Len(script) + 1
          /\ Len(script) + 1 \in l + 1 .. Len(script) + 1
      BY <1>1
    <3> QED
      BY <1>1, <3>1, FirstWordFacts
  <2>3. SpeechEnd(k) = FirstWord(script, l + 1) - 1
    <3>1. k # 0
      BY <1>2
    <3> QED
      BY <2>1, <3>1 DEF SpeechEnd
  <2>4. PICK w \in Nat : w = FirstWord(script, l + 1)
    BY <2>2
  <2>5. SpeechEnd(k) = w - 1 /\ 1 <= w /\ w <= 1 + Len(Text(script))
    BY <2>2, <2>3, <2>4
  <2>6. SpeechEnd(k) \in 0 .. Len(Text(script)) /\ w = SpeechEnd(k) + 1
    BY <1>1, <2>5
  <2> QED
    BY <2>1, <2>4, <2>6
<1>5. SpeechEnd(0) = 0
  BY DEF SpeechEnd
<1>6. SpeechEnd(Len(segments)) = Len(Text(script))
  <2>1. Len(segments) \in 1 .. Len(segments)
    BY <1>2
  <2>2. FirstWord(script, Len(script) + 1) = SpeechEnd(Len(segments)) + 1
    BY <1>2, <1>4, <2>1
  <2>3. FirstWord(script, Len(script) + 1) = 1 + Len(Text(script))
    BY <1>1, FirstWordFacts
  <2>4. SpeechEnd(Len(segments)) \in 0 .. Len(Text(script))
    BY <1>4, <2>1
  <2> QED
    BY <1>1, <2>2, <2>3, <2>4
<1>7. ASSUME NEW k \in 1 .. Len(segments)
      PROVE  FirstWord(script, segments[k].first) = SpeechEnd(k - 1) + 1
  <2>1. CASE k = 1
    <3>1. segments[k].first = 1
      BY <2>1 DEF SegmentInv, IsSegment
    <3>2. FirstWord(script, 1) = 1
      BY <1>1, FirstWordFacts
    <3> QED
      BY <1>5, <2>1, <3>1, <3>2
  <2>2. CASE k # 1
    <3>1. PICK j \in 1 .. Len(segments) : j = k - 1
      BY <1>2, <2>2
    <3>2. j < Len(segments) /\ j + 1 = k
      BY <1>2, <3>1
    <3>3. segments[k].first = segments[j].last + 1
      BY <3>2 DEF SegmentInv, IsSegment
    <3> QED
      BY <1>4, <3>1, <3>3
  <2> QED
    BY <2>1, <2>2
<1>8. ASSUME NEW k \in 1 .. Len(segments)
      PROVE  SpeechEnd(k - 1) <= SpeechEnd(k)
  <2>1. PICK f \in 1 .. Len(script), l \in 1 .. Len(script) :
          f = segments[k].first /\ l = segments[k].last /\ f <= l
    BY <1>3
  <2>2. FirstWord(script, f) <= FirstWord(script, l + 1)
    <3>1. f \in 1 .. Len(script) + 1 /\ l + 1 \in f .. Len(script) + 1
      BY <1>1, <2>1
    <3> QED
      BY <1>1, <3>1, FirstWordFacts
  <2>3. SpeechEnd(k - 1) + 1 <= SpeechEnd(k) + 1
    BY <1>4, <1>7, <2>1, <2>2
  <2>4. SpeechEnd(k - 1) \in Int /\ SpeechEnd(k) \in Int
    <3>1. SpeechEnd(k) \in Int
      BY <1>4
    <3>2. SpeechEnd(k - 1) \in Int
      <4>1. CASE k = 1
        BY <1>5, <4>1
      <4>2. CASE k # 1
        <5>1. k - 1 \in 1 .. Len(segments)
          BY <1>2, <4>2
        <5> QED
          BY <1>4, <5>1
      <4> QED
        BY <4>1, <4>2
    <3> QED
      BY <3>1, <3>2
  <2> QED
    BY <2>3, <2>4
<1>9. ASSUME NEW k \in 0 .. Len(segments)
      PROVE  SpeechEnd(k) \in 0 .. Len(Text(script))
  <2>1. k = 0 \/ k \in 1 .. Len(segments)
    BY <1>2
  <2> QED
    BY <1>1, <1>4, <1>5, <2>1
<1> QED
  BY <1>4, <1>6, <1>7, <1>8, <1>9

(* A segment says some words of the script in a row.                       *)
LEMMA SegmentSpeechIsRange ==
  ASSUME TokenInv, SaidInv, SegmentInv, Reached \in Segmented, NEW k \in 1 .. Len(segments)
  PROVE  /\ SegmentSpeech(k) \in Seq(STRING)
         /\ SegmentSpeech(k)
              = FlattenSeq(SubSeq(Speeches, SpeechEnd(k - 1) + 1, SpeechEnd(k)))
<1>1. Len(segments) \in Nat
  BY SegmentTypes DEF SegmentInv
<1>2. PICK a \in Nat, b \in Nat : a = SpeechEnd(k - 1) + 1 /\ b = SpeechEnd(k)
  <2>1. k - 1 \in 0 .. Len(segments) /\ k \in 0 .. Len(segments)
    BY <1>1
  <2>2. SpeechEnd(k - 1) \in 0 .. Len(Text(script)) /\ SpeechEnd(k) \in 0 .. Len(Text(script))
    BY <2>1, SpeechEndFacts
  <2> QED
    BY <2>2
<1>3. /\ FirstWord(script, segments[k].first) = a
      /\ FirstWord(script, segments[k].last + 1) = b + 1
  BY <1>2, SpeechEndFacts
<1>4. 1 <= a /\ a <= b + 1 /\ b <= Len(Text(script)) /\ Len(Text(script)) \in Nat
  <2>1. k - 1 \in 0 .. Len(segments) /\ k \in 0 .. Len(segments)
    BY <1>1
  <2>2. SpeechEnd(k - 1) \in 0 .. Len(Text(script)) /\ SpeechEnd(k) \in 0 .. Len(Text(script))
    BY <2>1, SpeechEndFacts
  <2>3. SpeechEnd(k - 1) <= SpeechEnd(k)
    BY SpeechEndFacts
  <2> QED
    BY <1>2, <2>2, <2>3, TokenTypes
<1>5. PICK n \in Nat : n = (b + 1) - a
  BY <1>4
<1>6. PICK u : u = [w \in 1 .. n |-> SpeechAt(a - 1 + w)]
  OBVIOUS
<1>7. SegmentSpeech(k) = FlattenSeq(u)
  BY <1>3, <1>5, <1>6 DEF SegmentSpeech
<1>8. PICK s : s = Speeches
  OBVIOUS
<1>9. /\ s \in Seq(Seq(STRING)) /\ Len(s) = Len(Text(script))
      /\ \A w \in 1 .. Len(Text(script)) : s[w] = SpeechAt(w)
  BY <1>8, SpeechesFacts
<1>10. PICK v : v = SubSeq(s, a, b)
  OBVIOUS
<1>11. /\ v \in Seq(Seq(STRING)) /\ Len(v) = n
       /\ \A w \in 1 .. n : v[w] = s[a + w - 1]
  <2>1. \A j \in a .. b : s[j] \in Seq(STRING)
    BY <1>4, <1>9, ElementOfSeq
  <2>2. /\ v \in Seq(Seq(STRING)) /\ Len(v) = (IF a <= b THEN b - a + 1 ELSE 0)
        /\ \A w \in 1 .. b - a + 1 : v[w] = s[a + w - 1]
    BY <1>10, <2>1, SubSeqProperties
  <2>3. b - a + 1 = n /\ (IF a <= b THEN b - a + 1 ELSE 0) = n
    BY <1>4, <1>5
  <2> QED
    BY <2>2, <2>3
<1>12. \A w \in 1 .. n : u[w] = v[w]
  <2> SUFFICES ASSUME NEW w \in 1 .. n
               PROVE  u[w] = v[w]
    OBVIOUS
  <2>1. PICK j \in Int : j = a - 1 + w
    OBVIOUS
  <2>2. j \in 1 .. Len(Text(script)) /\ j = a + w - 1
    BY <1>4, <1>5, <2>1
  <2>3. u[w] = SpeechAt(j)
    BY <1>6, <2>1
  <2>4. v[w] = s[j]
    BY <1>11, <2>2
  <2> QED
    BY <1>9, <2>2, <2>3, <2>4
<1>13. u = v
  <2>1. \A w \in 1 .. n : v[w] \in Seq(STRING)
    BY <1>11, ElementOfSeq
  <2>2. u \in Seq(Seq(STRING)) /\ Len(u) = n
    <3>1. \A w \in 1 .. n : SpeechAt(a - 1 + w) \in Seq(STRING)
      BY <1>6, <1>12, <2>1
    <3> QED
      BY <1>6, <3>1
  <2> QED
    BY <1>11, <1>12, <2>2, SeqEqual
<1>14. FlattenSeq(v) \in Seq(STRING)
  BY <1>11, FlattenPrefix
<1> QED
  BY <1>2, <1>7, <1>8, <1>10, <1>13, <1>14

(* The segments say what the script says.                                  *)
LEMMA SegmentsSayScript ==
  ASSUME TokenInv, SaidInv, SegmentInv, Reached \in Segmented
  PROVE  /\ SegmentSpeeches \in Seq(Seq(STRING)) /\ Len(SegmentSpeeches) = Len(segments)
         /\ FlattenSeq(SegmentSpeeches) = ScriptSpeech
<1>1. Len(segments) \in Nat
  BY SegmentTypes DEF SegmentInv
<1>2. PICK parts : parts = SegmentSpeeches
  OBVIOUS
<1>3. parts \in Seq(Seq(STRING)) /\ Len(parts) = Len(segments)
      /\ \A k \in 1 .. Len(segments) : parts[k] = SegmentSpeech(k)
  BY <1>1, <1>2, SegmentSpeechIsRange DEF SegmentSpeeches
<1>4. PICK s : s = Speeches
  OBVIOUS
<1>5. s \in Seq(Seq(STRING)) /\ Len(s) = Len(Text(script)) /\ ScriptSpeech = FlattenSeq(s)
  BY <1>4, SpeechesFacts
<1>6. PICK end : end = [k \in 0 .. Len(segments) |-> SpeechEnd(k)]
  OBVIOUS
<1>7. \A k \in 0 .. Len(parts) : end[k] = SpeechEnd(k) /\ end[k] \in 0 .. Len(s)
  BY <1>3, <1>5, <1>6, SpeechEndFacts
<1>8. end[0] = 0 /\ end[Len(parts)] = Len(s)
  <2>1. 0 \in 0 .. Len(parts) /\ Len(parts) \in 0 .. Len(parts)
    BY <1>1, <1>3
  <2>2. end[0] = SpeechEnd(0) /\ end[Len(parts)] = SpeechEnd(Len(segments))
    BY <1>3, <1>7, <2>1
  <2> QED
    BY <1>5, <2>2, SpeechEndFacts DEF SpeechEnd
<1>9. ASSUME NEW k \in 1 .. Len(parts)
      PROVE  /\ end[k - 1] <= end[k]
             /\ parts[k] = FlattenSeq(SubSeq(s, end[k - 1] + 1, end[k]))
  <2>1. k - 1 \in 0 .. Len(parts) /\ k \in 0 .. Len(parts) /\ k \in 1 .. Len(segments)
    BY <1>1, <1>3
  <2>2. end[k - 1] = SpeechEnd(k - 1) /\ end[k] = SpeechEnd(k)
    BY <1>7, <2>1
  <2>3. parts[k] = FlattenSeq(SubSeq(s, SpeechEnd(k - 1) + 1, SpeechEnd(k)))
    BY <1>3, <1>4, <2>1, SegmentSpeechIsRange
  <2>4. SpeechEnd(k - 1) <= SpeechEnd(k)
    BY <2>1, SpeechEndFacts
  <2> QED
    BY <2>2, <2>3, <2>4
<1>10. FlattenSeq(parts) = FlattenSeq(s)
  BY <1>3, <1>5, <1>7, <1>8, <1>9, FlattenParts
<1> QED
  BY <1>2, <1>3, <1>5, <1>10

--------------------------------------------------------------------------
(***************************************************************************)
(* What is known of the audio, stage by stage (AudioInv).                  *)
(***************************************************************************)

(* Takes of segments, at the positions that the caller gave them.          *)
IsTaken ==
  \E order \in [1 .. Len(segments) -> 1 .. Len(segments)] :
    takes = [i \in 1 .. Len(segments) |->
               [position |-> order[i], words |-> SegmentSpeech(order[i])]]

(* What is known of the audio at each stage: the takes are of segments;    *)
(* past their gate tokens have words; a master says what the script says;  *)
(* a transcript is the master but for its fault; what is judged passes,    *)
(* and only what does not is refused.                                      *)
AudioInv ==
  /\ Reached \in Rendered => IsTaken
  /\ Reached \in Selected => \A k \in 1 .. Len(tokens) : tokens[k].spoken # <<>>
  /\ Reached \in Mastered => master = ScriptSpeech /\ master # <<>>
  /\ Reached \in Transcribed => IsHeard
  /\ Reached \in Judged => Passes
  /\ Reached = "packaged" => fault.kind # "untimed"
  /\ refused = "transcribed" => ~Passes

(* Each stage is reached through the ones before it.                       *)
LEMMA StagesAreNested ==
  /\ Judged \subseteq Transcribed /\ Transcribed \subseteq Mastered /\ Mastered \subseteq Selected
  /\ Selected \subseteq Rendered /\ Rendered \subseteq Segmented /\ Segmented \subseteq Checked
  /\ Checked \subseteq Bound /\ "packaged" \in Judged
BY DEF Judged, Transcribed, Mastered, Selected, Rendered, Segmented, Checked, Bound

(* What a script says depends on the script, its tokens and its segments.  *)
LEMMA SameSpeech ==
  ASSUME UNCHANGED <<script, tokens, segments>>
  PROVE  /\ ScriptSpeech' = ScriptSpeech /\ AllPhrases' = AllPhrases
         /\ \A k : SegmentSpeech(k)' = SegmentSpeech(k)
<1>1. \A w : SpeechAt(w)' = SpeechAt(w)
  BY DEF SpeechAt
<1>2. ScriptSpeech' = ScriptSpeech
  BY <1>1 DEF ScriptSpeech
<1>3. AllPhrases' = AllPhrases
  BY DEF AllPhrases, Phrases
<1>4. \A k : SegmentSpeech(k)' = SegmentSpeech(k)
  BY <1>1 DEF SegmentSpeech, FirstWord
<1> QED
  BY <1>2, <1>3, <1>4

(* What is known of the audio depends on it, the script and its tokens and *)
(* segments.                                                               *)
LEMMA SamePassing ==
  ASSUME UNCHANGED <<script, tokens, segments, audio>>
  PROVE  (Passes' <=> Passes) /\ (IsHeard' <=> IsHeard) /\ (IsTaken' <=> IsTaken)
<1>1. takes' = takes /\ master' = master /\ fault' = fault /\ heard' = heard
  BY DEF audio
<1>2. Passes' <=> Passes
  BY <1>1, SameSpeech DEF Passes
<1>3. IsHeard' <=> IsHeard
  BY <1>1 DEF IsHeard
<1>4. IsTaken' <=> IsTaken
  BY <1>1, SameSpeech DEF IsTaken
<1> QED
  BY <1>2, <1>3, <1>4

(* Initially nothing is known of audio.                                    *)
LEMMA AudioInit == Init => AudioInv
<1> SUFFICES ASSUME Init
             PROVE  AudioInv
  OBVIOUS
<1>1. stage = "profile" /\ refused = "none"
  BY DEF Init, PreparationInit
<1>2. Reached \notin Rendered /\ Reached # "packaged" /\ refused # "transcribed"
  BY <1>1 DEF Reached, Rendered, Selected, Mastered, Transcribed, Judged
<1> QED
  BY <1>2, StagesAreNested DEF AudioInv

(* Before anything is rendered, nothing is known of audio.                 *)
LEMMA PrepareAudio == RefusalInv /\ AudioInv /\ Prepare => AudioInv'
<1> SUFFICES ASSUME RefusalInv, AudioInv, PreparationStep
             PROVE  Reached' \notin Rendered /\ Reached' # "packaged" /\ refused' # "transcribed"
  BY StagesAreNested DEF AudioInv, Prepare
<1>1. CASE \/ LoadProfile \/ ReadFrontmatter \/ EndScan \/ ResolveMetadata \/ AdaptSource
           \/ ExtractTokens \/ MergeMatch \/ EndMerge \/ BindToken \/ EndBinding
           \/ SegmentScript \/ EndSegments
  <2>1. PICK ok, next : /\ Advance(ok, next)
                        /\ next \in {"frontmatter", "scanning", "metadata", "adapting", "adapted",
                                     "merging", "binding", "bound", "segmenting", "prepared"}
    BY <1>1 DEF LoadProfile, ReadFrontmatter, EndScan, ResolveMetadata, AdaptSource,
            ExtractTokens, MergeMatch, EndMerge, BindToken, EndBinding, SegmentScript, EndSegments
  <2>2. stage \in {"profile", "frontmatter", "scanning", "metadata", "adapting", "adapted",
                   "repaired", "merging", "binding", "bound", "segmenting"}
    BY <1>1 DEF LoadProfile, ReadFrontmatter, EndScan, ResolveMetadata, AdaptSource,
            ExtractTokens, MergeMatch, EndMerge, BindToken, EndBinding, SegmentScript, EndSegments
  <2>3. refused = "none" /\ refused' \in {refused, stage}
    BY <2>1, <2>2 DEF RefusalInv, Advance
  <2>4. Reached' \in {stage, next}
    BY <2>1, <2>2, ReachedFacts
  <2> QED
    BY <2>1, <2>2, <2>3, <2>4 DEF Rendered, Selected, Mastered, Transcribed, Judged
<1>2. CASE Scan \/ RepairTurn \/ AddTurn
  <2>1. /\ stage \in {"scanning", "adapted", "segmenting"} /\ refused' = refused
        /\ stage' \in {"scanning", "repaired", "segmenting"}
    BY <1>2 DEF Scan, RepairTurn, AddTurn
  <2> QED
    BY <2>1 DEF RefusalInv, Reached, Rendered, Selected, Mastered, Transcribed, Judged
<1> QED
  BY <1>1, <1>2 DEF PreparationStep

(* What is delivered are takes of segments.                                *)
LEMMA DeliverTakesAudio == RefusalInv /\ AudioInv /\ DeliverTakes => AudioInv'
<1> SUFFICES ASSUME RefusalInv, AudioInv, DeliverTakes
             PROVE  AudioInv'
  OBVIOUS
<1>1. UNCHANGED <<script, tokens, segments>> /\ refused' = "none" /\ stage' = "rendered"
  BY DEF DeliverTakes, RefusalInv, prepared
<1>2. Reached' = "rendered"
  BY <1>1 DEF Reached
<1>3. IsTaken'
  BY <1>1, SameSpeech DEF DeliverTakes, IsTaken
<1>4. Reached' \notin Selected /\ Reached' # "packaged"
  BY <1>2 DEF Selected, Mastered, Transcribed, Judged
<1> QED
  BY <1>1, <1>3, <1>4, StagesAreNested DEF AudioInv

(* A segment whose gate passes says all its tokens, so they have words.    *)
LEMMA JudgedTokens ==
  ASSUME TokenInv, SaidInv, SegmentInv, Reached \in Segmented,
         \A k \in 1 .. Len(segments) : IsFaithful(Phrases(TokensIn(k)), SegmentSpeech(k)),
         NEW t \in 1 .. Len(tokens)
  PROVE  tokens[t].spoken # <<>>
<1> SUFFICES ASSUME tokens[t].spoken = <<>>
             PROVE  FALSE
  OBVIOUS
<1>1. PICK k \in 1 .. Len(segments) : t \in TokensIn(k)
  BY TokensInFacts
<1>2. PICK ids : ids = TokensIn(k)
  OBVIOUS
<1>3. DOMAIN Phrases(ids) = ids /\ \A j \in ids : Phrases(ids)[j] = tokens[j].spoken
  BY DEF Phrases
<1>4. Required(Phrases(ids), <<>>) <= Occurrences(<<>>, SegmentSpeech(k))
  <2>1. IsFaithful(Phrases(ids), SegmentSpeech(k)) /\ t \in DOMAIN Phrases(ids)
    BY <1>1, <1>2, <1>3
  <2>2. AllHeard(Phrases(ids), SegmentSpeech(k))
    BY <2>1 DEF IsFaithful
  <2> QED
    BY <1>1, <1>2, <1>3, <2>2 DEF AllHeard
<1>5. Occurrences(<<>>, SegmentSpeech(k)) = 0
  <2>1. PICK O : O = {i \in 1 .. Len(SegmentSpeech(k)) :
                        /\ <<>> # <<>> /\ OccursAt(<<>>, SegmentSpeech(k), i)
                        /\ \/ HasNegation(<<>>) \/ i = 1
                           \/ SegmentSpeech(k)[i - 1] \notin HeardNegations}
    OBVIOUS
  <2>2. O = {}
    BY <2>1
  <2>3. Occurrences(<<>>, SegmentSpeech(k)) = Cardinality(O)
    BY <2>1 DEF Occurrences
  <2> QED
    BY <2>2, <2>3, FS_EmptySet
<1>6. PICK R : R = {j \in ids : tokens[j].spoken = <<>>}
  OBVIOUS
<1>7. Required(Phrases(ids), <<>>) = Cardinality(R)
  BY <1>3, <1>6 DEF Required
<1>8. IsFiniteSet(R)
  <2>1. IsFiniteSet(1 .. Len(tokens))
    BY TokenTypes, FS_Interval
  <2>2. R \subseteq 1 .. Len(tokens)
    BY <1>2, <1>6 DEF TokensIn
  <2> QED
    BY <2>1, <2>2, FS_Subset
<1>9. R # {}
  BY <1>1, <1>2, <1>6
<1>10. Cardinality(R) \in Nat /\ Cardinality(R) # 0
  BY <1>8, <1>9, FS_CardinalityType, FS_EmptySet
<1> QED
  BY <1>4, <1>5, <1>7, <1>10

(* The gate of the takes passes only tokens that have words.               *)
LEMMA JudgeTakesAudio == ScriptInv /\ AudioInv /\ JudgeTakes => AudioInv'
<1> SUFFICES ASSUME ScriptInv, AudioInv, JudgeTakes
             PROVE  AudioInv'
  OBVIOUS
<1>1. UNCHANGED <<script, tokens, segments, audio>> /\ stage = "rendered" /\ refused = "none"
  BY DEF JudgeTakes, ScriptInv, RefusalInv, prepared
<1>2. Reached = "rendered" /\ Reached \in Rendered /\ Reached \in Segmented
  BY <1>1 DEF Reached, Rendered, Segmented
<1>3. PICK ok : /\ Advance(ok, "selected")
                /\ ok => \A k \in 1 .. Len(segments) :
                           IsFaithful(Phrases(TokensIn(k)), SegmentSpeech(k))
  BY DEF JudgeTakes
<1>4. /\ refused' \in {"none", "rendered"}
      /\ (ok /\ Reached' = "selected") \/ Reached' = "rendered"
  BY <1>1, <1>3, ReachedFacts DEF Advance
<1>5. IsTaken'
  BY <1>1, <1>2, SamePassing DEF AudioInv
<1>6. ok => \A k \in 1 .. Len(tokens) : tokens[k].spoken # <<>>
  BY <1>2, <1>3, JudgedTokens DEF ScriptInv
<1>7. /\ Reached' \notin Mastered /\ Reached' # "packaged"
      /\ Reached' \in Selected => ok
  BY <1>4 DEF Selected, Mastered, Transcribed, Judged
<1> QED
  BY <1>1, <1>4, <1>5, <1>6, <1>7, StagesAreNested DEF AudioInv

(* Takes at different positions, put in order, say what the script says;   *)
(* that is not nothing, as no take is.                                     *)
LEMMA MasterSaysScript ==
  ASSUME ScriptInv, IsTaken, Reached \in Segmented,
         IsInjective([i \in 1 .. Len(takes) |-> takes[i].position]),
         \A i \in 1 .. Len(takes) : IsInspected(takes[i].words, request.mastering)
  PROVE  LET parts == InOrder(takes)
         IN /\ FlattenSeq([i \in 1 .. Len(parts) |-> parts[i].words]) = ScriptSpeech
            /\ ScriptSpeech # <<>>
<1>1. PICK n \in Nat : n = Len(segments)
  BY SegmentTypes DEF ScriptInv, SegmentInv
<1>2. PICK order \in [1 .. n -> 1 .. n] :
        takes = [i \in 1 .. n |-> [position |-> order[i], words |-> SegmentSpeech(order[i])]]
  BY <1>1 DEF IsTaken
<1>3. PICK says : says = SegmentSpeeches
  OBVIOUS
<1>4. /\ says \in Seq(Seq(STRING)) /\ Len(says) = n /\ FlattenSeq(says) = ScriptSpeech
      /\ \A k \in 1 .. n : says[k] = SegmentSpeech(k)
  BY <1>1, <1>3, SegmentsSayScript DEF ScriptInv, SegmentSpeeches
<1>5. takes = [i \in 1 .. n |-> [position |-> order[i], words |-> says[order[i]]]]
  BY <1>2, <1>4
<1>6. Len(takes) = n /\ \A i \in 1 .. n : /\ takes[i].position = order[i]
                                          /\ takes[i].words = says[order[i]]
  BY <1>5
<1>7. \A i, j \in 1 .. n : order[i] = order[j] => i = j
  BY <1>6 DEF IsInjective
<1>8. PICK parts : parts = InOrder(takes)
  OBVIOUS
<1>9. /\ parts \in [1 .. n -> ToSet(takes)]
      /\ \A i \in 1 .. n : parts[i] = [position |-> i, words |-> says[i]]
  <2>1. PICK t : t = takes
    OBVIOUS
  <2>2. /\ DOMAIN t = 1 .. n /\ Len(t) = n
        /\ \A i \in 1 .. n : t[i] = [position |-> order[i], words |-> says[order[i]]]
    BY <1>5, <1>6, <2>1
  <2>3. /\ \A i \in 1 .. n : t[i].position = order[i] /\ t[i].position \in 1 .. n
        /\ \A i, j \in 1 .. n : t[i].position = t[j].position => i = j
    BY <1>6, <1>7, <2>1, SMTT(30)
  <2>4. parts \in [1 .. n -> ToSet(t)] /\ \A i \in 1 .. n : parts[i].position = i
    <3>1. DOMAIN t = 1 .. n /\ Len(t) = n
      BY <2>2
    <3>2. \A i \in 1 .. n : t[i].position \in 1 .. n
      BY <2>3
    <3>3. \A i, j \in 1 .. n : t[i].position = t[j].position => i = j
      BY <2>3
    <3>4. /\ InOrder(t) \in [1 .. n -> ToSet(t)]
          /\ \A i \in 1 .. n : InOrder(t)[i].position = i
      BY <3>1, <3>2, <3>3, InOrderFacts
    <3> QED
      BY <1>8, <2>1, <3>4
  <2>5. ASSUME NEW i \in 1 .. n
        PROVE  parts[i] = [position |-> i, words |-> says[i]]
    <3>1. parts[i] \in {t[j] : j \in 1 .. n}
      BY <2>2, <2>4 DEF ToSet
    <3>2. PICK j \in 1 .. n : parts[i] = t[j]
      BY <3>1
    <3>3. order[j] = i
      BY <2>3, <2>4, <3>2
    <3> QED
      BY <2>2, <3>2, <3>3
  <2> QED
    BY <2>1, <2>4, <2>5
<1>10. Len(parts) = n
  BY <1>9
<1>11. [i \in 1 .. Len(parts) |-> parts[i].words] = says
  <2>1. \A i \in 1 .. n : parts[i].words = says[i]
    BY <1>9
  <2>2. says = [i \in 1 .. n |-> says[i]]
    BY <1>4
  <2> QED
    BY <1>10, <2>1, <2>2
<1>12. ScriptSpeech # <<>>
  <2>1. n # 0
    <3>1. segments \in Seq([first : Nat, last : Nat]) /\ segments # <<>>
      BY DEF ScriptInv, SegmentInv
    <3> QED
      BY <1>1, <3>1, EmptySeq
  <2>2. PICK k \in 1 .. n : k = order[1]
    BY <1>1, <2>1
  <2>3. request.mastering.shortest \in Nat \ {0}
    BY RequestsAssumption DEF ScriptInv, TokenInv, InputInv
  <2>4. request.mastering.shortest <= Len(says[k])
    BY <1>6, <2>1, <2>2, SMTT(30) DEF IsInspected
  <2>5. Len(says[k]) \in Nat
    BY <1>4, <2>2, ElementOfSeq
  <2>6. 1 \in 1 .. Len(says[k])
    <3>1. PICK low \in Nat, len \in Nat :
            low = request.mastering.shortest /\ len = Len(says[k])
      BY <2>3, <2>5
    <3>2. low # 0 /\ low <= len
      BY <2>3, <2>4, <3>1
    <3>3. 1 \in 1 .. len
      <4>1. len \in Int /\ 1 <= len
        BY <3>2
      <4> QED
        BY <4>1
    <3> QED
      BY ONLY <3>1, <3>3, Zenon
  <2>7. Offset(says, k) + 1 \in 1 .. Len(FlattenSeq(says))
    BY <1>4, <2>6, FlattenAt
  <2>8. Len(<<>>) = 0
    OBVIOUS
  <2> QED
    BY <1>4, <2>7, <2>8
<1> QED
  BY <1>4, <1>8, <1>11, <1>12

(* A master says what the script says.                                     *)
LEMMA MasterAudioStep == ScriptInv /\ AudioInv /\ MasterAudio => AudioInv'
<1> SUFFICES ASSUME ScriptInv, AudioInv, MasterAudio
             PROVE  AudioInv'
  OBVIOUS
<1>1. /\ UNCHANGED <<script, tokens, segments, takes>> /\ stage = "selected" /\ refused = "none"
  BY DEF MasterAudio, ScriptInv, RefusalInv, prepared
<1>2. Reached = "selected" /\ Reached \in Selected /\ Reached \in Rendered /\ Reached \in Segmented
  BY <1>1 DEF Reached, Selected, Rendered, Segmented
<1>3. PICK ok : /\ Advance(ok, "mastered")
                /\ ok => master' = ScriptSpeech /\ ScriptSpeech # <<>>
  <2>1. PICK parts : parts = InOrder(takes)
    OBVIOUS
  <2>2. PICK words : words = FlattenSeq([i \in 1 .. Len(parts) |-> parts[i].words])
    OBVIOUS
  <2>3. PICK ok :
          /\ master' = (IF ok THEN words ELSE <<>>) /\ Advance(ok, "mastered")
          /\ ok => /\ IsInjective([i \in 1 .. Len(takes) |-> takes[i].position])
                   /\ \A i \in 1 .. Len(takes) : IsInspected(takes[i].words, request.mastering)
    BY <2>1, <2>2 DEF MasterAudio
  <2>4. ok => words = ScriptSpeech /\ ScriptSpeech # <<>>
    BY <1>2, <2>1, <2>2, <2>3, MasterSaysScript DEF AudioInv
  <2> QED
    BY <2>3, <2>4
<1>4. /\ refused' \in {"none", "selected"}
      /\ (ok /\ Reached' = "mastered") \/ Reached' = "selected"
  BY <1>1, <1>3, ReachedFacts DEF Advance
<1>5. IsTaken'
  BY <1>1, <1>2, SameSpeech DEF AudioInv, IsTaken
<1>6. (\A k \in 1 .. Len(tokens) : tokens[k].spoken # <<>>)'
  BY <1>1, <1>2 DEF AudioInv
<1>7. /\ Reached' \notin Transcribed /\ Reached' # "packaged"
      /\ Reached' \in Mastered => ok
  BY <1>4 DEF Mastered, Transcribed, Judged
<1>8. ok => (master = ScriptSpeech /\ master # <<>>)'
  BY <1>1, <1>3, SameSpeech
<1> QED
  BY <1>4, <1>5, <1>6, <1>7, <1>8, StagesAreNested DEF AudioInv

(* A transcript differs from the master as its fault says.                 *)
LEMMA TranscribeAudio == ScriptInv /\ AudioInv /\ Transcribe => AudioInv'
<1> SUFFICES ASSUME ScriptInv, AudioInv, Transcribe
             PROVE  AudioInv'
  OBVIOUS
<1>1. /\ UNCHANGED <<script, tokens, segments, takes, master, refused>>
      /\ stage = "mastered" /\ refused = "none" /\ stage' = "transcribed"
  BY DEF Transcribe, ScriptInv, RefusalInv, prepared
<1>2. Reached = "mastered" /\ Reached \in Mastered /\ Reached \in Selected /\ Reached \in Rendered
  BY <1>1 DEF Reached, Mastered, Selected, Rendered
<1>3. Reached' = "transcribed"
  BY <1>1 DEF Reached
<1>4. IsHeard'
  BY <1>1 DEF Transcribe, IsHeard, NoFault
<1>5. IsTaken'
  BY <1>1, <1>2, SameSpeech DEF AudioInv, IsTaken
<1>6. (\A k \in 1 .. Len(tokens) : tokens[k].spoken # <<>>)'
  BY <1>1, <1>2 DEF AudioInv
<1>7. (master = ScriptSpeech /\ master # <<>>)'
  BY <1>1, <1>2, SameSpeech DEF AudioInv
<1>8. Reached' \notin Judged /\ Reached' # "packaged" /\ refused' # "transcribed"
  BY <1>1, <1>3 DEF Judged
<1> QED
  BY <1>4, <1>5, <1>6, <1>7, <1>8 DEF AudioInv

(* A step that only judges keeps all that is known of the audio.           *)
LEMMA JudgingKeepsAudio ==
  ASSUME AudioInv, UNCHANGED <<script, tokens, segments, audio>>, Reached \in Transcribed
  PROVE  /\ IsTaken' /\ (\A k \in 1 .. Len(tokens) : tokens[k].spoken # <<>>)'
         /\ (master = ScriptSpeech /\ master # <<>>)' /\ IsHeard'
<1>1. /\ Reached \in Rendered /\ Reached \in Selected /\ Reached \in Mastered
  BY StagesAreNested
<1>2. master' = master
  BY DEF audio
<1> QED
  BY <1>1, <1>2, SamePassing, SameSpeech DEF AudioInv

(* What is judged passes, and what is refused does not.                    *)
LEMMA EvaluateMasterAudio == ScriptInv /\ AudioInv /\ EvaluateMaster => AudioInv'
<1> SUFFICES ASSUME ScriptInv, AudioInv, EvaluateMaster
             PROVE  AudioInv'
  OBVIOUS
<1>1. /\ UNCHANGED <<script, tokens, segments, audio>> /\ stage = "transcribed"
      /\ refused = "none" /\ Advance(Passes, "judged")
  BY DEF EvaluateMaster, ScriptInv, RefusalInv, prepared, Passes
<1>2. Reached = "transcribed" /\ Reached \in Transcribed
  BY <1>1 DEF Reached, Transcribed
<1>3. \/ Passes /\ Reached' = "judged" /\ refused' = "none"
      \/ ~Passes /\ Reached' = "transcribed" /\ refused' = "transcribed"
  BY <1>1, ReachedFacts DEF Advance
<1>4. Passes' <=> Passes
  BY <1>1, SamePassing
<1>5. Reached' # "packaged" /\ (Reached' \in Judged => Passes)
  BY <1>3 DEF Judged
<1>6. refused' = "transcribed" => ~Passes
  BY <1>3
<1> QED
  BY <1>1, <1>2, <1>4, <1>5, <1>6, JudgingKeepsAudio DEF AudioInv

(* A package needs usable times.                                           *)
LEMMA GeneratePackageAudio == ScriptInv /\ AudioInv /\ GeneratePackage => AudioInv'
<1> SUFFICES ASSUME ScriptInv, AudioInv, GeneratePackage
             PROVE  AudioInv'
  OBVIOUS
<1>1. /\ UNCHANGED <<script, tokens, segments, audio>> /\ stage = "judged"
      /\ refused = "none"
  BY DEF GeneratePackage, ScriptInv, RefusalInv, prepared
<1>2. PICK ok : Advance(ok, "packaged") /\ (ok => fault.kind # "untimed")
  BY DEF GeneratePackage
<1>3. Reached = "judged" /\ Reached \in Judged /\ Reached \in Transcribed
  BY <1>1 DEF Reached, Judged, Transcribed
<1>4. /\ refused' \in {"none", "judged"}
      /\ (ok /\ Reached' = "packaged") \/ Reached' = "judged"
  BY <1>1, <1>2, ReachedFacts DEF Advance
<1>5. Passes'
  BY <1>1, <1>3, SamePassing DEF AudioInv
<1>6. Reached' = "packaged" => fault'.kind # "untimed"
  BY <1>1, <1>2, <1>4 DEF audio
<1>7. refused' # "transcribed"
  BY <1>4
<1> QED
  BY <1>1, <1>3, <1>5, <1>6, <1>7, JudgingKeepsAudio DEF AudioInv

(* A stuttering step changes nothing.                                      *)
LEMMA StutterAudio == AudioInv /\ UNCHANGED vars => AudioInv'
<1> SUFFICES ASSUME AudioInv, UNCHANGED vars
             PROVE  AudioInv'
  OBVIOUS
<1>1. /\ UNCHANGED <<script, tokens, segments, audio>> /\ Reached' = Reached
      /\ refused' = refused /\ fault' = fault /\ master' = master
  BY DEF vars, prepared, audio, Reached
<1> QED
  BY <1>1, SamePassing, SameSpeech DEF AudioInv

(* Every step keeps all that is known of the audio.                        *)
LEMMA AudioStep == ScriptInv /\ AudioInv /\ [Next]_vars => AudioInv'
BY PrepareAudio, DeliverTakesAudio, JudgeTakesAudio, MasterAudioStep, TranscribeAudio,
   EvaluateMasterAudio, GeneratePackageAudio, StutterAudio DEF Next, ScriptInv

(* What is known of the audio makes packages faithful.                     *)
LEMMA PackagesFollow == ScriptInv /\ AudioInv => PackagesAreFaithful
<1> SUFFICES ASSUME ScriptInv, AudioInv
             PROVE  PackagesAreFaithful
  OBVIOUS
<1>1. TokenInv /\ SaidInv
  BY DEF ScriptInv
<1>2. ASSUME stage = "packaged"
      PROVE  /\ master = ScriptSpeech
             /\ fault.kind \in {"none", "lost", "inserted"}
             /\ fault.kind = "lost" => fault.word \notin HeardNegations /\ ~LosesToken
             /\ fault.kind = "inserted" /\ fault.word \in HeardNegations => tokens = <<>>
  <2>1. Reached = "packaged"
    BY <1>2 DEF Reached
  <2>2. /\ Reached \in Judged /\ Reached \in Transcribed /\ Reached \in Mastered
        /\ Reached \in Bound
    BY <2>1, StagesAreNested
  <2>3. master = ScriptSpeech /\ IsHeard /\ Passes /\ fault.kind # "untimed"
    BY <2>1, <2>2 DEF AudioInv
  <2>4. fault.kind \in {"none", "lost", "inserted"}
    BY <2>3 DEF IsHeard, Passes
  <2> QED
    BY <1>1, <2>2, <2>3, <2>4, PassingIsFaithful
<1>3. ASSUME refused = "transcribed", fault.kind = "none"
      PROVE  FollowsNegation
  <2>1. Reached = "transcribed"
    BY <1>3 DEF ScriptInv, RefusalInv, Reached
  <2>2. /\ Reached \in Transcribed /\ Reached \in Mastered /\ Reached \in Selected
        /\ Reached \in Bound
    BY <2>1, StagesAreNested DEF Transcribed
  <2>3. /\ master = ScriptSpeech /\ master # <<>> /\ IsHeard /\ ~Passes
        /\ \A k \in 1 .. Len(tokens) : tokens[k].spoken # <<>>
    BY <1>3, <2>2 DEF AudioInv
  <2>4. heard = master
    BY <1>3, <2>3 DEF IsHeard
  <2>5. ~IsFaithful(AllPhrases, master)
    BY <1>3, <2>3, <2>4 DEF Passes
  <2> QED
    BY <1>1, <2>2, <2>3, <2>5, FaithfulReadingPasses
<1> QED
  BY <1>2, <1>3 DEF PackagesAreFaithful

(* A package says what its script says: its master has every segment once, *)
(* in order, and was heard as it is, or with one word less or more.  The   *)
(* missing word is none of which a one-word token needs every occurrence,  *)
(* and no negation; a negation too much passes only where there is no      *)
(* token; and a faithful reading is refused only where a token follows a   *)
(* negation.  (_validate_positions, _validate_request,                     *)
(* evaluate_critical_tokens, FinalMasterQaService.evaluate.)               *)
THEOREM PackagesAreFaithfulHolds == Spec => []PackagesAreFaithful
<1> DEFINE Inv == ScriptInv /\ AudioInv
<1>1. Init => Inv
  BY ScriptInit, AudioInit
<1>2. Inv /\ [Next]_vars => Inv'
  BY ScriptStep, AudioStep
<1>3. Inv => PackagesAreFaithful
  BY PackagesFollow
<1> HIDE DEF Inv
<1> QED
  BY <1>1, <1>2, <1>3, PTL DEF Spec
=============================================================================
