---------------------------- MODULE Content_proofs ----------------------------
(***************************************************************************)
(* Proofs about what ValidationService stores, for texts of any length.    *)
(*                                                                         *)
(* Cleaning keeps some positions of a text, in order, one pattern after    *)
(* another.  What a position of the result was in the text as it was       *)
(* received is found through Nth, which is increasing and finds every      *)
(* position that was kept (NthFacts); what stands between two positions of *)
(* the result stood between them in the text, or was dropped.              *)
(*                                                                         *)
(* Collapsing and trimming squeeze a text (Squeezes): they drop blanks     *)
(* only, and none between two other tokens.  So what was inside of a       *)
(* script element still is when script elements are dropped, and a text    *)
(* without markup gets no run of characters that it did not have.          *)
(***************************************************************************)
EXTENDS Content, FiniteSetTheorems, WellFoundedInduction, TLAPS

Texts == Seq(Tokens)

------------------------------------------------------------------------------
(* Positions that are kept. *)

\* Ranks count from 1, and grow with the position.
LEMMA RankFacts ==
  ASSUME NEW n \in Nat, NEW S \in SUBSET (1..n)
  PROVE  /\ IsFiniteSet(S) /\ Cardinality(S) \in Nat
         /\ \A p \in S : Rank(S, p) \in 1..Cardinality(S)
         /\ \A p, q \in S : p < q => Rank(S, p) < Rank(S, q)
  <1>0. \A p \in S : p \in Int
    OBVIOUS
  <1>1. IsFiniteSet(S) /\ Cardinality(S) \in Nat
    <2>1. IsFiniteSet(1..n)
      BY FS_Interval
    <2>2. IsFiniteSet(S)
      BY <2>1, FS_Subset
    <2> QED
      BY <2>2, FS_CardinalityType
  <1>2. ASSUME NEW p \in S
        PROVE  /\ IsFiniteSet({q \in S : q <= p})
               /\ Rank(S, p) \in Nat /\ Rank(S, p) <= Cardinality(S) /\ Rank(S, p) # 0
    <2>1. {q \in S : q <= p} \in SUBSET S /\ p \in {q \in S : q <= p}
      OBVIOUS
    <2>2. IsFiniteSet({q \in S : q <= p})
      BY <1>1, <2>1, FS_Subset
    <2>3. Cardinality({q \in S : q <= p}) <= Cardinality(S)
      BY <1>1, <2>1, FS_Subset
    <2>4. Cardinality({q \in S : q <= p}) # 0
      BY <2>1, <2>2, FS_EmptySet
    <2>5. Cardinality({q \in S : q <= p}) \in Nat
      BY <2>2, FS_CardinalityType
    <2> QED
      BY <2>2, <2>3, <2>4, <2>5 DEF Rank
  <1>3. ASSUME NEW p \in S, NEW q \in S, p < q
        PROVE  Rank(S, p) < Rank(S, q)
    <2> DEFINE P == {x \in S : x <= p}
               Q == {x \in S : x <= q}
    <2>1. P \in SUBSET Q /\ q \in Q /\ q \notin P
      <3>1. \A x \in S : x <= p => x <= q
        BY <1>0, <1>3
      <3>2. q <= q /\ ~(q <= p)
        BY <1>0, <1>3
      <3> QED
        BY <3>1, <3>2
    <2>2. IsFiniteSet(Q) /\ Rank(S, p) = Cardinality(P) /\ Rank(S, q) = Cardinality(Q)
      BY <1>2 DEF Rank
    <2> HIDE DEF P, Q
    <2>3. Cardinality(P) <= Cardinality(Q) /\ Cardinality(P) # Cardinality(Q)
      BY <2>1, <2>2, FS_Subset
    <2>4. Rank(S, p) \in Nat /\ Rank(S, q) \in Nat
      BY <1>2
    <2> QED
      BY <2>2, <2>3, <2>4
  <1>4. ASSUME NEW p \in S
        PROVE  Rank(S, p) \in 1..Cardinality(S)
    <2>1. Rank(S, p) \in Nat /\ Rank(S, p) <= Cardinality(S) /\ Rank(S, p) # 0
      BY <1>2
    <2> QED
      BY <1>1, <2>1
  <1> QED
    BY <1>1, <1>3, <1>4

\* Nth finds every position of S, in increasing order.
LEMMA NthFacts ==
  ASSUME NEW n \in Nat, NEW S \in SUBSET (1..n)
  PROVE  /\ Cardinality(S) \in Nat
         /\ \A i \in 1..Cardinality(S) : Nth(S, i) \in S
         /\ \A p \in S : \E i \in 1..Cardinality(S) : Nth(S, i) = p
         /\ \A i, j \in 1..Cardinality(S) : Nth(S, i) < Nth(S, j) <=> i < j
  <1> DEFINE m == Cardinality(S)
             f == [p \in S |-> Rank(S, p)]
  <1>1. /\ IsFiniteSet(S) /\ m \in Nat
        /\ \A p \in S : Rank(S, p) \in 1..m
        /\ \A p, q \in S : p < q => Rank(S, p) < Rank(S, q)
    BY RankFacts
  <1>2. \A p, q \in S : Rank(S, p) = Rank(S, q) => p = q
    <2> SUFFICES ASSUME NEW p \in S, NEW q \in S, p # q
                 PROVE  Rank(S, p) # Rank(S, q)
      OBVIOUS
    <2>1. p < q \/ q < p
      OBVIOUS
    <2>2. Rank(S, p) \in Int /\ Rank(S, q) \in Int
      BY <1>1
    <2> QED
      BY <1>1, <2>1, <2>2
  <1>3. f \in Surjection(S, 1..m)
    <2>1. f \in Injection(S, 1..m)
      <3>1. f \in [S -> 1..m] /\ \A p, q \in S : f[p] = f[q] => p = q
        BY <1>1, <1>2
      <3> HIDE DEF f, m
      <3> QED
        BY <3>1 DEF Injection, IsInjective
    <2>2. IsFiniteSet(1..m) /\ Cardinality(1..m) = m
      BY <1>1, FS_Interval
    <2> HIDE DEF f
    <2> QED
      BY <2>1, <2>2, FS_Injection
  <1>4. ASSUME NEW i \in 1..m
        PROVE  Nth(S, i) \in S /\ Rank(S, Nth(S, i)) = i
    <2>1. \E p \in S : Rank(S, p) = i
      BY <1>3 DEF Surjection
    <2> QED
      BY <2>1 DEF Nth
  <1>5. ASSUME NEW p \in S
        PROVE  \E i \in 1..m : Nth(S, i) = p
    BY <1>1, <1>2, <1>4
  <1>6. ASSUME NEW i \in 1..m, NEW j \in 1..m
        PROVE  Nth(S, i) < Nth(S, j) <=> i < j
    <2>1. PICK p \in S, q \in S : p = Nth(S, i) /\ q = Nth(S, j)
      BY <1>4
    <2>2. Rank(S, p) = i /\ Rank(S, q) = j /\ p \in Int /\ q \in Int
      BY <1>4, <2>1
    <2>3. p < q => i < j
      BY <1>1, <2>2
    <2>4. q < p => j < i
      BY <1>1, <2>2
    <2>5. p = q => i = j
      BY <2>2
    <2>6. i \in Int /\ j \in Int
      OBVIOUS
    <2>7. p < q <=> i < j
      BY <2>2, <2>3, <2>4, <2>5, <2>6
    <2> QED
      BY <2>1, <2>7
  <1> QED
    BY <1>1, <1>4, <1>5, <1>6

\* The positions of a text are the numbers from 1.
LEMMA Positions ==
  ASSUME NEW c \in Texts
  PROVE  /\ Len(c) \in Nat /\ DOMAIN c = 1..Len(c)
         /\ \A p \in DOMAIN c : c[p] \in Tokens
  BY DEF Texts

\* A text of which some positions are kept is a text of what stood there.
LEMMA KeptFacts ==
  ASSUME NEW c \in Texts, NEW S \in SUBSET DOMAIN c
  PROVE  /\ KeepAt(c, S) \in Texts
         /\ DOMAIN KeepAt(c, S) = 1..Cardinality(S)
         /\ \A i \in DOMAIN KeepAt(c, S) :
              Nth(S, i) \in S /\ KeepAt(c, S)[i] = c[Nth(S, i)]
         /\ \A p \in S : \E i \in DOMAIN KeepAt(c, S) : Nth(S, i) = p
         /\ \A i, j \in DOMAIN KeepAt(c, S) : Nth(S, i) < Nth(S, j) <=> i < j
  <1>1. /\ Cardinality(S) \in Nat
        /\ \A i \in 1..Cardinality(S) : Nth(S, i) \in S
        /\ \A p \in S : \E i \in 1..Cardinality(S) : Nth(S, i) = p
        /\ \A i, j \in 1..Cardinality(S) : Nth(S, i) < Nth(S, j) <=> i < j
    BY Positions, NthFacts
  <1>2. DOMAIN KeepAt(c, S) = 1..Cardinality(S)
        /\ \A i \in 1..Cardinality(S) : KeepAt(c, S)[i] = c[Nth(S, i)]
    BY DEF KeepAt
  <1>3. KeepAt(c, S) \in [1..Cardinality(S) -> Tokens]
    BY <1>1, Positions DEF KeepAt
  <1>4. KeepAt(c, S) \in Texts
    BY <1>1, <1>3 DEF Texts
  <1> QED
    BY <1>1, <1>2, <1>4

------------------------------------------------------------------------------
(* No tag survives. *)

\* Cleaning makes texts of texts.
LEMMA CleaningTypes ==
  ASSUME NEW c \in Texts
  PROVE  /\ DropNul(c) \in Texts /\ CollapseBlanks(c) \in Texts /\ Trim(c) \in Texts
         /\ DropScripts(c) \in Texts /\ DropTags(c) \in Texts
  <1>1. DropNul(c) \in Texts /\ Trim(c) \in Texts
        /\ DropScripts(c) \in Texts /\ DropTags(c) \in Texts
    BY KeptFacts DEF DropNul, Trim, DropScripts, DropTags
  <1>2. CollapseBlanks(c) \in Texts
    <2>1. PICK once \in Texts :
             CollapseBlanks(c) =
               [p \in DOMAIN once |-> IF once[p] \in Blanks THEN "space" ELSE once[p]]
      BY KeptFacts DEF CollapseBlanks
    <2>2. "space" \in Tokens
      BY DEF Tokens, Blanks
    <2>3. CollapseBlanks(c) \in [1..Len(once) -> Tokens] /\ Len(once) \in Nat
      BY <2>1, <2>2, Positions
    <2> QED
      BY <2>3 DEF Texts
  <1> QED
    BY <1>1, <1>2

\* Among positions there is a first.
LEMMA FirstPosition ==
  ASSUME NEW P \in SUBSET Nat, P # {}
  PROVE  \E m \in P : \A k \in P : m <= k
  <1>1. PICK m \in P : \A k \in P : <<k, m>> \notin OpToRel(<, Nat)
    BY WFMin, NatLessThanWellFounded, Zenon
  <1>2. \A k \in P : ~(k < m)
    BY <1>1, Zenon DEF OpToRel
  <1> QED
    BY <1>2

\* A "<" that is left has no ">" after it: the first one there would have closed a
\* tag that begins with it.
LEMMA TagsAreDropped ==
  ASSUME NEW c \in Texts
  PROVE  \A i \in DOMAIN DropTags(c) : \A j \in i..Len(DropTags(c)) :
            ~ (DropTags(c)[i] \in Openers /\ DropTags(c)[j] \in Closers)
  <1> DEFINE d == DropTags(c)
             S == DOMAIN c \ InTag(c)
  <1>1. d = KeepAt(c, S) /\ S \in SUBSET DOMAIN c
    BY DEF DropTags
  <1> HIDE DEF d, S
  <1> SUFFICES ASSUME NEW i \in DOMAIN d, NEW j \in i..Len(d),
                      d[i] \in Openers, d[j] \in Closers
               PROVE  FALSE
    BY DEF d
  <1>2. d \in Texts /\ j \in DOMAIN d /\ i \in Nat /\ j \in Nat /\ i <= j
    <2>1. d \in Texts
      BY <1>1, KeptFacts
    <2> QED
      BY <2>1, Positions
  <1>3. PICK p \in S, q \in S : p = Nth(S, i) /\ q = Nth(S, j)
    BY <1>1, <1>2, KeptFacts
  <1>4. p \in 1..Len(c) /\ q \in 1..Len(c) /\ Len(c) \in Nat /\ DOMAIN c = 1..Len(c)
    BY <1>1, Positions
  <1>5. c[p] \in Openers /\ c[q] \in Closers
    BY <1>1, <1>2, <1>3, KeptFacts
  <1>6. p <= q
    <2>1. Nth(S, j) < Nth(S, i) => j < i
      BY <1>1, <1>2, KeptFacts
    <2> QED
      BY <1>2, <1>3, <1>4, <2>1
  <1>7. PICK m \in p..Len(c) : c[m] \in Closers /\ \A k \in p..(m - 1) : c[k] \notin Closers
    <2> DEFINE P == {k \in p..Len(c) : c[k] \in Closers}
    <2>1. P \in SUBSET Nat /\ q \in P
      BY <1>4, <1>5, <1>6
    <2>2. PICK m \in P : \A k \in P : m <= k
      BY <2>1, FirstPosition
    <2>3. m \in p..Len(c) /\ c[m] \in Closers
      OBVIOUS
    <2>4. ASSUME NEW k \in p..(m - 1), c[k] \in Closers
          PROVE  FALSE
      <3>1. k \in P /\ ~(m <= k)
        BY <1>4, <2>3, <2>4
      <3> QED
        BY <2>2, <3>1
    <2> QED
      BY <2>3, <2>4
  <1>8. p \in InTag(c)
    <2>1. p \in 1..p
      BY <1>4
    <2> QED
      BY <1>4, <1>5, <1>7, <2>1 DEF InTag
  <1> QED
    BY <1>8 DEF S

\* A text that is stored is the received one, cleaned, and the received one met the
\* rules as it was.
Cleaned ==
  /\ content \in Texts
  /\ stage \in {"accepted", "stored"} => MeetsRules(content)
  /\ stage = "stored" => stored = SanitizeMessage(content)

\* Nothing but Sanitize stores a text, and only one that was accepted.
THEOREM CleanedInvariance == Spec => []Cleaned
  <1>1. Init => Cleaned
    <2>1. Contents \subseteq Texts
      BY ContentAssumption DEF Contents, BoundedSeq, SeqOf, Texts
    <2> QED
      BY <2>1 DEF Init, Cleaned
  <1>2. Cleaned /\ [Next]_vars => Cleaned'
    BY DEF Cleaned, Next, Accept, Reject, Sanitize, vars
  <1> QED
    BY <1>1, <1>2, PTL DEF Spec

\* No "<" that is stored has a ">" after it, for texts of any length: whatever the
\* earlier patterns removed and joined, the last one leaves no markup
\* (sanitizeMessage).
THEOREM NoMarkupStored == Spec => []NoTagSurvives
  <1>1. Cleaned => NoTagSurvives
    <2> SUFFICES ASSUME Cleaned, stage = "stored"
                 PROVE  \A i \in DOMAIN stored : \A j \in i..Len(stored) :
                           ~ (stored[i] \in Openers /\ stored[j] \in Closers)
      BY DEF NoTagSurvives
    <2>1. PICK c \in Texts : stored = DropTags(c)
      BY CleaningTypes DEF Cleaned, SanitizeMessage
    <2> QED
      BY <2>1, TagsAreDropped
  <1> QED
    BY <1>1, CleanedInvariance, PTL

------------------------------------------------------------------------------
(* What stands inside a script element is dropped with it. *)

\* Two tokens that stay the same when blanks are collapsed.
Alike(x, y) == x = y \/ (x \in Blanks /\ y \in Blanks)

\* The tokens of d come from c, position p of d from position f[p] of c, in order.
From(f, d, c) ==
  /\ f \in [DOMAIN d -> DOMAIN c]
  /\ \A i, j \in DOMAIN d : f[i] < f[j] <=> i < j
  /\ \A i \in DOMAIN d : Alike(d[i], c[f[i]])

\* All that d lacks is blanks, and none of those stood right behind a token that is
\* not a blank and that another one follows in d.
Squeezes(f, d, c) ==
  /\ From(f, d, c)
  /\ \A i \in DOMAIN d : i + 1 \in DOMAIN d /\ d[i] \notin Blanks => f[i + 1] = f[i] + 1
  /\ \A p \in DOMAIN c : c[p] \notin Blanks => \E i \in DOMAIN d : f[i] = p

\* A text of which some positions are kept comes from that text.
LEMMA KeptFrom ==
  ASSUME NEW c \in Texts, NEW S \in SUBSET DOMAIN c
  PROVE  \E f \in [DOMAIN KeepAt(c, S) -> S] :
            /\ From(f, KeepAt(c, S), c)
            /\ \A p \in S : \E i \in DOMAIN KeepAt(c, S) : f[i] = p
            /\ \A i \in DOMAIN KeepAt(c, S) : KeepAt(c, S)[i] = c[f[i]]
  <1> DEFINE d == KeepAt(c, S)
             f == [i \in DOMAIN d |-> Nth(S, i)]
  <1>1. /\ \A i \in DOMAIN d : Nth(S, i) \in S /\ d[i] = c[Nth(S, i)]
        /\ \A p \in S : \E i \in DOMAIN d : Nth(S, i) = p
        /\ \A i, j \in DOMAIN d : Nth(S, i) < Nth(S, j) <=> i < j
    BY KeptFacts
  <1> HIDE DEF d
  <1>2. /\ f \in [DOMAIN d -> S] /\ f \in [DOMAIN d -> DOMAIN c]
        /\ \A i \in DOMAIN d : f[i] = Nth(S, i)
    BY <1>1
  <1> HIDE DEF f
  <1>3. From(f, d, c)
    BY <1>1, <1>2 DEF From, Alike
  <1>4. \A p \in S : \E i \in DOMAIN d : f[i] = p
    BY <1>1, <1>2
  <1>5. \A i \in DOMAIN d : d[i] = c[f[i]]
    BY <1>1, <1>2
  <1> QED
    BY <1>2, <1>3, <1>4, <1>5 DEF d

\* Keeping all that is not blank, and what follows it, squeezes a text.
LEMMA KeptSqueezes ==
  ASSUME NEW c \in Texts, NEW S \in SUBSET DOMAIN c, NEW d \in Texts,
         DOMAIN d = DOMAIN KeepAt(c, S),
         \A i \in DOMAIN d : Alike(d[i], KeepAt(c, S)[i]),
         \A p \in DOMAIN c : c[p] \notin Blanks => p \in S,
         \A p, q \in S : c[p] \notin Blanks /\ p < q => p + 1 \in S
  PROVE  \E f : Squeezes(f, d, c)
  <1>1. PICK f \in [DOMAIN d -> S] :
           /\ From(f, KeepAt(c, S), c)
           /\ \A p \in S : \E i \in DOMAIN d : f[i] = p
           /\ \A i \in DOMAIN d : KeepAt(c, S)[i] = c[f[i]]
    BY KeptFrom
  <1>2. \A i \in DOMAIN d : Alike(d[i], c[f[i]])
    BY <1>1
  <1>3. From(f, d, c)
    BY <1>1, <1>2 DEF From
  <1>4. ASSUME NEW i \in DOMAIN d, i + 1 \in DOMAIN d, d[i] \notin Blanks
        PROVE  f[i + 1] = f[i] + 1
    <2>1. \A k \in DOMAIN d : f[k] \in S /\ f[k] \in Nat /\ k \in Nat
      BY <1>1, Positions
    <2>2. \A k, l \in DOMAIN d : f[k] < f[l] <=> k < l
      BY <1>3 DEF From
    <2>3. c[f[i]] \notin Blanks
      BY <1>2, <1>4 DEF Alike
    <2>4. f[i] < f[i + 1]
      BY <1>4, <2>1, <2>2
    <2>5. f[i] + 1 \in S
      BY <1>4, <2>1, <2>3, <2>4
    <2>6. PICK k \in DOMAIN d : f[k] = f[i] + 1
      BY <1>1, <2>5
    <2>7. i < k
      BY <2>1, <2>2, <2>6
    <2>8. ~ (i + 1 < k)
      <3>1. ~ (f[i + 1] < f[k])
        BY <1>4, <2>1, <2>4, <2>6
      <3> QED
        BY <1>4, <2>2, <3>1
    <2>9. k = i + 1
      BY <2>1, <2>7, <2>8
    <2> QED
      BY <2>6, <2>9
  <1>5. \A p \in DOMAIN c : c[p] \notin Blanks => \E i \in DOMAIN d : f[i] = p
    BY <1>1
  <1> QED
    BY <1>3, <1>4, <1>5 DEF Squeezes

\* Collapsing runs of blanks squeezes a text.
LEMMA CollapseSqueezes ==
  ASSUME NEW c \in Texts
  PROVE  \E f : Squeezes(f, CollapseBlanks(c), c)
  <1> DEFINE S == {p \in DOMAIN c : p = 1 \/ ~ {c[p], c[p - 1]} \subseteq Blanks}
             once == KeepAt(c, S)
             d == CollapseBlanks(c)
  <1>1. d = [p \in DOMAIN once |-> IF once[p] \in Blanks THEN "space" ELSE once[p]]
    BY DEF CollapseBlanks
  <1>2. d \in Texts /\ S \in SUBSET DOMAIN c
    BY CleaningTypes
  <1>3. \A p \in DOMAIN c : c[p] \notin Blanks => p \in S
    OBVIOUS
  <1>4. ASSUME NEW p \in S, NEW q \in S, c[p] \notin Blanks, p < q
        PROVE  p + 1 \in S
    <2>1. p \in Nat /\ q \in Nat /\ p + 1 \in DOMAIN c /\ (p + 1) - 1 = p
      BY <1>2, <1>4, Positions
    <2>2. ~ {c[p + 1], c[(p + 1) - 1]} \subseteq Blanks
      BY <1>4, <2>1
    <2> QED
      BY <2>1, <2>2
  <1> HIDE DEF S, d
  <1>5. DOMAIN d = DOMAIN once
    BY <1>1
  <1>6. \A i \in DOMAIN d : Alike(d[i], once[i])
    BY <1>1 DEF Alike, Blanks
  <1> QED
    BY <1>2, <1>3, <1>4, <1>5, <1>6, KeptSqueezes DEF d

\* Trimming squeezes a text.
LEMMA TrimSqueezes ==
  ASSUME NEW c \in Texts
  PROVE  \E f : Squeezes(f, Trim(c), c)
  <1> DEFINE S == {p \in DOMAIN c : /\ \E q \in 1..p : c[q] \notin Blanks
                                    /\ \E q \in p..Len(c) : c[q] \notin Blanks}
             d == Trim(c)
  <1>1. d = KeepAt(c, S) /\ d \in Texts /\ S \in SUBSET DOMAIN c
    BY CleaningTypes DEF Trim
  <1>2. DOMAIN c = 1..Len(c) /\ Len(c) \in Nat
    BY Positions
  <1>3. ASSUME NEW p \in DOMAIN c, c[p] \notin Blanks
        PROVE  p \in S
    <2>1. p \in 1..p /\ p \in p..Len(c)
      BY <1>2
    <2> QED
      BY <1>3, <2>1
  <1>4. ASSUME NEW p \in S, NEW q \in S, c[p] \notin Blanks, p < q
        PROVE  p + 1 \in S
    <2>1. p \in 1..Len(c) /\ q \in 1..Len(c)
      BY <1>2
    <2>2. PICK k \in q..Len(c) : c[k] \notin Blanks
      OBVIOUS
    <2>3. p + 1 \in DOMAIN c /\ p \in 1..(p + 1) /\ k \in (p + 1)..Len(c)
      BY <1>2, <1>4, <2>1, <2>2
    <2> QED
      BY <1>4, <2>2, <2>3
  <1> HIDE DEF S, d
  <1>5. \A i \in DOMAIN d : Alike(d[i], KeepAt(c, S)[i])
    BY <1>1 DEF Alike
  <1> QED
    BY <1>1, <1>3, <1>4, <1>5, KeptSqueezes DEF d

\* What comes from a text that comes from a text comes from the latter.
LEMMA FromIsTransitive ==
  ASSUME NEW b \in Texts, NEW c \in Texts, NEW d \in Texts, NEW f, NEW g,
         From(f, d, c), From(g, c, b)
  PROVE  From([i \in DOMAIN d |-> g[f[i]]], d, b)
  <1> DEFINE h == [i \in DOMAIN d |-> g[f[i]]]
  <1>1. \A i \in DOMAIN d : f[i] \in DOMAIN c /\ g[f[i]] \in DOMAIN b /\ h[i] = g[f[i]]
    BY DEF From
  <1>2. h \in [DOMAIN d -> DOMAIN b]
    BY <1>1
  <1> HIDE DEF h
  <1>3. \A i, j \in DOMAIN d : h[i] < h[j] <=> i < j
    BY <1>1 DEF From
  <1>4. \A i \in DOMAIN d : Alike(d[i], b[h[i]])
    BY <1>1 DEF From, Alike
  <1>5. From(h, d, b)
    BY <1>2, <1>3, <1>4 DEF From
  <1> QED
    BY <1>5 DEF h

\* Squeezing twice squeezes.
LEMMA SqueezesIsTransitive ==
  ASSUME NEW b \in Texts, NEW c \in Texts, NEW d \in Texts, NEW f, NEW g,
         Squeezes(f, d, c), Squeezes(g, c, b)
  PROVE  \E h : Squeezes(h, d, b)
  <1> DEFINE h == [i \in DOMAIN d |-> g[f[i]]]
  <1>1. From(h, d, b)
    BY FromIsTransitive DEF Squeezes
  <1>2. \A i \in DOMAIN d : /\ h[i] = g[f[i]] /\ f[i] \in DOMAIN c
                            /\ Alike(d[i], c[f[i]])
    BY DEF Squeezes, From
  <1> HIDE DEF h
  <1>3. ASSUME NEW i \in DOMAIN d, i + 1 \in DOMAIN d, d[i] \notin Blanks
        PROVE  h[i + 1] = h[i] + 1
    <2>1. f[i + 1] = f[i] + 1
      BY <1>3 DEF Squeezes
    <2>2. f[i] + 1 \in DOMAIN c /\ c[f[i]] \notin Blanks
      BY <1>2, <1>3, <2>1 DEF Alike
    <2>3. g[f[i] + 1] = g[f[i]] + 1
      BY <1>2, <2>2 DEF Squeezes
    <2> QED
      BY <1>2, <1>3, <2>1, <2>3
  <1>4. ASSUME NEW p \in DOMAIN b, b[p] \notin Blanks
        PROVE  \E i \in DOMAIN d : h[i] = p
    <2>1. PICK q \in DOMAIN c : g[q] = p
      BY <1>4 DEF Squeezes
    <2>2. c[q] \notin Blanks
      BY <1>4, <2>1 DEF Squeezes, From, Alike
    <2>3. PICK i \in DOMAIN d : f[i] = q
      BY <2>2 DEF Squeezes
    <2> QED
      BY <1>2, <2>1, <2>3
  <1>5. Squeezes(h, d, b)
    BY <1>1, <1>3, <1>4 DEF Squeezes
  <1> QED
    BY <1>5

\* Squeezing takes nothing out of a script element: neither its tags nor the token
\* that decides whether the opening one is a tag change.
LEMMA ScriptsAreSqueezed ==
  ASSUME NEW c \in Texts, NEW d \in Texts, NEW f, Squeezes(f, d, c),
         NEW p \in DOMAIN d, f[p] \in InScript(c)
  PROVE  p \in InScript(d)
  <1>1. /\ \A k \in DOMAIN d : f[k] \in DOMAIN c /\ Alike(d[k], c[f[k]])
        /\ \A k, l \in DOMAIN d : f[k] < f[l] <=> k < l
        /\ \A k \in DOMAIN d : k + 1 \in DOMAIN d /\ d[k] \notin Blanks => f[k + 1] = f[k] + 1
        /\ \A q \in DOMAIN c : c[q] \notin Blanks => \E k \in DOMAIN d : f[k] = q
    BY DEF Squeezes, From
  <1>2. /\ Len(c) \in Nat /\ DOMAIN c = 1..Len(c)
        /\ Len(d) \in Nat /\ DOMAIN d = 1..Len(d)
    BY Positions
  <1>3. PICK i \in 1..f[p], j \in f[p]..Len(c) :
           /\ OpensScript(c, i)
           /\ c[j] = "</script>"
           /\ \A k \in i..(j - 1) : c[k] # "</script>"
    BY DEF InScript
  <1>4. /\ f[p] \in 1..Len(c) /\ i \in DOMAIN c /\ j \in DOMAIN c /\ i <= f[p] /\ f[p] <= j
        /\ i \in Int /\ j \in Int
    BY <1>1, <1>2, <1>3
  <1>5. c[i] = "<script" /\ (i = Len(c) \/ c[i + 1] \notin Letters)
    BY <1>3 DEF OpensScript
  <1>6. PICK x \in DOMAIN d : f[x] = i
    <2>1. c[i] \notin Blanks
      BY <1>5 DEF Blanks
    <2> QED
      BY <1>1, <1>4, <2>1
  <1>7. PICK y \in DOMAIN d : f[y] = j
    <2>1. c[j] \notin Blanks
      BY <1>3 DEF Blanks
    <2> QED
      BY <1>1, <1>4, <2>1
  <1>8. d[x] = "<script" /\ d[y] = "</script>"
    <2>1. Alike(d[x], "<script") /\ Alike(d[y], "</script>")
      BY <1>1, <1>3, <1>5, <1>6, <1>7
    <2> QED
      BY <2>1 DEF Alike, Blanks
  <1>9. x \in Nat /\ y \in Nat /\ p \in Nat /\ x <= p /\ p <= y /\ 1 <= x /\ y <= Len(d)
    <2>1. ~ (p < x) /\ ~ (y < p)
      <3>1. ~ (f[p] < f[x]) /\ ~ (f[y] < f[p])
        BY <1>4, <1>6, <1>7
      <3> QED
        BY <1>1, <3>1
    <2> QED
      BY <1>2, <2>1
  <1>10. OpensScript(d, x)
    <2>1. ASSUME x # Len(d)
          PROVE  d[x + 1] \notin Letters
      <3>1. x + 1 \in DOMAIN d
        BY <1>2, <1>9, <2>1
      <3>2. d[x] \notin Blanks
        BY <1>8 DEF Blanks
      <3>3. f[x + 1] = i + 1
        BY <1>1, <1>6, <3>1, <3>2
      <3>4. i + 1 \in DOMAIN c /\ Alike(d[x + 1], c[i + 1])
        BY <1>1, <3>1, <3>3
      <3>5. c[i + 1] \notin Letters
        BY <1>2, <1>4, <1>5, <3>4
      <3> QED
        BY <3>4, <3>5 DEF Alike, Blanks, Letters, Small, Capital
    <2> QED
      BY <1>8, <2>1 DEF OpensScript
  <1>11. ASSUME NEW k \in x..(y - 1)
         PROVE  d[k] # "</script>"
    <2>1. k \in DOMAIN d /\ ~ (k < x) /\ k < y
      BY <1>2, <1>9
    <2>2. f[k] \in Int /\ ~ (f[k] < i) /\ f[k] < j
      BY <1>1, <1>2, <1>6, <1>7, <2>1
    <2>3. f[k] \in i..(j - 1)
      BY <1>4, <2>2
    <2>4. c[f[k]] # "</script>" /\ Alike(d[k], c[f[k]])
      BY <1>1, <1>3, <2>1, <2>3
    <2> QED
      BY <2>4 DEF Alike, Blanks
  <1>12. x \in 1..p /\ y \in p..Len(d)
    BY <1>9
  <1> QED
    BY <1>8, <1>10, <1>11, <1>12 DEF InScript

\* A text that comes from positions of another outside of some set has no more
\* letters than the other has there.
LEMMA LettersComeFrom ==
  ASSUME NEW c \in Texts, NEW d \in Texts, NEW S \in SUBSET DOMAIN c,
         NEW f, From(f, d, c), \A i \in DOMAIN d : f[i] \in S
  PROVE  Cardinality(LettersAt(d, DOMAIN d)) <= Cardinality(LettersAt(c, S))
  <1> DEFINE L == LettersAt(d, DOMAIN d)
             M == LettersAt(c, S)
             g == [i \in L |-> f[i]]
  <1>1. L \in SUBSET DOMAIN d /\ M \in SUBSET DOMAIN c
    BY DEF LettersAt
  <1>2. \A i \in L : f[i] \in M
    BY DEF LettersAt, From, Alike, Blanks, Letters, Small, Capital
  <1>3. \A i, j \in L : f[i] = f[j] => i = j
    <2> SUFFICES ASSUME NEW i \in L, NEW j \in L, i # j
                 PROVE  f[i] # f[j]
      OBVIOUS
    <2>1. i \in DOMAIN d /\ j \in DOMAIN d /\ i \in Int /\ j \in Int
      BY <1>1, Positions
    <2>2. f[i] \in Int /\ f[j] \in Int
      BY <2>1, Positions DEF From
    <2>3. i < j \/ j < i
      BY <2>1
    <2>4. f[i] < f[j] \/ f[j] < f[i]
      BY <2>1, <2>3 DEF From
    <2> QED
      BY <2>2, <2>4
  <1> HIDE DEF L, M
  <1>4. g \in Injection(L, M)
    <2>1. g \in [L -> M] /\ \A i, j \in L : g[i] = g[j] => i = j
      BY <1>2, <1>3
    <2> HIDE DEF g
    <2> QED
      BY <2>1 DEF Injection, IsInjective
  <1>5. IsFiniteSet(L) /\ IsFiniteSet(M)
    <2>1. IsFiniteSet(DOMAIN c) /\ IsFiniteSet(DOMAIN d)
      BY Positions, FS_Interval
    <2> QED
      BY <1>1, <2>1, FS_Subset
  <1> HIDE DEF g
  <1>6. Cardinality(L) <= Cardinality(M)
    BY <1>4, <1>5, FS_Injection
  <1> QED
    BY <1>6 DEF L, M

\* Of a received text, what is left after cleaning stood outside of its script
\* elements: blanks are squeezed first, which takes nothing out of one.
LEMMA ScriptsAreDropped ==
  ASSUME NEW r \in Texts
  PROVE  LET d == DropTags(DropScripts(Trim(CollapseBlanks(r))))
         IN  Cardinality(LettersAt(d, DOMAIN d))
               <= Cardinality(LettersAt(r, DOMAIN r \ InScript(r)))
  <1> DEFINE mid  == Trim(CollapseBlanks(r))
             rest == DropScripts(mid)
             d    == DropTags(rest)
  <1>1. mid \in Texts /\ rest \in Texts /\ d \in Texts
    BY CleaningTypes
  <1>2. PICK s : Squeezes(s, mid, r)
    <2>1. CollapseBlanks(r) \in Texts
      BY CleaningTypes
    <2>2. PICK f : Squeezes(f, CollapseBlanks(r), r)
      BY CollapseSqueezes
    <2>3. PICK g : Squeezes(g, mid, CollapseBlanks(r))
      BY <2>1, TrimSqueezes
    <2> HIDE DEF mid
    <2> QED
      BY <1>1, <2>1, <2>2, <2>3, SqueezesIsTransitive
  <1>3. PICK f \in [DOMAIN rest -> DOMAIN mid \ InScript(mid)] : From(f, rest, mid)
    <2> HIDE DEF mid
    <2> QED
      BY <1>1, KeptFrom DEF DropScripts
  <1>4. PICK g \in [DOMAIN d -> DOMAIN rest] : From(g, d, rest)
    <2> HIDE DEF rest
    <2>1. \E e \in [DOMAIN d -> DOMAIN rest \ InTag(rest)] : From(e, d, rest)
      BY <1>1, KeptFrom DEF DropTags
    <2> QED
      BY <2>1 DEF From
  <1> HIDE DEF mid, rest, d
  <1> DEFINE e == [i \in DOMAIN d |-> f[g[i]]]
             h == [i \in DOMAIN d |-> s[e[i]]]
  <1>5. From(e, d, mid)
    BY <1>1, <1>3, <1>4, FromIsTransitive
  <1>6. \A i \in DOMAIN d : e[i] \in DOMAIN mid \ InScript(mid)
    BY <1>3, <1>4
  <1> HIDE DEF e
  <1>7. From(h, d, r)
    BY <1>1, <1>2, <1>5, FromIsTransitive DEF Squeezes
  <1>8. ASSUME NEW i \in DOMAIN d
        PROVE  h[i] \in DOMAIN r \ InScript(r)
    <2>1. h[i] = s[e[i]] /\ h[i] \in DOMAIN r
      BY <1>7 DEF From
    <2>2. s[e[i]] \notin InScript(r)
      BY <1>1, <1>2, <1>6, ScriptsAreSqueezed
    <2> QED
      BY <2>1, <2>2
  <1> HIDE DEF h
  <1>9. Cardinality(LettersAt(d, DOMAIN d))
          <= Cardinality(LettersAt(r, DOMAIN r \ InScript(r)))
    BY <1>1, <1>7, <1>8, LettersComeFrom
  <1> QED
    BY <1>9 DEF d, rest, mid

\* A text has no more letters when it is stored than it had outside of its script
\* elements, for texts of any length: script elements are dropped while their tags
\* are still there (the order of the patterns in sanitizeMessage).
THEOREM ScriptTextDropped == Spec => []ScriptTextIsDropped
  <1>1. Cleaned => ScriptTextIsDropped
    <2> SUFFICES ASSUME Cleaned, stage = "stored"
                 PROVE  Cardinality(LettersAt(stored, DOMAIN stored))
                          <= Cardinality(LettersAt(DropNul(content),
                                   DOMAIN DropNul(content) \ InScript(DropNul(content))))
      BY DEF ScriptTextIsDropped
    <2>1. DropNul(content) \in Texts
      BY CleaningTypes DEF Cleaned
    <2>2. stored = DropTags(DropScripts(Trim(CollapseBlanks(DropNul(content)))))
      BY DEF Cleaned, SanitizeMessage
    <2> QED
      BY <2>1, <2>2, ScriptsAreDropped
  <1> QED
    BY <1>1, CleanedInvariance, PTL

------------------------------------------------------------------------------
(* A text without markup is still well-formed once it is cleaned. *)

\* No token of T, none counted.
LEMMA NoneCounted ==
  ASSUME NEW c, NEW T, \A p \in DOMAIN c : c[p] \notin T
  PROVE  Count(c, T) = 0
  <1>1. {p \in DOMAIN c : c[p] \in T} = {}
    OBVIOUS
  <1> QED
    BY <1>1, FS_EmptySet DEF Count

\* Each token of a text without markup is one character.
LEMMA PlainCharacters ==
  ASSUME NEW c \in Texts, \A p \in DOMAIN c : c[p] \notin Openers
  PROVE  /\ Length(c) = Len(c)
         /\ \A p \in DOMAIN c : FirstChar(c[p]) = c[p] /\ LastChar(c[p]) = c[p]
  <1>1. Count(c, {"<script"}) = 0 /\ Count(c, {"</script>"}) = 0
    <2>1. \A p \in DOMAIN c : c[p] \notin {"<script"} /\ c[p] \notin {"</script>"}
      BY DEF Openers
    <2> QED
      BY <2>1, NoneCounted
  <1>2. Len(c) \in Nat
    BY Positions
  <1>3. Length(c) = Len(c)
    BY <1>1, <1>2 DEF Length
  <1>4. \A p \in DOMAIN c : FirstChar(c[p]) = c[p] /\ LastChar(c[p]) = c[p]
    BY DEF FirstChar, LastChar, Openers
  <1> QED
    BY <1>3, <1>4

\* A text of which every position is kept is the same text.
LEMMA AllAreKept ==
  ASSUME NEW c \in Texts
  PROVE  KeepAt(c, DOMAIN c) = c
  <1> DEFINE n == Len(c)
  <1>1. n \in Nat /\ DOMAIN c = 1..n
    BY Positions
  <1> HIDE DEF n
  <1>2. ASSUME NEW p \in 1..n
        PROVE  Rank(1..n, p) = p
    <2>1. {q \in 1..n : q <= p} = 1..p /\ p \in Nat
      BY <1>1, <1>2
    <2>2. Cardinality(1..p) = p
      BY <2>1, FS_Interval
    <2> QED
      BY <2>1, <2>2 DEF Rank
  <1>3. \A i \in 1..n : Nth(1..n, i) = i
    BY <1>2 DEF Nth
  <1>4. Cardinality(1..n) = n
    BY <1>1, FS_Interval
  <1>5. KeepAt(c, DOMAIN c) = [i \in 1..n |-> c[i]]
    BY <1>1, <1>3, <1>4 DEF KeepAt
  <1> QED
    BY <1>1, <1>5 DEF Texts

\* A text of which some positions are kept is not longer, and the same one if it is
\* as long.
LEMMA KeptIsShorter ==
  ASSUME NEW c \in Texts, NEW S \in SUBSET DOMAIN c
  PROVE  /\ Len(KeepAt(c, S)) <= Len(c)
         /\ Len(KeepAt(c, S)) = Len(c) => KeepAt(c, S) = c
  <1>1. Len(c) \in Nat /\ DOMAIN c = 1..Len(c)
    BY Positions
  <1>2. IsFiniteSet(DOMAIN c) /\ Cardinality(DOMAIN c) = Len(c)
    BY <1>1, FS_Interval
  <1>3. Cardinality(S) <= Len(c)
    BY <1>2, FS_Subset
  <1>4. IsFiniteSet(S)
    BY <1>2, FS_Subset
  <1>5. Cardinality(S) \in Nat
    BY <1>4, FS_CardinalityType
  <1>6. Len(KeepAt(c, S)) = Cardinality(S)
    BY <1>5 DEF KeepAt
  <1>7. ASSUME Cardinality(S) = Len(c)
        PROVE  KeepAt(c, S) = c
    <2>1. DOMAIN c = S
      BY <1>2, <1>7, FS_Subset
    <2> QED
      BY <2>1, AllAreKept
  <1> QED
    BY <1>3, <1>6, <1>7

\* So is a text whose blanks are collapsed, but for the kind of its blanks.
Spaced(c) == [p \in DOMAIN c |-> IF c[p] \in Blanks THEN "space" ELSE c[p]]

LEMMA CollapsedIsShorter ==
  ASSUME NEW c \in Texts
  PROVE  /\ Len(CollapseBlanks(c)) \in Nat /\ Len(CollapseBlanks(c)) <= Len(c)
         /\ Len(CollapseBlanks(c)) = Len(c) => CollapseBlanks(c) = Spaced(c)
  <1> DEFINE S == {p \in DOMAIN c : p = 1 \/ ~ {c[p], c[p - 1]} \subseteq Blanks}
             once == KeepAt(c, S)
  <1>1. /\ Len(once) <= Len(c) /\ once \in Texts
        /\ Len(once) = Len(c) => once = c
    BY KeptIsShorter, KeptFacts
  <1>2. CollapseBlanks(c) = Spaced(once)
    BY DEF CollapseBlanks, Spaced
  <1> HIDE DEF once
  <1>3. Len(Spaced(once)) = Len(once) /\ Len(once) \in Nat
    BY <1>1, Positions DEF Spaced
  <1> QED
    BY <1>1, <1>2, <1>3

\* Two blanks that follow each other.
TwoBlanks(c, i) == i \in DOMAIN c /\ i + 1 \in DOMAIN c /\ {c[i], c[i + 1]} \subseteq Blanks

\* Of two neighbours that are kept, nothing that is kept stood between.
LEMMA KeptNeighbours ==
  ASSUME NEW c \in Texts, NEW S \in SUBSET DOMAIN c,
         NEW i \in DOMAIN KeepAt(c, S), i + 1 \in DOMAIN KeepAt(c, S)
  PROVE  /\ Nth(S, i) \in S /\ Nth(S, i + 1) \in S
         /\ Nth(S, i) \in Nat /\ Nth(S, i + 1) \in Nat /\ Nth(S, i) < Nth(S, i + 1)
         /\ \A p \in S : ~ (Nth(S, i) < p /\ p < Nth(S, i + 1))
  <1> DEFINE d == KeepAt(c, S)
  <1>1. /\ \A k \in DOMAIN d : Nth(S, k) \in S
        /\ \A p \in S : \E k \in DOMAIN d : Nth(S, k) = p
        /\ \A k, l \in DOMAIN d : Nth(S, k) < Nth(S, l) <=> k < l
    BY KeptFacts
  <1>2. d \in Texts
    BY KeptFacts
  <1>3. i \in DOMAIN d /\ i + 1 \in DOMAIN d /\ \A k \in DOMAIN d : k \in Nat
    BY <1>2, Positions
  <1> HIDE DEF d
  <1>4. \A p \in S : p \in Nat
    BY Positions
  <1>5. i < i + 1
    BY <1>3
  <1>6. ASSUME NEW p \in S, Nth(S, i) < p, p < Nth(S, i + 1)
        PROVE  FALSE
    <2>1. PICK k \in DOMAIN d : Nth(S, k) = p
      BY <1>1
    <2>2. i < k /\ k < i + 1
      BY <1>1, <1>3, <1>6, <2>1
    <2> QED
      BY <1>3, <2>2
  <1> QED
    BY <1>1, <1>3, <1>4, <1>5, <1>6

\* Collapsed, a text has no two blanks in a row, and spaces for blanks.
LEMMA CollapsedBlanks ==
  ASSUME NEW c \in Texts
  PROVE  /\ \A i \in DOMAIN CollapseBlanks(c) : ~ TwoBlanks(CollapseBlanks(c), i)
         /\ \A i \in DOMAIN CollapseBlanks(c) : CollapseBlanks(c)[i] # "newline"
  <1> DEFINE S == {p \in DOMAIN c : p = 1 \/ ~ {c[p], c[p - 1]} \subseteq Blanks}
             once == KeepAt(c, S)
             d == CollapseBlanks(c)
  <1>1. d = [p \in DOMAIN once |-> IF once[p] \in Blanks THEN "space" ELSE once[p]]
    BY DEF CollapseBlanks
  <1>2. S \in SUBSET DOMAIN c
    OBVIOUS
  <1>3. \A p \in S : p = 1 \/ ~ {c[p], c[p - 1]} \subseteq Blanks
    OBVIOUS
  <1>4. \A p \in DOMAIN c : c[p] \notin Blanks => p \in S
    OBVIOUS
  <1> HIDE DEF S, d
  <1>5. \A i \in DOMAIN once : once[i] = c[Nth(S, i)]
    BY <1>2, KeptFacts
  <1>6. ASSUME NEW i \in DOMAIN d, TwoBlanks(d, i)
        PROVE  FALSE
    <2> DEFINE p == Nth(S, i)
               q == Nth(S, i + 1)
    <2>1. i \in DOMAIN once /\ i + 1 \in DOMAIN once
      BY <1>1, <1>6 DEF TwoBlanks
    <2>2. once[i] \in Blanks /\ once[i + 1] \in Blanks
      BY <1>1, <1>6, <2>1 DEF TwoBlanks, Blanks
    <2>3. /\ p \in S /\ q \in S /\ p \in Nat /\ q \in Nat /\ p < q
          /\ \A x \in S : ~ (p < x /\ x < q)
      BY <1>2, <2>1, KeptNeighbours
    <2>4. c[p] \in Blanks /\ c[q] \in Blanks
      BY <1>5, <2>1, <2>2
    <2> HIDE DEF p, q
    <2>5. p \in 1..Len(c) /\ q \in 1..Len(c) /\ Len(c) \in Nat /\ DOMAIN c = 1..Len(c)
      BY <1>2, <2>3, Positions
    <2>6. q # 1 /\ q - 1 \in DOMAIN c
      BY <2>3, <2>5
    <2>7. c[q - 1] \notin Blanks
      BY <1>3, <2>3, <2>4, <2>6
    <2>8. q - 1 \in S
      BY <1>4, <2>6, <2>7
    <2>9. q - 1 = p
      BY <2>3, <2>8
    <2> QED
      BY <2>4, <2>7, <2>9
  <1>7. \A i \in DOMAIN d : d[i] # "newline"
    BY <1>1 DEF Blanks
  <1> QED
    BY <1>6, <1>7 DEF d

\* Trimmed, it still has none.
LEMMA TrimmedBlanks ==
  ASSUME NEW c \in Texts, \A i \in DOMAIN c : ~ TwoBlanks(c, i),
         \A i \in DOMAIN c : c[i] # "newline"
  PROVE  /\ \A i \in DOMAIN Trim(c) : ~ TwoBlanks(Trim(c), i)
         /\ \A i \in DOMAIN Trim(c) : Trim(c)[i] # "newline"
  <1> DEFINE S == {p \in DOMAIN c : /\ \E q \in 1..p : c[q] \notin Blanks
                                    /\ \E q \in p..Len(c) : c[q] \notin Blanks}
             d == Trim(c)
  <1>1. d = KeepAt(c, S) /\ S \in SUBSET DOMAIN c
    BY DEF Trim
  <1>2. DOMAIN c = 1..Len(c) /\ Len(c) \in Nat
    BY Positions
  <1>3. ASSUME NEW p \in S, NEW q \in S, NEW x \in Int, p < x, x < q
        PROVE  x \in S
    <2>1. p \in 1..Len(c) /\ q \in 1..Len(c)
      BY <1>2
    <2>2. PICK k \in 1..p : c[k] \notin Blanks
      OBVIOUS
    <2>3. PICK l \in q..Len(c) : c[l] \notin Blanks
      OBVIOUS
    <2>4. x \in DOMAIN c /\ k \in 1..x /\ l \in x..Len(c)
      BY <1>2, <1>3, <2>1, <2>2, <2>3
    <2> QED
      BY <2>2, <2>3, <2>4
  <1> HIDE DEF S, d
  <1>4. \A i \in DOMAIN d : Nth(S, i) \in S /\ d[i] = c[Nth(S, i)]
    BY <1>1, KeptFacts
  <1>5. ASSUME NEW i \in DOMAIN d, TwoBlanks(d, i)
        PROVE  FALSE
    <2> DEFINE p == Nth(S, i)
               q == Nth(S, i + 1)
    <2>1. i + 1 \in DOMAIN d
      BY <1>5 DEF TwoBlanks
    <2>2. /\ p \in S /\ q \in S /\ p \in Nat /\ q \in Nat /\ p < q
          /\ \A x \in S : ~ (p < x /\ x < q)
      BY <1>1, <2>1, KeptNeighbours
    <2>3. c[p] \in Blanks /\ c[q] \in Blanks
      BY <1>4, <1>5, <2>1 DEF TwoBlanks
    <2> HIDE DEF p, q
    <2>4. q = p + 1
      <3>1. ~ (p + 1 < q)
        BY <1>3, <2>2
      <3> QED
        BY <2>2, <3>1
    <2>5. p \in DOMAIN c /\ q \in DOMAIN c
      BY <1>1, <2>2
    <2> QED
      BY <2>3, <2>4, <2>5 DEF TwoBlanks
  <1>6. \A i \in DOMAIN d : d[i] # "newline"
    BY <1>1, <1>4
  <1> QED
    BY <1>5, <1>6 DEF d

\* A run of tokens that are not blanks stood in one piece before.
LEMMA RunsStoodTogether ==
  ASSUME NEW c \in Texts, NEW d \in Texts, NEW f, Squeezes(f, d, c),
         NEW p \in DOMAIN d, NEW n \in Nat, p + n \in DOMAIN d,
         \A q \in p..(p + n) : d[q] \notin Blanks
  PROVE  \A k \in 0..n : f[p + k] = f[p] + k
  <1> DEFINE P == {k \in 0..n : f[p + k] # f[p] + k}
  <1> SUFFICES ASSUME P # {} PROVE FALSE
    OBVIOUS
  <1>1. p \in Nat /\ p + n <= Len(d) /\ 1 <= p /\ Len(d) \in Nat /\ DOMAIN d = 1..Len(d)
    BY Positions
  <1>2. \A q \in DOMAIN d : f[q] \in Nat
    BY Positions DEF Squeezes, From
  <1>3. P \in SUBSET Nat
    OBVIOUS
  <1>4. PICK m \in P : \A k \in P : m <= k
    BY <1>3, FirstPosition
  <1>5. m \in 0..n /\ f[p + m] # f[p] + m
    OBVIOUS
  <1>6. m # 0
    BY <1>1, <1>2, <1>5
  <1>7. m - 1 \in 0..n /\ ~ (m <= m - 1)
    BY <1>5, <1>6
  <1>8. f[p + (m - 1)] = f[p] + (m - 1)
    BY <1>4, <1>7
  <1>9. /\ p + (m - 1) \in DOMAIN d /\ (p + (m - 1)) + 1 = p + m /\ p + m \in DOMAIN d
        /\ p + (m - 1) \in p..(p + n)
    BY <1>1, <1>5, <1>6
  <1>10. f[p + m] = f[p + (m - 1)] + 1
    BY <1>9 DEF Squeezes
  <1>11. f[p] \in Int /\ m \in Int
    BY <1>2, <1>5
  <1>12. (f[p] + (m - 1)) + 1 = f[p] + m
    BY <1>11
  <1> QED
    BY <1>5, <1>8, <1>10, <1>12

\* Cleaning a text without markup and NUL characters squeezes its blanks, and that
\* is all it does.
LEMMA PlainIsSqueezed ==
  ASSUME NEW c \in Texts, \A p \in DOMAIN c : c[p] \notin Openers \union {Nul}
  PROVE  /\ SanitizeMessage(c) = Trim(CollapseBlanks(c))
         /\ \A i \in DOMAIN SanitizeMessage(c) : SanitizeMessage(c)[i] \notin Openers
         /\ \E f : Squeezes(f, SanitizeMessage(c), c)
  <1> DEFINE mid == Trim(CollapseBlanks(c))
  <1>1. CollapseBlanks(c) \in Texts /\ mid \in Texts
    BY CleaningTypes
  <1>2. DropNul(c) = c
    <2>1. {p \in DOMAIN c : c[p] # Nul} = DOMAIN c
      OBVIOUS
    <2> QED
      BY <2>1, AllAreKept DEF DropNul
  <1>3. PICK f : Squeezes(f, mid, c)
    <2>1. PICK f : Squeezes(f, CollapseBlanks(c), c)
      BY CollapseSqueezes
    <2>2. PICK g : Squeezes(g, mid, CollapseBlanks(c))
      BY <1>1, TrimSqueezes
    <2> HIDE DEF mid
    <2> QED
      BY <1>1, <2>1, <2>2, SqueezesIsTransitive
  <1> HIDE DEF mid
  <1>4. \A i \in DOMAIN mid : mid[i] \notin Openers
    <2> SUFFICES ASSUME NEW i \in DOMAIN mid PROVE mid[i] \notin Openers
      OBVIOUS
    <2>1. f[i] \in DOMAIN c /\ Alike(mid[i], c[f[i]])
      BY <1>3 DEF Squeezes, From
    <2>2. c[f[i]] \notin Openers
      BY <2>1
    <2>3. \A x \in Blanks : x \notin Openers
      BY DEF Blanks, Openers
    <2> QED
      BY <2>1, <2>2, <2>3 DEF Alike
  <1>5. DropScripts(mid) = mid
    <2>1. \A i \in DOMAIN mid : ~ OpensScript(mid, i)
      BY <1>4 DEF OpensScript, Openers
    <2>2. InScript(mid) = {}
      <3> SUFFICES ASSUME NEW p \in InScript(mid) PROVE FALSE
        OBVIOUS
      <3>1. p \in DOMAIN mid /\ \E i \in 1..p : OpensScript(mid, i)
        BY DEF InScript
      <3>2. \A i \in 1..p : i \in DOMAIN mid
        BY <1>1, <3>1, Positions
      <3> QED
        BY <2>1, <3>1, <3>2
    <2>3. DOMAIN mid \ InScript(mid) = DOMAIN mid
      BY <2>2
    <2> QED
      BY <1>1, <2>3, AllAreKept DEF DropScripts
  <1>6. DropTags(mid) = mid
    <2>1. InTag(mid) = {}
      <3> SUFFICES ASSUME NEW p \in InTag(mid) PROVE FALSE
        OBVIOUS
      <3>1. p \in DOMAIN mid /\ \E i \in 1..p : mid[i] \in Openers
        BY DEF InTag
      <3>2. \A i \in 1..p : i \in DOMAIN mid
        BY <1>1, <3>1, Positions
      <3> QED
        BY <1>4, <3>1, <3>2
    <2>2. DOMAIN mid \ InTag(mid) = DOMAIN mid
      BY <2>1
    <2> QED
      BY <1>1, <2>2, AllAreKept DEF DropTags
  <1>7. SanitizeMessage(c) = mid
    BY <1>2, <1>5, <1>6 DEF SanitizeMessage, mid
  <1> QED
    BY <1>3, <1>4, <1>7 DEF mid

\* Squeezed, a text stays well-formed: it is no shorter than one token that is not a
\* blank and no longer than it was, and a run that is too long would have been one
\* before, or a run of blanks, of which there is none.
LEMMA SqueezedIsWellFormed ==
  ASSUME NEW c \in Texts, WellFormed(c),
         \A p \in DOMAIN c : c[p] \notin Openers \union {Nul}
  PROVE  WellFormed(SanitizeMessage(c))
  <1> DEFINE d == SanitizeMessage(c)
  <1>1. d = Trim(CollapseBlanks(c)) /\ CollapseBlanks(c) \in Texts /\ d \in Texts
    BY PlainIsSqueezed, CleaningTypes
  <1>2. /\ Length(c) = Len(c) /\ Length(d) = Len(d)
        /\ \A p \in DOMAIN c : FirstChar(c[p]) = c[p] /\ LastChar(c[p]) = c[p]
        /\ \A p \in DOMAIN d : FirstChar(d[p]) = d[p] /\ LastChar(d[p]) = d[p]
    <2>1. /\ \A p \in DOMAIN c : c[p] \notin Openers
          /\ \A p \in DOMAIN d : d[p] \notin Openers
      BY PlainIsSqueezed
    <2> HIDE DEF d
    <2> QED
      BY <1>1, <2>1, PlainCharacters
  <1>3. PICK f : Squeezes(f, d, c)
    BY PlainIsSqueezed
  <1>4. /\ Len(c) \in Nat /\ DOMAIN c = 1..Len(c)
        /\ Len(d) \in Nat /\ DOMAIN d = 1..Len(d)
        /\ MaxRun \in Nat /\ MaxRun # 0 /\ MaxLength \in Nat
    BY <1>1, Positions, ContentAssumption
  <1>5. /\ \A i \in DOMAIN d : ~ TwoBlanks(d, i)
        /\ \A i \in DOMAIN d : d[i] # "newline"
    BY <1>1, CollapsedBlanks, TrimmedBlanks
  <1>6. Len(d) <= Len(c)
    BY <1>1, <1>4, CollapsedIsShorter, KeptIsShorter DEF Trim
  <1> HIDE DEF d
  <1>7. /\ ~ IsBlank(c) /\ Len(c) <= MaxLength
        /\ ~ HasExcessiveConsecutiveChars(c)
    BY <1>2 DEF WellFormed
  <1>8. ~ IsBlank(d)
    <2>1. PICK p \in DOMAIN c : c[p] \notin Blanks
      BY <1>7 DEF IsBlank
    <2>2. PICK i \in DOMAIN d : f[i] = p
      BY <1>3, <2>1 DEF Squeezes
    <2> QED
      BY <1>3, <2>1, <2>2 DEF IsBlank, Squeezes, From, Alike
  <1>9. Len(d) <= MaxLength
    BY <1>4, <1>6, <1>7
  <1>10. ~ HasEmptyLine(d)
    BY <1>4, <1>5 DEF HasEmptyLine
  <1>11. ~ HasExcessiveConsecutiveChars(d)
    <2> SUFFICES ASSUME NEW p \in 1..(Len(d) - MaxRun),
                        FirstChar(d[p + MaxRun]) = LastChar(d[p]),
                        \A q \in (p + 1)..(p + MaxRun - 1) : d[q] = LastChar(d[p])
                 PROVE  FALSE
      BY DEF HasExcessiveConsecutiveChars
    <2>1. /\ p \in DOMAIN d /\ p \in Nat /\ p + 1 \in DOMAIN d /\ p + MaxRun \in DOMAIN d
          /\ p + 1 \in p..(p + MaxRun)
      BY <1>4
    <2>2. ASSUME NEW q \in p..(p + MaxRun)
          PROVE  d[q] = d[p]
      <3>1. q = p \/ q = p + MaxRun \/ q \in (p + 1)..(p + MaxRun - 1)
        BY <1>4, <2>1
      <3> QED
        BY <1>2, <2>1, <3>1
    <2>3. d[p] \notin Blanks
      <3>1. d[p + 1] = d[p]
        BY <2>1, <2>2
      <3> QED
        BY <1>5, <2>1, <3>1 DEF TwoBlanks
    <2>4. \A q \in p..(p + MaxRun) : d[q] \notin Blanks
      BY <2>3, <2>2
    <2>5. \A k \in 0..MaxRun : f[p + k] = f[p] + k
      <3>1. d \in Texts /\ Squeezes(f, d, c) /\ MaxRun \in Nat
        BY <1>1, <1>3, <1>4
      <3>2. p \in DOMAIN d /\ p + MaxRun \in DOMAIN d
        BY <2>1
      <3> QED
        BY <2>4, <3>1, <3>2, RunsStoodTogether
    <2>6. ASSUME NEW k \in 0..MaxRun
          PROVE  f[p] + k \in DOMAIN c /\ c[f[p] + k] = d[p]
      <3>1. p + k \in DOMAIN d /\ p + k \in p..(p + MaxRun)
        BY <1>4, <2>1
      <3>2. d[p + k] = d[p] /\ d[p + k] \notin Blanks
        BY <2>4, <2>2, <3>1
      <3>3. f[p + k] \in DOMAIN c /\ Alike(d[p + k], c[f[p + k]])
        BY <1>3, <3>1 DEF Squeezes, From
      <3> QED
        BY <2>5, <3>2, <3>3 DEF Alike
    <2>7. f[p] \in DOMAIN c
      BY <1>3, <2>1 DEF Squeezes, From
    <2>8. f[p] \in Nat /\ 1 <= f[p]
      BY <1>4, <2>7
    <2>9. 0 \in 0..MaxRun /\ MaxRun \in 0..MaxRun /\ f[p] + 0 = f[p]
      BY <1>4, <2>8
    <2>10. c[f[p]] = d[p]
      BY <2>6, <2>9
    <2>11. f[p] + MaxRun <= Len(c)
      BY <1>4, <2>6, <2>9
    <2>12. ASSUME NEW q \in f[p]..(f[p] + MaxRun)
           PROVE  c[q] = c[f[p]]
      <3>1. q - f[p] \in 0..MaxRun /\ f[p] + (q - f[p]) = q
        BY <1>4, <2>8
      <3>2. c[f[p] + (q - f[p])] = d[p]
        BY <2>6, <3>1
      <3> QED
        BY <2>10, <3>1, <3>2
    <2>13. f[p] \in 1..(Len(c) - MaxRun)
      BY <1>4, <2>8, <2>11
    <2>14. f[p] + MaxRun \in DOMAIN c /\ f[p] + MaxRun \in f[p]..(f[p] + MaxRun)
      BY <1>4, <2>6, <2>8, <2>9
    <2>15. FirstChar(c[f[p] + MaxRun]) = LastChar(c[f[p]])
      BY <1>2, <2>7, <2>12, <2>14
    <2>16. \A q \in (f[p] + 1)..(f[p] + MaxRun - 1) : c[q] = LastChar(c[f[p]])
      <3>1. \A q \in (f[p] + 1)..(f[p] + MaxRun - 1) : q \in f[p]..(f[p] + MaxRun)
        BY <1>4, <2>8
      <3> QED
        BY <1>2, <2>7, <2>12, <3>1
    <2> QED
      BY <1>7, <2>13, <2>15, <2>16 DEF HasExcessiveConsecutiveChars
  <1> QED
    BY <1>2, <1>8, <1>9, <1>10, <1>11 DEF WellFormed, d

\* Whether a text looks like spam does not depend on the kind of its blanks.
LEMMA BlanksAreAlike ==
  ASSUME NEW c \in Texts
  PROVE  IsLikelySpam(Spaced(c)) <=> IsLikelySpam(c)
  <1> DEFINE d == Spaced(c)
  <1>1. /\ Len(c) \in Nat /\ DOMAIN c = 1..Len(c) /\ DOMAIN d = DOMAIN c /\ Len(d) = Len(c)
    BY Positions DEF Spaced
  <1>2. \A p \in DOMAIN c : /\ d[p] \in Blanks <=> c[p] \in Blanks
                            /\ c[p] \notin Blanks => d[p] = c[p]
    BY DEF Spaced, Blanks
  <1> HIDE DEF d
  <1>3. ASSUME NEW T, \A t \in Blanks : t \notin T
        PROVE  Count(d, T) = Count(c, T)
    <2>1. \A p \in DOMAIN c : d[p] \in T <=> c[p] \in T
      BY <1>2, <1>3
    <2>2. {p \in DOMAIN d : d[p] \in T} = {p \in DOMAIN c : c[p] \in T}
      BY <1>1, <2>1
    <2> QED
      BY <2>2 DEF Count
  <1>4. /\ Count(d, {"<script"}) = Count(c, {"<script"})
        /\ Count(d, {"</script>"}) = Count(c, {"</script>"})
        /\ Count(d, {Capital}) = Count(c, {Capital})
        /\ Count(d, Openers \union Closers) = Count(c, Openers \union Closers)
    <2>1. \A t \in Blanks : /\ t \notin {"<script"} /\ t \notin {"</script>"}
                           /\ t \notin {Capital} /\ t \notin Openers \union Closers
      BY DEF Blanks, Capital, Openers, Closers
    <2> QED
      BY <1>3, <2>1
  <1>5. Length(d) = Length(c) /\ Capitals(d) = Capitals(c) /\ Punctuation(d) = Punctuation(c)
    BY <1>1, <1>4 DEF Length, Capitals, Punctuation
  <1>6. \A p : Ends(d, p) <=> Ends(c, p)
    BY <1>1, <1>2 DEF Ends
  <1>7. WordStarts(d) = WordStarts(c)
    <2>1. ASSUME NEW p \in 1..(Len(c) + 1), p # 1
          PROVE  p - 1 \in DOMAIN c /\ (p # Len(c) + 1 => p \in DOMAIN c)
      BY <1>1, <2>1
    <2>2. ASSUME NEW p \in 1..(Len(c) + 1)
          PROVE  (p = 1 \/ (d[p - 1] \in Blanks /\ (p = Len(c) + 1 \/ d[p] \notin Blanks)))
                   <=> (p = 1 \/ (c[p - 1] \in Blanks /\ (p = Len(c) + 1 \/ c[p] \notin Blanks)))
      BY <1>2, <2>1
    <2> QED
      BY <1>1, <2>2 DEF WordStarts
  <1>8. ASSUME NEW p \in WordStarts(c), NEW q \in WordStarts(c)
        PROVE  SameWord(d, p, q) <=> SameWord(c, p, q)
    <2>1. p \in Nat /\ q \in Nat /\ 1 <= p /\ 1 <= q
      BY <1>1 DEF WordStarts
    <2>2. ASSUME NEW n \in 0..Len(c), Ends(c, p + n), Ends(c, q + n), NEW i \in 0..(n - 1)
          PROVE  (d[p + i] \notin Blanks /\ SameLetter(d[p + i], d[q + i]))
                   <=> (c[p + i] \notin Blanks /\ SameLetter(c[p + i], c[q + i]))
      <3>1. p + n <= Len(c) + 1 /\ q + n <= Len(c) + 1
        BY <1>1, <2>2 DEF Ends
      <3>2. p + i \in DOMAIN c /\ q + i \in DOMAIN c
        BY <1>1, <2>1, <3>1
      <3>3. \A x, y : x \notin Blanks /\ y \in Blanks => ~ SameLetter(x, y)
        BY DEF SameLetter, Blanks, Letters, Small, Capital
      <3>4. /\ d[p + i] \in Blanks <=> c[p + i] \in Blanks
            /\ d[q + i] \in Blanks <=> c[q + i] \in Blanks
            /\ c[p + i] \notin Blanks => d[p + i] = c[p + i]
            /\ c[q + i] \notin Blanks => d[q + i] = c[q + i]
        BY <1>2, <3>2
      <3> QED
        BY <3>3, <3>4
    <2> QED
      BY <1>1, <1>6, <2>2 DEF SameWord
  <1>9. RepeatsWords(d) <=> RepeatsWords(c)
    <2>1. \A p \in WordStarts(c) : {q \in WordStarts(d) : SameWord(d, p, q)}
                                    = {q \in WordStarts(c) : SameWord(c, p, q)}
      BY <1>7, <1>8
    <2> QED
      BY <1>7, <2>1 DEF RepeatsWords
  <1> QED
    BY <1>5, <1>9 DEF IsLikelySpam, d

\* A text without markup and NUL characters that is stored is still well-formed, and
\* meets every rule if no blank was dropped from it.  The rules are checked before it
\* is cleaned and never again (validateMessage before sanitizeMessage in the
\* send_message handler).  This holds for texts of any length and for all limits.
THEOREM PlainTextStaysWellFormed == Spec => []PlainTextKeepsRules
  <1>1. Cleaned => PlainTextKeepsRules
    <2> SUFFICES ASSUME Cleaned, stage = "stored",
                        \A p \in DOMAIN content : content[p] \notin Openers \union {Nul}
                 PROVE  /\ WellFormed(stored)
                        /\ Len(stored) = Len(content) => MeetsRules(stored)
      BY DEF PlainTextKeepsRules
    <2>1. /\ content \in Texts /\ WellFormed(content) /\ ~ IsLikelySpam(content)
          /\ stored = SanitizeMessage(content)
      BY DEF Cleaned, MeetsRules
    <2>2. WellFormed(stored)
      BY <2>1, SqueezedIsWellFormed
    <2>3. ASSUME Len(stored) = Len(content)
          PROVE  stored = Spaced(content)
      <3> DEFINE mid == CollapseBlanks(content)
      <3>1. stored = Trim(mid) /\ mid \in Texts
        BY <2>1, PlainIsSqueezed, CleaningTypes
      <3>2. Len(content) \in Nat /\ Len(mid) \in Nat /\ Len(mid) <= Len(content)
            /\ (Len(mid) = Len(content) => mid = Spaced(content))
        BY <2>1, CollapsedIsShorter, Positions
      <3> HIDE DEF mid
      <3>3. Len(stored) <= Len(mid) /\ (Len(stored) = Len(mid) => stored = mid)
        BY <3>1, KeptIsShorter DEF Trim
      <3>4. Len(mid) = Len(content)
        BY <2>3, <3>2, <3>3
      <3> QED
        BY <2>3, <3>2, <3>3, <3>4
    <2> QED
      BY <2>1, <2>2, <2>3, BlanksAreAlike DEF MeetsRules
  <1> QED
    BY <1>1, CleanedInvariance, PTL
===============================================================================
