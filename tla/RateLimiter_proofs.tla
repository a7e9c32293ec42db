-------------------------- MODULE RateLimiter_proofs --------------------------
(***************************************************************************)
(* Proofs about RateLimiter for every value of its constants: its types,   *)
(* the limit on every window, that it implements SlidingWindow, that no    *)
(* refusal is without cause, and that its delay is positive.               *)
(*                                                                         *)
(* The limit is not inductive by itself.  What makes it so is Kept: a      *)
(* request granted less than a window ago is still in the sorted set.  It  *)
(* survives pruning because stamps never run ahead of the clock, and key   *)
(* expiry because the TTL is set by the clock of Redis, which is never     *)
(* behind a stamp.                                                         *)
(*                                                                         *)
(* A refusal counts members of the sorted set, which are requests of the   *)
(* log (Traced).  Its delay is worked out from what the set holds when the *)
(* answer is written, later: nothing older than its window can have come   *)
(* back by then (Fresh).                                                   *)
(***************************************************************************)
EXTENDS RateLimiter, FiniteSetTheorems, WellFoundedInduction, TLAPS

Numbered ==
    /\ \A a \in log : a.n \in 1..attempts
    /\ \A a, b \in log : a.n = b.n => a = b

FiniteKeys == \A id \in Identifiers : IsFiniteSet(zset[id])

Kept ==
    \A a \in log : a.verdict = "admit" =>
        /\ a.stamp <= last
        /\ a.stamp > now - Window => Member(a.stamp, a.n) \in zset[a.id]
        /\ expireAt[a.id] = 0 \/ expireAt[a.id] >= a.stamp + Window

Inv == TypeOK /\ Numbered /\ FiniteKeys /\ Kept /\ WindowLimit

\* The requests of id granted since s - Span.
Before(id, s) == {g \in Granted : g.id = id /\ g.stamp > s - Span}

\* The window is a positive number of ticks, and no shorter than the lag.
LEMMA WindowType == Window \in Nat /\ Span \in Nat /\ Span + Lag = Window
  <1>1. \A a, b \in Nat : a * b \in Nat
    OBVIOUS
  <1>2. Window \in Nat
    BY <1>1, LimiterAssumption DEF Window
  <1> QED
    BY <1>2, LimiterAssumption DEF Span

\* A granted request is a record of the log.
LEMMA GrantedFacts ==
  ASSUME TypeOK, Numbered, Kept, NEW g \in Granted
  PROVE  /\ g \in [id : Identifiers, stamp : Nat, n : Nat]
         /\ g.stamp <= last
         /\ g.stamp > now - Window => Member(g.stamp, g.n) \in zset[g.id]
         /\ expireAt[g.id] = 0 \/ expireAt[g.id] >= g.stamp + Window
         /\ \A h \in Granted : g.n = h.n => g = h
  <1>1. PICK a \in log : a.verdict = "admit" /\
                         g = [id |-> a.id, stamp |-> a.stamp, n |-> a.n]
    BY DEF Granted
  <1>2. a \in Check
    BY DEF TypeOK
  <1>3. \A h \in Granted : g.n = h.n => g = h
    <2>1. TAKE h \in Granted
    <2>2. PICK b \in log : h = [id |-> b.id, stamp |-> b.stamp, n |-> b.n]
      BY DEF Granted
    <2> QED
      BY <1>1, <2>2 DEF Numbered
  <1> QED
    BY <1>1, <1>2, <1>3 DEF Kept, Check

\* The requests granted in the window before a stamp are all still in the
\* sorted set after pruning it with that stamp: they are no more than ZCARD
\* counts.
LEMMA WindowIsCounted ==
  ASSUME TypeOK, Numbered, FiniteKeys, Kept,
         NEW id \in Identifiers, NEW s \in Stamps
  PROVE  /\ IsFiniteSet(Pruned(id, s))
         /\ IsFiniteSet(Before(id, s))
         /\ Cardinality(Before(id, s)) <= Cardinality(Pruned(id, s))
  <1> DEFINE f == [g \in Before(id, s) |-> Member(g.stamp, g.n)]
  <1>1. IsFiniteSet(Pruned(id, s))
    <2>1. Pruned(id, s) \in SUBSET zset[id]
      BY DEF Pruned
    <2> QED
      BY <2>1, FS_Subset DEF FiniteKeys
  <1>2. \A g \in Before(id, s) : Member(g.stamp, g.n) \in Pruned(id, s)
    <2>1. TAKE g \in Before(id, s)
    <2>2. g \in Granted /\ g.id = id /\ g.stamp > s - Span
      BY DEF Before
    <2>3. g.stamp \in Nat /\ s \in Int /\ now \in Nat
      BY <2>2, GrantedFacts DEF TypeOK, Stamps
    <2>4. g.stamp > now - Window /\ g.stamp > s - Window
      BY <2>2, <2>3, WindowType, LimiterAssumption DEF Stamps
    <2>5. Member(g.stamp, g.n) \in zset[id]
      BY <2>2, <2>4, GrantedFacts
    <2> QED
      BY <2>4, <2>5 DEF Pruned, Member
  <1>3. f \in [Before(id, s) -> Pruned(id, s)]
    BY <1>2
  <1>4. \A g, h \in Before(id, s) : f[g] = f[h] => g = h
    <2>1. TAKE g, h \in Before(id, s)
    <2>2. HAVE f[g] = f[h]
    <2>3. g \in Granted /\ h \in Granted
      BY DEF Before
    <2>4. g.n = h.n
      BY <2>2 DEF Member
    <2> QED
      BY <2>3, <2>4, GrantedFacts
  <1>5. f \in Injection(Before(id, s), Pruned(id, s))
    BY <1>3, <1>4 DEF Injection, IsInjective
  <1> QED
    BY <1>1, <1>5, FS_Injection

\* An admitted request, and nothing else, is added to what was granted.
LEMMA AdmitGrants ==
  ASSUME NEW id, NEW s, Admit(id, s)
  PROVE  Granted' = Granted \cup {[id |-> id, stamp |-> s, n |-> attempts + 1]}
  <1> DEFINE r == [id |-> id, stamp |-> s, n |-> attempts + 1]
  <1> DEFINE a0 == [id |-> id, stamp |-> s, n |-> attempts + 1,
                    verdict |-> "admit"]
  <1>1. log' = log \cup {a0}
    BY DEF Admit, Record
  <1>2. \A x : x \in Granted' <=> \E a \in log \cup {a0} :
           a.verdict = "admit" /\ x = [id |-> a.id, stamp |-> a.stamp, n |-> a.n]
    BY <1>1 DEF Granted
  <1>3. \A x : x \in Granted <=> \E a \in log :
           a.verdict = "admit" /\ x = [id |-> a.id, stamp |-> a.stamp, n |-> a.n]
    BY DEF Granted
  <1>4. a0.verdict = "admit" /\ r = [id |-> a0.id, stamp |-> a0.stamp, n |-> a0.n]
    OBVIOUS
  <1> QED
    BY <1>2, <1>3, <1>4

\* The windows after a request stamped s was granted: windows that end before
\* s are as they were, the others hold what was counted and the new request.
LEMMA GrantKeepsLimit ==
  ASSUME Inv, NEW id \in Identifiers, NEW s \in Stamps, Admit(id, s)
  PROVE  WindowLimit'
  <1> DEFINE r == [id |-> id, stamp |-> s, n |-> attempts + 1]
  <1>1. Granted' = Granted \cup {r}
    BY AdmitGrants
  <1>2. Cardinality(Before(id, s)) < MaxRequests
    <2>1. Cardinality(Pruned(id, s)) < MaxRequests
      BY DEF Admit, Allowed
    <2>2. /\ Cardinality(Before(id, s)) <= Cardinality(Pruned(id, s))
          /\ Cardinality(Before(id, s)) \in Nat
          /\ Cardinality(Pruned(id, s)) \in Nat
      BY WindowIsCounted, FS_CardinalityType DEF Inv
    <2> QED
      BY <2>1, <2>2, LimiterAssumption
  <1>3. s \in Nat /\ last \in Nat /\ last <= s /\ s <= now /\ now' = now /\ now \in Nat
    BY DEF Inv, TypeOK, Stamps, Admit, Record
  <1> SUFFICES ASSUME NEW i \in Identifiers, NEW t \in 0..now
               PROVE  Cardinality(InWindow(i, t)') <= MaxRequests
    BY <1>3 DEF WindowLimit
  <1>4. Cardinality(InWindow(i, t)) <= MaxRequests
    BY DEF Inv, WindowLimit
  <1>5. CASE i # id \/ t < s
    <2>1. InWindow(i, t)' = InWindow(i, t)
      BY <1>1, <1>3, <1>5 DEF InWindow
    <2> QED
      BY <1>4, <2>1
  <1>6. CASE i = id /\ s <= t
    <2>1. InWindow(i, t)' \in SUBSET (Before(id, s) \cup {r})
      <3>1. SUFFICES ASSUME NEW g \in InWindow(i, t)', g # r
                     PROVE  g \in Before(id, s)
        OBVIOUS
      <3>2. g \in Granted /\ g.id = id /\ t - Span < g.stamp
        BY <1>1, <1>6, <3>1 DEF InWindow
      <3>3. g.stamp \in Nat
        BY <3>2, GrantedFacts DEF Inv
      <3> QED
        BY <1>3, <1>6, <3>2, <3>3, WindowType DEF Before
    <2>2. /\ IsFiniteSet(Before(id, s))
          /\ Cardinality(Before(id, s)) \in Nat
      BY WindowIsCounted, FS_CardinalityType DEF Inv
    <2>3. /\ IsFiniteSet(Before(id, s) \cup {r})
          /\ Cardinality(Before(id, s) \cup {r}) <= Cardinality(Before(id, s)) + 1
      <3> HIDE DEF r
      <3>1. /\ IsFiniteSet(Before(id, s) \cup {r})
            /\ Cardinality(Before(id, s) \cup {r}) =
                 IF r \in Before(id, s) THEN Cardinality(Before(id, s))
                 ELSE Cardinality(Before(id, s)) + 1
        BY <2>2, FS_AddElement, Zenon
      <3> QED
        BY <2>2, <3>1
    <2>4. /\ Cardinality(InWindow(i, t)') <= Cardinality(Before(id, s) \cup {r})
          /\ Cardinality(InWindow(i, t)') \in Nat
          /\ Cardinality(Before(id, s) \cup {r}) \in Nat
      BY <2>1, <2>3, FS_Subset, FS_CardinalityType
    <2> QED
      BY <1>2, <2>2, <2>3, <2>4, LimiterAssumption
  <1> QED
    BY <1>3, <1>5, <1>6

\* A step that grants nothing new keeps the limit.
LEMMA NoGrantKeepsLimit ==
  ASSUME Inv, Granted' = Granted, now' = now \/ now' = now + 1
  PROVE  WindowLimit'
  <1> SUFFICES ASSUME NEW i \in Identifiers, NEW t \in 0..now'
               PROVE  Cardinality(InWindow(i, t)') <= MaxRequests
    BY DEF WindowLimit
  <1>1. now \in Nat
    BY DEF Inv, TypeOK
  <1>2. InWindow(i, t)' = InWindow(i, t)
    BY DEF InWindow
  <1>3. CASE t \in 0..now
    BY <1>2, <1>3 DEF Inv, WindowLimit
  <1>4. CASE t = now + 1
    \* Nothing is stamped after now: this window is part of the one before.
    <2>1. InWindow(i, t) \in SUBSET InWindow(i, now)
      <3>1. SUFFICES ASSUME NEW g \in InWindow(i, t)
                     PROVE  g \in InWindow(i, now)
        OBVIOUS
      <3>2. g \in Granted /\ g.id = i /\ t - Span < g.stamp
        BY <3>1 DEF InWindow
      <3>3. g.stamp \in Nat /\ g.stamp <= last /\ last <= now /\ last \in Nat
        BY <3>2, GrantedFacts DEF Inv, TypeOK
      <3>4. now - Span < g.stamp /\ g.stamp <= now
        BY <1>1, <1>4, <3>2, <3>3, WindowType
      <3> QED
        BY <3>2, <3>4 DEF InWindow
    <2>2. IsFiniteSet(InWindow(i, now))
      <3>1. now \in Stamps
        BY <1>1, LimiterAssumption, WindowType DEF Stamps, Inv, TypeOK
      <3>2. InWindow(i, now) \in SUBSET Before(i, now)
        BY DEF InWindow, Before
      <3> QED
        BY <3>1, <3>2, WindowIsCounted, FS_Subset DEF Inv
    <2>3. /\ Cardinality(InWindow(i, t)) <= Cardinality(InWindow(i, now))
          /\ Cardinality(InWindow(i, t)) \in Nat
          /\ Cardinality(InWindow(i, now)) \in Nat
      BY <2>1, <2>2, FS_Subset, FS_CardinalityType
    <2>4. Cardinality(InWindow(i, now)) <= MaxRequests
      BY <1>1 DEF Inv, WindowLimit
    <2> QED
      BY <1>2, <2>3, <2>4, LimiterAssumption
  <1> QED
    BY <1>1, <1>3, <1>4

\* A check is recorded under a number of its own.
LEMMA RecordStep ==
  ASSUME Inv, NEW id \in Identifiers, NEW s \in Stamps,
         NEW v \in {"admit", "deny", "open"}, Record(id, s, v)
  PROVE  /\ now' \in Nat /\ last' \in 0..now' /\ attempts' \in Nat
         /\ log' \subseteq Check
         /\ Numbered'
  <1> DEFINE r == [id |-> id, stamp |-> s, n |-> attempts + 1, verdict |-> v]
  <1>1. /\ log' = log \cup {r} /\ attempts' = attempts + 1
        /\ now' = now /\ last' = s
    BY DEF Record
  <1>2. s \in 0..now /\ now \in Nat /\ attempts \in Nat
    BY DEF Inv, TypeOK, Stamps
  <1>3. log' \subseteq Check
    BY <1>1, <1>2 DEF Inv, TypeOK, Check
  <1>4. \A a \in log : a.n \in 1..attempts
    BY DEF Inv, Numbered
  <1>5. Numbered'
    BY <1>1, <1>2, <1>4 DEF Inv, Numbered
  <1> QED
    BY <1>1, <1>2, <1>3, <1>5

\* What pruning, adding and expiring make of a key has the right type, and a
\* key stays finite.
LEMMA KeyTypes ==
  ASSUME Inv, NEW id \in Identifiers, NEW s \in Stamps
  PROVE  /\ Pruned(id, s) \in SUBSET Entry
         /\ IsFiniteSet(Pruned(id, s))
         /\ Pruned(id, s) \cup {Member(s, attempts + 1)} \in SUBSET Entry
         /\ IsFiniteSet(Pruned(id, s) \cup {Member(s, attempts + 1)})
         /\ TtlAfterPrune(id, s) \in {0, expireAt[id]}
         /\ Expiry \in Nat /\ expireAt[id] \in Nat
  <1>1. Pruned(id, s) \in SUBSET Entry
    BY DEF Inv, TypeOK, Pruned
  <1>2. IsFiniteSet(Pruned(id, s))
    BY WindowIsCounted DEF Inv
  <1>3. Member(s, attempts + 1) \in Entry
    BY DEF Inv, TypeOK, Stamps, Member, Entry
  <1>4. IsFiniteSet(Pruned(id, s) \cup {Member(s, attempts + 1)})
    BY <1>2, FS_AddElement
  <1>5. Expiry \in Nat /\ expireAt[id] \in Nat
    BY WindowType DEF Inv, TypeOK, Expiry
  <1> QED
    BY <1>1, <1>2, <1>3, <1>4, <1>5 DEF TtlAfterPrune

\* Requests granted less than a window ago stay in the sorted set through
\* every command that at most prunes the key of id with the stamp s.
LEMMA KeptStep ==
  ASSUME Inv, NEW id \in Identifiers, NEW s \in Stamps,
         now' = now, last' = s,
         NEW Z, Pruned(id, s) \subseteq Z, zset' = [zset EXCEPT ![id] = Z],
         NEW E \in {0, expireAt[id], Expiry},
         expireAt' = [expireAt EXCEPT ![id] = E],
         \A a \in log' : a \in log \/
             (a.verdict = "admit" => /\ a.id = id /\ a.stamp = s /\ E = Expiry
                                     /\ Member(s, a.n) \in Z)
  PROVE  Kept'
  <1> SUFFICES ASSUME NEW a \in log', a.verdict = "admit"
               PROVE  (/\ a.stamp <= last
                       /\ a.stamp > now - Window =>
                             Member(a.stamp, a.n) \in zset[a.id]
                       /\ expireAt[a.id] = 0 \/
                             expireAt[a.id] >= a.stamp + Window)'
    BY DEF Kept
  <1>1. /\ s \in Nat /\ now \in Nat /\ last \in Nat /\ last <= s /\ s <= now
        /\ Window \in Nat
    BY WindowType DEF Inv, TypeOK, Stamps
  <1>2. zset'[id] = Z /\ expireAt'[id] = E
    BY DEF Inv, TypeOK
  <1>3. CASE a \in log
    <2>1. /\ a.id \in Identifiers /\ a.stamp \in Nat /\ a.stamp <= last
          /\ a.stamp > now - Window => Member(a.stamp, a.n) \in zset[a.id]
          /\ expireAt[a.id] = 0 \/ expireAt[a.id] >= a.stamp + Window
      BY <1>3 DEF Inv, TypeOK, Kept, Check
    <2>2. CASE a.id = id
      <3>1. a.stamp > now - Window => Member(a.stamp, a.n) \in Z
        BY <1>1, <2>1, <2>2 DEF Pruned, Member
      <3>2. E = 0 \/ E >= a.stamp + Window
        BY <1>1, <2>1, <2>2 DEF Expiry
      <3> QED
        BY <1>1, <1>2, <2>1, <2>2, <3>1, <3>2
    <2>3. CASE a.id # id
      <3>1. zset'[a.id] = zset[a.id] /\ expireAt'[a.id] = expireAt[a.id]
        BY <2>1, <2>3 DEF Inv, TypeOK
      <3> QED
        BY <1>1, <2>1, <3>1
    <2> QED
      BY <2>2, <2>3
  <1>4. CASE a \notin log
    <2>1. a.id = id /\ a.stamp = s /\ E = Expiry /\ Member(s, a.n) \in Z
      BY <1>4
    <2> QED
      BY <1>1, <1>2, <2>1 DEF Expiry
  <1> QED
    BY <1>3, <1>4

\* A non-empty sorted set has an oldest member, so ZRANGE 0 0 answers a score.
LEMMA OldestType ==
  ASSUME NEW z \in SUBSET Entry, z # {}
  PROVE  /\ Oldest(z) \in {e.score : e \in z}
         /\ Oldest(z) \in Nat
  <1> DEFINE T == {e.score : e \in z}
  <1>1. T \subseteq Nat /\ T # {}
    BY DEF Entry
  <1>2. PICK m \in T : \A k \in T : <<k, m>> \notin OpToRel(<, Nat)
    BY <1>1, WFMin, NatLessThanWellFounded, Zenon
  <1>3. \A k \in T : ~(k < m)
    BY <1>1, <1>2, Zenon DEF OpToRel
  <1>4. \A e \in z : m <= e.score
    BY <1>1, <1>3 DEF Entry
  <1>5. \E t \in T : \A e \in z : t <= e.score
    BY <1>4
  <1>6. Oldest(z) \in T
    BY <1>5, Zenon DEF Oldest
  <1> QED
    BY <1>1, <1>6

\* retryAfter is a whole number of seconds.
LEMMA CeilSecondsType ==
  ASSUME NEW t \in Int
  PROVE  CeilSeconds(t) \in Int
  BY LimiterAssumption DEF CeilSeconds

\* An empty limiter satisfies the invariant.
LEMMA InitInv == Init => Inv
  <1> SUFFICES ASSUME Init PROVE Inv
    OBVIOUS
  <1>1. TypeOK /\ Numbered /\ Kept
    BY DEF Init, TypeOK, Numbered, Kept
  <1>2. FiniteKeys
    BY FS_EmptySet DEF Init, FiniteKeys
  <1>3. WindowLimit
    <2>1. \A i \in Identifiers, t \in 0..now : InWindow(i, t) = {}
      BY DEF Init, InWindow, Granted
    <2> QED
      BY <2>1, FS_EmptySet, LimiterAssumption DEF WindowLimit
  <1> QED
    BY <1>1, <1>2, <1>3 DEF Inv

\* A record that is not an admission grants nothing.
LEMMA RefusalGrantsNothing ==
  ASSUME NEW id, NEW s, NEW v, v # "admit", Record(id, s, v)
  PROVE  Granted' = Granted
  BY DEF Record, Granted

\* checkRateLimit admits: one more granted request, and it was counted.
LEMMA AdmitStep ==
  ASSUME Inv, NEW id \in Identifiers, NEW s \in Stamps, Admit(id, s)
  PROVE  Inv'
  <1> USE DEF Admit
  <1>1. /\ now' \in Nat /\ last' \in 0..now' /\ attempts' \in Nat
        /\ log' \subseteq Check /\ Numbered'
    BY RecordStep
  <1>2. TypeOK' /\ FiniteKeys'
    BY <1>1, KeyTypes DEF Inv, TypeOK, FiniteKeys, Pipeline
  <1>3. Kept'
    <2> DEFINE Z == Pruned(id, s) \cup {Member(s, attempts + 1)}
    <2>1. /\ zset' = [zset EXCEPT ![id] = Z] /\ Pruned(id, s) \subseteq Z
          /\ expireAt' = [expireAt EXCEPT ![id] = Expiry]
      BY DEF Pipeline
    <2>2. /\ now' = now /\ last' = s
          /\ \A a \in log' : a \in log \/
               a = [id |-> id, stamp |-> s, n |-> attempts + 1, verdict |-> "admit"]
      BY DEF Record
    <2>3. \A a \in log' : a \in log \/ (a.verdict = "admit" =>
               a.id = id /\ a.stamp = s /\ Member(s, a.n) \in Z)
      BY <2>2
    <2> HIDE DEF Z
    <2> QED
      BY <2>1, <2>2, <2>3, KeptStep
  <1> QED
    BY <1>1, <1>2, <1>3, GrantKeepsLimit DEF Inv

\* checkRateLimit refuses: the request is in the key but was never granted.
LEMMA DenyStep ==
  ASSUME Inv, NEW id \in Identifiers, NEW s \in Stamps, Deny(id, s)
  PROVE  Inv'
  <1> USE DEF Deny, Refuse
  <1>1. /\ now' \in Nat /\ last' \in 0..now' /\ attempts' \in Nat
        /\ log' \subseteq Check /\ Numbered'
    BY RecordStep
  <1>2. pending' \subseteq Refusal
    BY DEF Inv, TypeOK, Refusal, Stamps
  <1>3. TypeOK' /\ FiniteKeys'
    BY <1>1, <1>2, KeyTypes DEF Inv, TypeOK, FiniteKeys, Pipeline
  <1>4. Kept'
    <2> DEFINE Z == Pruned(id, s) \cup {Member(s, attempts + 1)}
    <2>1. /\ zset' = [zset EXCEPT ![id] = Z] /\ Pruned(id, s) \subseteq Z
          /\ expireAt' = [expireAt EXCEPT ![id] = Expiry]
      BY DEF Pipeline
    <2>2. /\ now' = now /\ last' = s
          /\ \A a \in log' : a \in log \/
               a = [id |-> id, stamp |-> s, n |-> attempts + 1, verdict |-> "deny"]
      BY DEF Record
    <2>3. \A a \in log' : a \in log \/ (a.verdict = "admit" =>
               a.id = id /\ a.stamp = s /\ Member(s, a.n) \in Z)
      BY <2>2
    <2> HIDE DEF Z
    <2> QED
      BY <2>1, <2>2, <2>3, KeptStep
  <1>5. WindowLimit'
    BY RefusalGrantsNothing, NoGrantKeepsLimit DEF Record
  <1> QED
    BY <1>1, <1>3, <1>4, <1>5 DEF Inv

\* However much of the pipeline Redis has run, the key is at most pruned and has
\* the new member, or not.
LEMMA PartialKey ==
  ASSUME Inv, NEW id \in Identifiers, NEW s \in Stamps,
         UNCHANGED <<zset, expireAt>> \/ PartOfPipeline(id, s) \/ Pipeline(id, s)
  PROVE  \E Z, E :
          /\ Z \in SUBSET Entry /\ IsFiniteSet(Z) /\ Pruned(id, s) \subseteq Z
          /\ E \in {0, expireAt[id], Expiry} /\ E \in Nat
          /\ zset' = [zset EXCEPT ![id] = Z]
          /\ expireAt' = [expireAt EXCEPT ![id] = E]
  <1>1. CASE UNCHANGED <<zset, expireAt>>
    <2>1. /\ zset[id] \in SUBSET Entry /\ IsFiniteSet(zset[id])
          /\ Pruned(id, s) \subseteq zset[id] /\ expireAt[id] \in Nat
          /\ zset' = [zset EXCEPT ![id] = zset[id]]
          /\ expireAt' = [expireAt EXCEPT ![id] = expireAt[id]]
      BY <1>1 DEF Inv, TypeOK, FiniteKeys, Pruned
    <2> QED
      BY <2>1
  <1>2. TtlAfterPrune(id, s) \in Nat
    <2>1. TtlAfterPrune(id, s) \in {0, expireAt[id]} /\ expireAt[id] \in Nat
      BY KeyTypes
    <2> QED
      BY <2>1
  <1>3. CASE PartOfPipeline(id, s)
    BY <1>2, <1>3, KeyTypes DEF PartOfPipeline
  <1>4. CASE Pipeline(id, s)
    BY <1>4, KeyTypes DEF Pipeline
  <1> QED
    BY <1>1, <1>3, <1>4

\* A check that Redis fails, whatever becomes of it, keeps what was granted.
LEMMA FailStep ==
  ASSUME Inv, NEW id \in Identifiers, NEW s \in Stamps,
         FailOpen(id, s) \/ FailDeny(id, s)
  PROVE  Inv'
  <1>0. PICK v \in {"deny", "open"} : Record(id, s, v)
    BY DEF FailOpen, FailDeny, Refuse
  <1>1. /\ now' \in Nat /\ last' \in 0..now' /\ attempts' \in Nat
        /\ log' \subseteq Check /\ Numbered'
    BY <1>0, RecordStep
  <1>2. PICK Z, E :
          /\ Z \in SUBSET Entry /\ IsFiniteSet(Z) /\ Pruned(id, s) \subseteq Z
          /\ E \in {0, expireAt[id], Expiry} /\ E \in Nat
          /\ zset' = [zset EXCEPT ![id] = Z]
          /\ expireAt' = [expireAt EXCEPT ![id] = E]
    <2>1. UNCHANGED <<zset, expireAt>> \/ PartOfPipeline(id, s) \/ Pipeline(id, s)
      BY DEF FailOpen, FailDeny
    <2> QED
      BY <2>1, PartialKey
  <1>3. pending' \subseteq Refusal /\ retryAfter' = retryAfter /\ faults' \in Nat
    BY DEF Inv, TypeOK, Refusal, Stamps, FailOpen, FailDeny, Refuse, Fault
  <1>4. TypeOK' /\ FiniteKeys'
    BY <1>1, <1>2, <1>3 DEF Inv, TypeOK, FiniteKeys
  <1>5. Kept'
    <2>1. \A a \in log' : a \in log \/ a.verdict # "admit"
      BY <1>0 DEF Record
    <2>2. now' = now /\ last' = s
      BY <1>0 DEF Record
    <2> QED
      BY <1>2, <2>1, <2>2, KeptStep
  <1>6. WindowLimit'
    BY <1>0, RefusalGrantsNothing, NoGrantKeepsLimit DEF Record
  <1> QED
    BY <1>1, <1>4, <1>5, <1>6 DEF Inv

\* getRateLimitStatus only prunes.
LEMMA StatusStep ==
  ASSUME Inv, NEW id \in Identifiers, NEW s \in Stamps, GetRateLimitStatus(id, s)
  PROVE  Inv'
  <1> USE DEF GetRateLimitStatus
  <1>1. /\ s \in last..now /\ last \in Nat /\ now \in Nat
        /\ TtlAfterPrune(id, s) \in Nat
    <2>1. TtlAfterPrune(id, s) \in {0, expireAt[id]} /\ expireAt[id] \in Nat
      BY KeyTypes
    <2> QED
      BY <2>1 DEF Stamps, Inv, TypeOK
  <1> DEFINE Z == Pruned(id, s)
  <1>5. Z \in SUBSET Entry /\ IsFiniteSet(Z)
    BY KeyTypes
  <1>2. TypeOK' /\ FiniteKeys'
    <2>1. zset' = [zset EXCEPT ![id] = Z] /\ last' = s
      OBVIOUS
    <2> HIDE DEF Z
    <2>2. zset' \in [Identifiers -> SUBSET Entry]
      BY <1>5, <2>1 DEF Inv, TypeOK
    <2>3. FiniteKeys'
      BY <1>5, <2>1 DEF Inv, TypeOK, FiniteKeys
    <2> QED
      BY <1>1, <2>1, <2>2, <2>3 DEF Inv, TypeOK
  <1>3. Kept'
    BY KeptStep, KeyTypes
  <1>4. Granted' = Granted /\ Numbered'
    BY DEF Granted, Inv, Numbered
  <1> QED
    BY <1>2, <1>3, <1>4, NoGrantKeepsLimit DEF Inv

\* ZREM with a member nobody added leaves the granted requests where they are.
LEMMA AnswerStep ==
  ASSUME Inv, NEW d \in pending, AnswerDenied(d)
  PROVE  Inv'
  <1> DEFINE z == zset[d.id] \ {Unwanted(d)}
  <1>1. d.id \in Identifiers /\ d.stamp \in Nat
    BY DEF Inv, TypeOK, Refusal
  <1>2. /\ zset' = [zset EXCEPT ![d.id] = z]
        /\ pending' = pending \ {d}
        /\ retryAfter' = [retryAfter EXCEPT ![d.id] =
               IF z = {} THEN WindowSeconds
               ELSE CeilSeconds(Oldest(z) + Window - d.stamp)]
        /\ UNCHANGED <<now, last, expireAt, attempts, faults, log>>
    BY DEF AnswerDenied
  <1>3. z \in SUBSET Entry /\ z \in SUBSET zset[d.id]
    BY <1>1 DEF Inv, TypeOK
  <1>4. IsFiniteSet(z)
    BY <1>1, <1>3, FS_Subset DEF Inv, FiniteKeys
  <1>5. (IF z = {} THEN WindowSeconds
         ELSE CeilSeconds(Oldest(z) + Window - d.stamp)) \in Int
    <2>1. CASE z = {}
      BY <2>1, LimiterAssumption
    <2>2. CASE z # {}
      <3> HIDE DEF z
      <3>1. Oldest(z) + Window - d.stamp \in Int
        BY <1>1, <1>3, <2>2, OldestType, WindowType
      <3> QED
        BY <2>2, <3>1, CeilSecondsType
    <2> QED
      BY <2>1, <2>2
  <1>6. TypeOK'
    <2> HIDE DEF z
    <2> QED
      BY <1>2, <1>3, <1>5 DEF Inv, TypeOK
  <1>7. FiniteKeys'
    <2> HIDE DEF z
    <2> QED
      BY <1>1, <1>2, <1>4 DEF Inv, TypeOK, FiniteKeys
  <1>8. Kept'
    <2> SUFFICES ASSUME NEW a \in log, a.verdict = "admit", a.stamp > now - Window
                 PROVE  Member(a.stamp, a.n) \in zset'[a.id]
      BY <1>2 DEF Inv, Kept
    <2>1. Member(a.stamp, a.n) \in zset[a.id] /\ a.id \in Identifiers
      BY DEF Inv, Kept, TypeOK, Check
    <2>2. a.n # 0
      BY DEF Inv, Numbered, TypeOK
    <2>3. Member(a.stamp, a.n) # Unwanted(d)
      BY <2>2 DEF Unwanted, Member
    <2> QED
      BY <1>1, <1>2, <2>1, <2>3 DEF Inv, TypeOK
  <1>9. Granted' = Granted /\ Numbered'
    BY <1>2 DEF Granted, Inv, Numbered
  <1> QED
    BY <1>2, <1>6, <1>7, <1>8, <1>9, NoGrantKeepsLimit DEF Inv

\* The log after a refusal could not be answered has the records it had, one of
\* them with another verdict.
LEMMA Relabelled ==
  ASSUME NEW d \in pending, AnswerFails(d)
  PROVE  /\ \A b \in log' : \E a \in log : /\ b.id = a.id /\ b.stamp = a.stamp
                                           /\ b.n = a.n
                                           /\ b = a \/ b.verdict = "open"
         /\ \A a \in log : \E b \in log' : /\ b.id = a.id /\ b.stamp = a.stamp
                                           /\ b.n = a.n
                                           /\ b = a \/ a.verdict = "deny"
         /\ \A b \in log' : b.verdict = "deny" => b \in log /\ b # Checked(d, "deny")
  <1> DEFINE g(a) == IF a = Checked(d, "deny") THEN Checked(d, "open") ELSE a
  <1>1. log' = {g(a) : a \in log}
    BY DEF AnswerFails
  <1>2. ASSUME NEW a
        PROVE  /\ a = Checked(d, "deny") =>
                     /\ a.verdict = "deny" /\ g(a).verdict = "open"
                     /\ g(a).id = a.id /\ g(a).stamp = a.stamp /\ g(a).n = a.n
               /\ a # Checked(d, "deny") => g(a) = a
    BY DEF Checked
  <1> HIDE DEF g
  <1> QED
    BY <1>1, <1>2

\* What is granted within the limit is not touched by a failing answer.
LEMMA FailureGrantsNothing ==
  ASSUME NEW d \in pending, AnswerFails(d)
  PROVE  Granted' = Granted
  <1>1. \A a \in log : a.verdict = "admit" => a \in log'
    BY DEF AnswerFails, Checked
  <1>2. \A b \in log' : b.verdict = "admit" => b \in log
    BY Relabelled
  <1> QED
    BY <1>1, <1>2 DEF Granted

\* A refusal that becomes a permission was not granted within the limit.
LEMMA AnswerFailsStep ==
  ASSUME Inv, NEW d \in pending, AnswerFails(d)
  PROVE  Inv'
  <1>1. d \in Refusal
    BY DEF Inv, TypeOK
  <1>2. PICK gone \in {{}, {Unwanted(d)}} :
            zset' = [zset EXCEPT ![d.id] = @ \ gone]
    BY DEF AnswerFails
  <1>3. /\ pending' \subseteq pending /\ faults' = faults + 1
        /\ UNCHANGED <<now, last, expireAt, retryAfter, attempts>>
    BY DEF AnswerFails, Fault
  <1>4. log' \subseteq Check
    <2>1. Checked(d, "open") \in Check
      BY <1>1 DEF Checked, Refusal, Check
    <2> QED
      BY <2>1 DEF AnswerFails, Inv, TypeOK
  <1>5. TypeOK'
    <2>1. zset' \in [Identifiers -> SUBSET Entry]
      <3>1. zset[d.id] \ gone \in SUBSET Entry
        BY <1>1 DEF Inv, TypeOK, Refusal
      <3> QED
        BY <1>2, <3>1 DEF Inv, TypeOK
    <2> QED
      BY <1>3, <1>4, <2>1 DEF Inv, TypeOK
  <1>6. FiniteKeys'
    <2>1. \A i \in Identifiers : zset'[i] \in SUBSET zset[i]
      BY <1>2 DEF Inv, TypeOK
    <2> QED
      BY <2>1, FS_Subset DEF Inv, FiniteKeys
  <1>7. Numbered'
    <2>1. \A b \in log' : b.n \in 1..attempts
      BY Relabelled DEF Inv, Numbered
    <2>2. ASSUME NEW a \in log', NEW b \in log', a.n = b.n
          PROVE  a = b
      <3>1. PICK x \in log : a = IF x = Checked(d, "deny") THEN Checked(d, "open") ELSE x
        BY DEF AnswerFails
      <3>2. PICK y \in log : b = IF y = Checked(d, "deny") THEN Checked(d, "open") ELSE y
        BY DEF AnswerFails
      <3>3. x.n = y.n
        BY <2>2, <3>1, <3>2 DEF Checked
      <3> QED
        BY <3>1, <3>2, <3>3 DEF Inv, Numbered
    <2> QED
      BY <1>3, <2>1, <2>2 DEF Numbered
  <1>8. Kept'
    <2> SUFFICES ASSUME NEW a \in log', a.verdict = "admit"
                 PROVE  /\ a.stamp <= last
                        /\ a.stamp > now - Window => Member(a.stamp, a.n) \in zset'[a.id]
                        /\ expireAt[a.id] = 0 \/ expireAt[a.id] >= a.stamp + Window
      BY <1>3 DEF Kept
    <2>1. a \in log /\ a.id \in Identifiers
      BY Relabelled DEF Inv, TypeOK, Check
    <2>2. a.n # 0
      BY <2>1 DEF Inv, Numbered, TypeOK
    <2>3. Member(a.stamp, a.n) \notin gone
      BY <2>2 DEF Unwanted, Member
    <2> QED
      BY <1>2, <2>1, <2>3 DEF Inv, Kept, TypeOK
  <1>9. Granted' = Granted
    BY FailureGrantsNothing
  <1> QED
    BY <1>3, <1>5, <1>6, <1>7, <1>8, <1>9, NoGrantKeepsLimit DEF Inv

\* resetRateLimit empties the key and what was granted together.
LEMMA ResetStep ==
  ASSUME Inv, NEW id \in Identifiers, ResetRateLimit(id)
  PROVE  Inv'
  <1> USE DEF ResetRateLimit
  <1>1. TypeOK' /\ Numbered'
    BY DEF Inv, TypeOK, Numbered
  <1>2. FiniteKeys'
    BY FS_EmptySet DEF Inv, TypeOK, FiniteKeys
  <1>3. Kept'
    BY DEF Inv, TypeOK, Kept, Check
  <1>4. WindowLimit'
    <2> SUFFICES ASSUME NEW i \in Identifiers, NEW t \in 0..now
                 PROVE  Cardinality(InWindow(i, t)') <= MaxRequests
      BY DEF WindowLimit
    <2>1. Granted' = {g \in Granted : g.id # id}
      BY DEF Granted
    <2>2. CASE i = id
      <3>1. InWindow(i, t)' = {}
        BY <2>1, <2>2 DEF InWindow
      <3> QED
        BY <3>1, FS_EmptySet, LimiterAssumption
    <2>3. CASE i # id
      <3>1. InWindow(i, t)' = InWindow(i, t)
        BY <2>1, <2>3 DEF InWindow
      <3> QED
        BY <3>1 DEF Inv, WindowLimit
    <2> QED
      BY <2>2, <2>3
  <1> QED
    BY <1>1, <1>2, <1>3, <1>4 DEF Inv

\* A key expires only when every request in it is a window old.
LEMMA TickStep ==
  ASSUME Inv, Tick
  PROVE  Inv'
  <1> USE DEF Tick
  <1>1. TypeOK' /\ Numbered'
    BY DEF Inv, TypeOK, Numbered
  <1>2. FiniteKeys'
    BY FS_EmptySet DEF Inv, FiniteKeys
  <1>3. Kept'
    <2> SUFFICES ASSUME NEW a \in log, a.verdict = "admit"
                 PROVE  /\ a.stamp > now' - Window =>
                               Member(a.stamp, a.n) \in zset'[a.id]
                        /\ expireAt'[a.id] = 0 \/
                               expireAt'[a.id] >= a.stamp + Window
      BY DEF Inv, Kept
    <2>1. /\ a.id \in Identifiers /\ a.stamp \in Nat
          /\ a.stamp > now - Window => Member(a.stamp, a.n) \in zset[a.id]
          /\ expireAt[a.id] = 0 \/ expireAt[a.id] >= a.stamp + Window
      BY DEF Inv, TypeOK, Kept, Check
    <2>2. now \in Nat /\ expireAt[a.id] \in Nat /\ Window \in Nat
      BY <2>1, WindowType DEF Inv, TypeOK
    <2> QED
      BY <2>1, <2>2 DEF Expired
  <1>4. Granted' = Granted
    BY DEF Granted
  <1> QED
    BY <1>1, <1>2, <1>3, <1>4, NoGrantKeepsLimit DEF Inv

\* A stuttering step.
LEMMA StutterStep ==
  ASSUME Inv, UNCHANGED vars
  PROVE  Inv'
  <1> USE DEF vars
  <1>1. TypeOK' /\ Numbered' /\ FiniteKeys' /\ Kept'
    BY DEF Inv, TypeOK, Numbered, FiniteKeys, Kept
  <1>2. Granted' = Granted
    BY DEF Granted
  <1> QED
    BY <1>1, <1>2, NoGrantKeepsLimit DEF Inv

\* Inv is an invariant of the limiter.
THEOREM Invariance == Spec => []Inv
  <1>1. Inv /\ [Next]_vars => Inv'
    BY AdmitStep, DenyStep, FailStep, StatusStep, AnswerStep, AnswerFailsStep,
       ResetStep, TickStep, StutterStep DEF Next
  <1> QED
    BY InitInv, <1>1, PTL DEF Spec

\* The state of the limiter has the types TypeOK gives it: in particular no
\* command reaches Redis with a stamp ahead of its clock.
THEOREM TypeCorrect == Spec => []TypeOK
  <1>1. Inv => TypeOK
    BY DEF Inv
  <1> QED
    BY Invariance, <1>1, PTL

\* For every number of identifiers, limit, window and lag, checkRateLimit
\* admits at most MaxRequests requests of an identifier in every window.
THEOREM LimitHolds == Spec => []WindowLimit
  <1>1. Inv => WindowLimit
    BY DEF Inv
  <1> QED
    BY Invariance, <1>1, PTL

\* Every step of the limiter is a step of the abstract window or a stutter.
LEMMA StepRefines ==
  ASSUME Inv, Inv', [Next]_vars
  PROVE  [Limit!Next]_<<last, Granted>>
  <1>1. CASE Granted' = Granted /\ last' \in Nat /\ last' >= last
    BY <1>1 DEF Limit!Next, Limit!Pass
  <1>2. last \in Nat /\ last' \in Nat
    BY DEF Inv, TypeOK
  <1>3. ASSUME NEW id \in Identifiers, NEW s \in Stamps, Admit(id, s)
        PROVE  Limit!Next
    <2> DEFINE r == [id |-> id, stamp |-> s, n |-> attempts + 1]
    <2>1. Granted' = Granted \cup {r}
      BY <1>3, AdmitGrants
    <2>2. Limit!Recent(id, s) = Before(id, s)
      BY DEF Limit!Recent, Before
    <2>3. Cardinality(Before(id, s)) < MaxRequests
      <3>1. /\ Cardinality(Before(id, s)) <= Cardinality(Pruned(id, s))
            /\ Cardinality(Before(id, s)) \in Nat
            /\ Cardinality(Pruned(id, s)) \in Nat
        BY WindowIsCounted, FS_CardinalityType DEF Inv
      <3> QED
        BY <1>3, <3>1, LimiterAssumption DEF Admit, Allowed
    <2>4. s >= last /\ last' = s
      BY <1>2, <1>3 DEF Stamps, Admit, Record
    <2>5. Limit!Grant(id, s, attempts + 1)
      <3>1. Limit!Cardinality(Limit!Recent(id, s)) < MaxRequests
        BY <2>2, <2>3 DEF Cardinality, Limit!Cardinality
      <3> QED
        BY <2>1, <2>4, <3>1 DEF Limit!Grant
    <2>6. r \in Granted' /\ r.stamp = s /\ r.n = attempts + 1
      BY <2>1
    <2> QED
      BY <2>5, <2>6 DEF Limit!Next
  <1>4. ASSUME NEW id \in Identifiers, NEW s \in Stamps,
               \/ Deny(id, s)
               \/ FailOpen(id, s) \/ FailDeny(id, s)
               \/ GetRateLimitStatus(id, s)
        PROVE  Granted' = Granted /\ last' \in Nat /\ last' >= last
    <2>1. last' = s
      BY <1>4 DEF Deny, Refuse, FailOpen, FailDeny, GetRateLimitStatus, Record
    <2>2. Granted' = Granted
      BY <1>4, RefusalGrantsNothing
         DEF Deny, Refuse, FailOpen, FailDeny, GetRateLimitStatus, Granted
    <2> QED
      BY <1>2, <2>1, <2>2 DEF Stamps
  <1>5. ASSUME NEW id \in Identifiers, ResetRateLimit(id)
        PROVE  Limit!Next
    <2>1. Granted' = {g \in Granted : g.id # id}
      BY <1>5 DEF ResetRateLimit, Granted
    <2> QED
      BY <1>5, <2>1 DEF ResetRateLimit, Limit!Next, Limit!Forget
  <1>7. ASSUME NEW d \in pending, AnswerFails(d)
        PROVE  Granted' = Granted /\ last' = last
    BY <1>7, FailureGrantsNothing DEF AnswerFails
  <1>6. CASE \/ \E d \in pending : AnswerDenied(d)
             \/ Tick
             \/ UNCHANGED vars
    <2>1. log' = log /\ last' = last
      BY <1>6 DEF AnswerDenied, Tick, vars
    <2> QED
      BY <1>1, <1>2, <2>1 DEF Granted
  <1> QED
    BY <1>1, <1>2, <1>3, <1>4, <1>5, <1>6, <1>7 DEF Next

\* checkRateLimit implements the sliding window its doc comment announces, for
\* every value of the constants.
THEOREM Refinement == Spec => ImplementsSlidingWindow
  <1>1. Init => Limit!Init
    BY DEF Init, Limit!Init, Granted
  <1>2. Inv /\ Inv' /\ [Next]_vars => [Limit!Next]_<<last, Granted>>
    BY StepRefines
  <1> QED
    BY Invariance, <1>1, <1>2, PTL DEF Spec, Limit!Spec, ImplementsSlidingWindow

------------------------------------------------------------------------------
(* What a refusal rests on, and what it answers. *)

\* Every member of a sorted set is a request of its identifier.
Traced ==
    \A i \in Identifiers : \A e \in zset[i] :
        \E a \in log : a.id = i /\ a.n = e.n /\ a.stamp = e.score

\* What the set of a refused request holds was in the window when it was refused,
\* or came later.
Fresh ==
    \A d \in pending : /\ d.stamp <= last
                       /\ \A e \in zset[d.id] : e.score > d.stamp - Window

\* A refusal waits for its answer, or its identifier has a delay.
Answered ==
    \A a \in log : a.verdict = "deny" =>
        retryAfter[a.id] >= 1 \/ \E d \in pending : a = Checked(d, "deny")

\* A check: it adds its own record to the log, and at most a member to the set.
Checks(id, s) == \/ Admit(id, s) \/ Deny(id, s)
                 \/ FailOpen(id, s) \/ FailDeny(id, s)

\* The attempts of an identifier in the window before one of its checks.
Earlier(d) == {n \in 1..(d.n - 1) : \E a \in log : /\ a.n = n
                                                  /\ a.id = d.id
                                                  /\ a.stamp > d.stamp - Window}

\* A check adds its own record, with the next number, and nothing but that.
LEMMA CheckAdds ==
  ASSUME Inv, NEW id \in Identifiers, NEW s \in Stamps, Checks(id, s)
  PROVE  \E r \in Check :
            /\ r.id = id /\ r.stamp = s /\ r.n = attempts + 1
            /\ r.verdict = "deny" <=> Refuse(id, s)
            /\ log' = log \cup {r} /\ last' = s
            /\ \E Z : /\ zset' = [zset EXCEPT ![id] = Z]
                      /\ \A e \in Z : e \in zset[id] \/ e = Member(s, attempts + 1)
  <1>0. s \in Nat /\ attempts \in Nat
    BY DEF Inv, TypeOK, Stamps
  <1>1. ASSUME NEW v \in {"admit", "deny", "open"}, Record(id, s, v),
               v = "deny" <=> Refuse(id, s)
        PROVE  \E r \in Check :
                  /\ r.id = id /\ r.stamp = s /\ r.n = attempts + 1
                  /\ r.verdict = "deny" <=> Refuse(id, s)
                  /\ log' = log \cup {r} /\ last' = s
    <2>1. PICK r : r = [id |-> id, stamp |-> s, n |-> attempts + 1, verdict |-> v]
      OBVIOUS
    <2>2. r \in Check /\ r.id = id /\ r.stamp = s /\ r.n = attempts + 1 /\ r.verdict = v
      BY <1>0, <2>1 DEF Check
    <2> QED
      BY <1>1, <2>1, <2>2 DEF Record
  <1>2. \E v \in {"admit", "deny", "open"} : Record(id, s, v) /\ (v = "deny" <=> Refuse(id, s))
    <2>1. CASE Refuse(id, s)
      BY <2>1 DEF Refuse
    <2>2. CASE Admit(id, s)
      <3>1. ~Refuse(id, s)
        BY <2>2 DEF Admit, Refuse
      <3> QED
        BY <2>2, <3>1 DEF Admit
    <2>3. CASE FailOpen(id, s) /\ ~Refuse(id, s)
      BY <2>3 DEF FailOpen
    <2> QED
      BY <2>1, <2>2, <2>3 DEF Checks, Deny, FailDeny
  <1>3. \E Z : /\ zset' = [zset EXCEPT ![id] = Z]
               /\ \A e \in Z : e \in zset[id] \/ e = Member(s, attempts + 1)
    <2>1. \A e \in Pruned(id, s) : e \in zset[id]
      BY DEF Pruned
    <2>2. CASE zset' = [zset EXCEPT ![id] = Pruned(id, s) \cup {Member(s, attempts + 1)}]
      BY <2>1, <2>2
    <2>3. CASE zset' = [zset EXCEPT ![id] = Pruned(id, s)]
      BY <2>1, <2>3
    <2>4. CASE UNCHANGED zset
      <3>1. zset' = [zset EXCEPT ![id] = zset[id]]
        BY <2>4 DEF Inv, TypeOK
      <3> QED
        BY <3>1
    <2> QED
      BY <2>2, <2>3, <2>4
      DEF Checks, Admit, Deny, FailOpen, FailDeny, Pipeline, PartOfPipeline
  <1> QED
    BY <1>1, <1>2, <1>3

\* Only checks and resets touch the log, and only checks add to a sorted set.
LEMMA RestAdds ==
  ASSUME Inv, [Next]_vars,
         \A id \in Identifiers, s \in Stamps : ~Checks(id, s)
  PROVE  /\ last' \in Int /\ last <= last'
         /\ \A i \in Identifiers : zset'[i] \subseteq zset[i]
         /\ \/ UNCHANGED log
            \/ \E id \in Identifiers : /\ log' = {a \in log : a.id # id}
                                       /\ zset'[id] = {}
                                       /\ UNCHANGED <<pending, retryAfter>>
            \/ \E d \in pending : AnswerFails(d)
         /\ \/ UNCHANGED <<pending, retryAfter>>
            \/ \E d \in pending : AnswerDenied(d) \/ AnswerFails(d)
  <1>0. last \in Int
    BY DEF Inv, TypeOK
  <1>1. ASSUME NEW id \in Identifiers, NEW s \in Stamps, GetRateLimitStatus(id, s)
        PROVE  /\ last' \in Int /\ last <= last'
               /\ \A i \in Identifiers : zset'[i] \subseteq zset[i]
               /\ UNCHANGED <<log, pending, retryAfter>>
    BY <1>1 DEF GetRateLimitStatus, Pruned, Stamps, Inv, TypeOK
  <1>2. ASSUME NEW d \in pending, AnswerDenied(d)
        PROVE  /\ last' \in Int /\ last <= last'
               /\ \A i \in Identifiers : zset'[i] \subseteq zset[i]
               /\ UNCHANGED log
    BY <1>0, <1>2 DEF AnswerDenied, Inv, TypeOK
  <1>3. ASSUME NEW id \in Identifiers, ResetRateLimit(id)
        PROVE  /\ last' \in Int /\ last <= last'
               /\ \A i \in Identifiers : zset'[i] \subseteq zset[i]
               /\ log' = {a \in log : a.id # id} /\ zset'[id] = {}
               /\ UNCHANGED <<pending, retryAfter>>
    BY <1>0, <1>3 DEF ResetRateLimit, Inv, TypeOK
  <1>4. CASE Tick \/ UNCHANGED vars
    BY <1>0, <1>4 DEF Tick, vars
  <1>5. ASSUME NEW d \in pending, AnswerFails(d)
        PROVE  /\ last' \in Int /\ last <= last'
               /\ \A i \in Identifiers : zset'[i] \subseteq zset[i]
    BY <1>0, <1>5 DEF AnswerFails, Inv, TypeOK
  <1> QED
    BY <1>1, <1>2, <1>3, <1>4, <1>5 DEF Next, Checks

\* Traced is kept: a check that adds a member is in the log, and a reset empties the
\* set of whom it forgets.
LEMMA TracedKeeps ==
  ASSUME Inv, Traced, [Next]_vars
  PROVE  Traced'
  <1>1. ASSUME NEW id \in Identifiers, NEW s \in Stamps, Checks(id, s)
        PROVE  Traced'
    <2>1. PICK r \in Check :
            /\ r.id = id /\ r.stamp = s /\ r.n = attempts + 1
            /\ log' = log \cup {r}
            /\ \E Z : /\ zset' = [zset EXCEPT ![id] = Z]
                      /\ \A e \in Z : e \in zset[id] \/ e = Member(s, attempts + 1)
      BY <1>1, CheckAdds
    <2>2. ASSUME NEW i \in Identifiers, NEW e \in zset'[i]
          PROVE  e \in zset[i] \/ (i = id /\ e = Member(s, attempts + 1))
      BY <2>1, <2>2 DEF Inv, TypeOK
    <2>3. Member(s, attempts + 1).score = s /\ Member(s, attempts + 1).n = attempts + 1
      BY DEF Member
    <2> QED
      BY <2>1, <2>2, <2>3 DEF Traced
  <1>2. ASSUME \A id \in Identifiers, s \in Stamps : ~Checks(id, s)
        PROVE  Traced'
    <2>1. /\ \A i \in Identifiers : zset'[i] \subseteq zset[i]
          /\ \/ UNCHANGED log
             \/ \E id \in Identifiers : log' = {a \in log : a.id # id} /\ zset'[id] = {}
             \/ \E d \in pending : AnswerFails(d)
      BY <1>2, RestAdds
    <2>2. ASSUME NEW d \in pending, AnswerFails(d)
          PROVE  Traced'
      <3>1. \A a \in log : \E b \in log' : b.id = a.id /\ b.stamp = a.stamp /\ b.n = a.n
        BY <2>2, Relabelled
      <3> QED
        BY <2>1, <3>1 DEF Traced
    <2> QED
      BY <2>1, <2>2 DEF Traced
  <1> QED
    BY <1>1, <1>2

\* Fresh is kept: stamps reach Redis in order, so that what is added later is not
\* older than a request that was refused before.
LEMMA FreshKeeps ==
  ASSUME Inv, Fresh, [Next]_vars
  PROVE  Fresh'
  <1>0. /\ Window \in Nat /\ Window >= 1 /\ last \in Nat
        /\ \A d \in pending : d.stamp \in Nat /\ d.id \in Identifiers
        /\ \A i \in Identifiers : \A e \in zset[i] : e.score \in Nat
    <2>1. Window >= 1
      <3>1. \A a, b \in Nat \ {0} : a * b >= 1
        OBVIOUS
      <3> QED
        BY <3>1, LimiterAssumption DEF Window
    <2> QED
      BY <2>1, WindowType DEF Inv, TypeOK, Refusal, Entry
  <1>1. ASSUME NEW id \in Identifiers, NEW s \in Stamps, Checks(id, s)
        PROVE  Fresh'
    <2>1. /\ last' = s
          /\ \E Z : /\ zset' = [zset EXCEPT ![id] = Z]
                    /\ \A e \in Z : e \in zset[id] \/ e = Member(s, attempts + 1)
      BY <1>1, CheckAdds
    <2>2. ASSUME NEW i \in Identifiers, NEW e \in zset'[i]
          PROVE  e \in zset[i] \/ (i = id /\ e.score = s)
      BY <2>1, <2>2 DEF Inv, TypeOK, Member
    <2>3. s \in Nat /\ last <= s
      BY DEF Stamps, Inv, TypeOK
    <2>4. ASSUME NEW d \in pending
          PROVE  d.stamp <= s /\ \A e \in zset'[d.id] : e.score > d.stamp - Window
      BY <1>0, <2>2, <2>3 DEF Fresh
    <2>5. CASE pending' = pending
      BY <2>1, <2>4, <2>5 DEF Fresh
    <2>6. CASE Refuse(id, s) /\ (PartOfPipeline(id, s) \/ Pipeline(id, s))
      <3>1. PICK q : q = [id |-> id, stamp |-> s, n |-> attempts + 1]
        OBVIOUS
      <3>2. q.id = id /\ q.stamp = s /\ pending' = pending \cup {q}
        BY <2>6, <3>1 DEF Refuse
      <3>3. ASSUME NEW e \in zset'[id]
            PROVE  e.score > s - Window
        <4>1. e \in Pruned(id, s) \/ e = Member(s, attempts + 1)
          BY <2>6, <3>3 DEF Pipeline, PartOfPipeline, Inv, TypeOK
        <4> QED
          BY <1>0, <2>3, <4>1 DEF Pruned, Member
      <3> QED
        BY <2>1, <2>3, <2>4, <3>2, <3>3 DEF Fresh
    <2> QED
      BY <1>1, <2>5, <2>6 DEF Checks, Admit, Deny, FailOpen, FailDeny
  <1>2. ASSUME \A id \in Identifiers, s \in Stamps : ~Checks(id, s)
        PROVE  Fresh'
    <2>1. /\ last' \in Int /\ last <= last'
          /\ \A i \in Identifiers : zset'[i] \subseteq zset[i]
      BY <1>2, RestAdds
    <2>2. pending' \subseteq pending
      BY <1>2, RestAdds DEF AnswerDenied, AnswerFails
    <2> QED
      BY <1>0, <2>1, <2>2 DEF Fresh
  <1> QED
    BY <1>1, <1>2

\* A whole number of seconds that is not shorter than a positive time is positive.
LEMMA CeilSecondsPositive ==
  ASSUME NEW t \in Nat \ {0}
  PROVE  CeilSeconds(t) >= 1
  <1>1. ASSUME NEW k \in Nat \ {0}, NEW n \in Nat, n >= k
        PROVE  n \div k >= 1
    BY <1>1
  <1>2. TicksPerSecond \in Nat \ {0}
    BY LimiterAssumption
  <1>3. t + TicksPerSecond - 1 \in Nat /\ t + TicksPerSecond - 1 >= TicksPerSecond
    BY <1>2
  <1> QED
    BY <1>1, <1>2, <1>3 DEF CeilSeconds

\* The answer to a refusal is a positive delay.
LEMMA AnswerIsPositive ==
  ASSUME Inv, Fresh, NEW d \in pending, AnswerDenied(d)
  PROVE  retryAfter'[d.id] >= 1
  <1> DEFINE z == zset[d.id] \ {Unwanted(d)}
  <1>1. d.id \in Identifiers /\ d.stamp \in Nat
    BY DEF Inv, TypeOK, Refusal
  <1>2. retryAfter'[d.id] = IF z = {} THEN WindowSeconds
                            ELSE CeilSeconds(Oldest(z) + Window - d.stamp)
    BY <1>1 DEF AnswerDenied, Inv, TypeOK
  <1>3. z \in SUBSET Entry /\ z \subseteq zset[d.id]
    BY <1>1 DEF Inv, TypeOK
  <1> HIDE DEF z
  <1>4. CASE z = {}
    BY <1>2, <1>4, LimiterAssumption
  <1>5. CASE z # {}
    <2>1. PICK e \in z : e.score = Oldest(z)
      BY <1>3, <1>5, OldestType
    <2>2. Oldest(z) \in Nat /\ Oldest(z) > d.stamp - Window
      BY <1>3, <1>5, <2>1, OldestType DEF Fresh
    <2>3. Oldest(z) + Window - d.stamp \in Nat \ {0}
      BY <1>1, <2>2, WindowType
    <2> QED
      BY <1>2, <1>5, <2>3, CeilSecondsPositive
  <1> QED
    BY <1>4, <1>5

\* Answered is kept: a refusal is pending until it is answered.
LEMMA AnsweredKeeps ==
  ASSUME Inv, Fresh, Answered, [Next]_vars
  PROVE  Answered'
  <1>0. \A a \in log : a.id \in Identifiers
    BY DEF Inv, TypeOK, Check
  <1>1. ASSUME NEW id \in Identifiers, NEW s \in Stamps, Checks(id, s)
        PROVE  Answered'
    <2>1. PICK r \in Check : /\ r.id = id /\ r.stamp = s /\ r.n = attempts + 1
                             /\ r.verdict = "deny" <=> Refuse(id, s)
                             /\ log' = log \cup {r}
      BY <1>1, CheckAdds
    <2>2. pending \subseteq pending' /\ UNCHANGED retryAfter
      BY <1>1 DEF Checks, Admit, Deny, FailOpen, FailDeny, Refuse
    <2>3. ASSUME Refuse(id, s)
          PROVE  \E d \in pending' : r = Checked(d, "deny")
      <3>1. PICK q : q = [id |-> id, stamp |-> s, n |-> attempts + 1]
        OBVIOUS
      <3>2. q \in pending'
        BY <2>3, <3>1 DEF Refuse
      <3>3. r = Checked(q, "deny")
        BY <2>1, <2>3, <3>1 DEF Checked, Check
      <3> QED
        BY <3>2, <3>3
    <2> QED
      BY <2>1, <2>2, <2>3 DEF Answered
  <1>2. ASSUME \A id \in Identifiers, s \in Stamps : ~Checks(id, s)
        PROVE  Answered'
    <2>1. \A a \in log' : a.verdict = "deny" => a \in log
      BY <1>2, RestAdds, Relabelled
    <2>2. CASE UNCHANGED <<pending, retryAfter>>
      BY <2>1, <2>2 DEF Answered
    <2>4. ASSUME NEW d \in pending, AnswerFails(d)
          PROVE  Answered'
      <3>1. pending' = pending \ {d} /\ retryAfter' = retryAfter
        BY <2>4 DEF AnswerFails
      <3>2. \A a \in log' : a.verdict = "deny" => a \in log /\ a # Checked(d, "deny")
        BY <2>4, Relabelled
      <3> QED
        BY <3>1, <3>2 DEF Answered
    <2>3. ASSUME NEW d \in pending, AnswerDenied(d)
          PROVE  Answered'
      <3>1. retryAfter'[d.id] >= 1
        BY <2>3, AnswerIsPositive
      <3>2. /\ \A i \in Identifiers \ {d.id} : retryAfter'[i] = retryAfter[i]
            /\ pending' = pending \ {d}
        BY <2>3 DEF AnswerDenied, Inv, TypeOK
      <3>3. \A q : Checked(q, "deny").id = q.id
        BY DEF Checked
      <3> QED
        BY <1>0, <2>1, <3>1, <3>2, <3>3 DEF Answered
    <2> QED
      BY <1>2, <2>2, <2>3, <2>4, RestAdds
  <1> QED
    BY <1>1, <1>2

\* What ZCARD counted when a request was refused are attempts made before it, in the
\* window before it.
LEMMA DenyWasBusy ==
  ASSUME Inv, Traced, NEW id \in Identifiers, NEW s \in Stamps, ~Allowed(id, s),
         NEW r, r.id = id, r.stamp = s, r.n = attempts + 1
  PROVE  Cardinality(Earlier(r)) >= MaxRequests
  <1> DEFINE f == [e \in Pruned(id, s) |-> e.n]
  <1>1. ASSUME NEW e \in Pruned(id, s)
        PROVE  \E a \in log : /\ a.id = id /\ a.n = e.n /\ a.stamp = e.score
                              /\ a.stamp > s - Window /\ e.n \in 1..attempts
    <2>1. e \in zset[id] /\ e.score > s - Window
      BY DEF Pruned
    <2> QED
      BY <2>1 DEF Traced, Inv, Numbered
  <1>2. f \in [Pruned(id, s) -> Earlier(r)]
    <2>1. r.n - 1 = attempts
      BY DEF Inv, TypeOK
    <2> QED
      BY <1>1, <2>1 DEF Earlier
  <1>3. \A e, g \in Pruned(id, s) : f[e] = f[g] => e = g
    <2>1. \A e, g \in Pruned(id, s) : e.n = g.n => e.score = g.score
      BY <1>1 DEF Inv, Numbered
    <2>2. \A e, g \in Pruned(id, s) : e.n = g.n /\ e.score = g.score => e = g
      BY DEF Pruned, Inv, TypeOK, Entry
    <2> QED
      BY <2>1, <2>2
  <1> HIDE DEF f
  <1>4. f \in Injection(Pruned(id, s), Earlier(r))
    BY <1>2, <1>3 DEF Injection, IsInjective
  <1>5. IsFiniteSet(Earlier(r))
    <2>1. IsFiniteSet(1..(r.n - 1))
      BY FS_Interval DEF Inv, TypeOK
    <2> QED
      BY <2>1, FS_Subset DEF Earlier
  <1>6. /\ Cardinality(Pruned(id, s)) <= Cardinality(Earlier(r))
        /\ Cardinality(Pruned(id, s)) \in Nat /\ Cardinality(Earlier(r)) \in Nat
    BY <1>4, <1>5, FS_Injection, FS_CardinalityType
  <1> QED
    BY <1>6, LimiterAssumption DEF Allowed

\* A refusal stays justified: later attempts have higher numbers, and a reset
\* forgets the refusal with the attempts.
LEMMA BusyKeeps ==
  ASSUME Inv, Traced, DeniedOnlyWhenBusy, [Next]_vars
  PROVE  DeniedOnlyWhenBusy'
  <1> SUFFICES ASSUME NEW d \in log', d.verdict = "deny"
               PROVE  Cardinality(Earlier(d)') >= MaxRequests
    BY DEF DeniedOnlyWhenBusy, Earlier
  <1>0. d \in log => Cardinality(Earlier(d)) >= MaxRequests
    BY DEF DeniedOnlyWhenBusy, Earlier
  <1>1. ASSUME NEW id \in Identifiers, NEW s \in Stamps, Checks(id, s)
        PROVE  Cardinality(Earlier(d)') >= MaxRequests
    <2>1. PICK r \in Check : /\ r.id = id /\ r.stamp = s /\ r.n = attempts + 1
                             /\ r.verdict = "deny" <=> Refuse(id, s)
                             /\ log' = log \cup {r}
      BY <1>1, CheckAdds
    <2>2. d.n \in Nat /\ d.n <= attempts + 1 /\ attempts \in Nat
      BY <2>1 DEF Inv, Numbered, TypeOK
    <2>3. Earlier(d)' = Earlier(d)
      BY <2>1, <2>2 DEF Earlier
    <2>4. CASE d = r
      <3>1. ~Allowed(id, s)
        BY <2>1, <2>4 DEF Refuse
      <3> QED
        BY <2>1, <2>3, <2>4, <3>1, DenyWasBusy
    <2> QED
      BY <1>0, <2>1, <2>3, <2>4
  <1>2. ASSUME \A id \in Identifiers, s \in Stamps : ~Checks(id, s)
        PROVE  Cardinality(Earlier(d)') >= MaxRequests
    <2>1. CASE UNCHANGED log
      BY <1>0, <2>1 DEF Earlier
    <2>2. ASSUME NEW id \in Identifiers, log' = {a \in log : a.id # id}
          PROVE  Cardinality(Earlier(d)') >= MaxRequests
      <3>1. Earlier(d)' = Earlier(d)
        BY <2>2 DEF Earlier
      <3> QED
        BY <1>0, <2>2, <3>1
    <2>3. ASSUME NEW p \in pending, AnswerFails(p)
          PROVE  Cardinality(Earlier(d)') >= MaxRequests
      <3>1. d \in log
        BY <2>3, Relabelled
      <3>2. Earlier(d)' = Earlier(d)
        BY <2>3, Relabelled DEF Earlier
      <3> QED
        BY <1>0, <3>1, <3>2
    <2> QED
      BY <1>2, <2>1, <2>2, <2>3, RestAdds
  <1> QED
    BY <1>1, <1>2

\* Traced, Fresh, Answered and DeniedOnlyWhenBusy are inductive together, given Inv.
THEOREM RefusalInvariance == Spec => [](Traced /\ Fresh /\ Answered /\ DeniedOnlyWhenBusy)
  <1>1. Init => Traced /\ Fresh /\ Answered /\ DeniedOnlyWhenBusy
    BY DEF Init, Traced, Fresh, Answered, DeniedOnlyWhenBusy
  <1>2. /\ Inv /\ Traced /\ Fresh /\ Answered /\ DeniedOnlyWhenBusy
        /\ [Next]_vars
        => (Traced /\ Fresh /\ Answered /\ DeniedOnlyWhenBusy)'
    BY TracedKeeps, FreshKeeps, AnsweredKeeps, BusyKeeps
  <1> QED
    BY <1>1, <1>2, Invariance, PTL DEF Spec

\* checkRateLimit refuses nobody without at least config.maxRequests attempts in the
\* window before, whatever was pruned, expired or reset in between.
THEOREM RefusalsAreDue == Spec => []DeniedOnlyWhenBusy
  BY RefusalInvariance, PTL

\* The retryAfter that a refusal answers is at least a second, whatever other checks
\* prune, and whatever expires, before ZRANGE finds the oldest request.
THEOREM DelaysArePositive == Spec => []RetryAfterPositive
  <1>1. Answered => RetryAfterPositive
    BY DEF Answered, RetryAfterPositive, Checked
  <1> QED
    BY <1>1, RefusalInvariance, PTL
===============================================================================
