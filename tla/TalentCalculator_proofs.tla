----------------------- MODULE TalentCalculator_proofs -----------------------
(***************************************************************************)
(* Proofs about the talent calculator, for any datasets, of any size: the  *)
(* builds shown can be bought, refusals are right, links keep their build. *)
(***************************************************************************)
EXTENDS TalentCalculator, FiniteSetTheorems, TLAPS

(* What the data says of a talent.                                         *)

LEMMA TalentType ==
  ASSUME NEW d \in Datasets, NEW t \in Ids(d)
  PROVE  /\ d.talent[t].max \in 1 .. MaxRank
         /\ d.talent[t].gate \in Nat
         /\ d.talent[t].tree \in DOMAIN d.trees
         /\ d.talent[t].place \in DOMAIN d.trees[d.talent[t].tree]
         /\ d.trees[d.talent[t].tree][d.talent[t].place] = t
         /\ \A r \in d.talent[t].requires : r.id \in Ids(d) /\ r.rank \in 0 .. MaxRank
  BY CalculatorAssumption DEF WellFormed

LEMMA PlaceType ==
  ASSUME NEW d \in Datasets, NEW i \in DOMAIN d.trees, NEW j \in DOMAIN d.trees[i]
  PROVE  /\ i \in Nat /\ j \in Nat
         /\ d.trees[i][j] \in Ids(d)
         /\ d.talent[d.trees[i][j]].tree = i
         /\ d.talent[d.trees[i][j]].place = j
<1>1. d.trees \in Seq(Seq(Ids(d)))
  BY CalculatorAssumption DEF WellFormed
<1>2. i \in Nat /\ d.trees[i] \in Seq(Ids(d))
  BY <1>1
<1>3. j \in Nat /\ d.trees[i][j] \in Ids(d)
  BY <1>2
<1>4. \A k \in DOMAIN d.trees : \A l \in DOMAIN d.trees[k] :
        d.talent[d.trees[k][l]].tree = k /\ d.talent[d.trees[k][l]].place = l
  BY CalculatorAssumption, Zenon DEF WellFormed
<1> QED
  BY <1>2, <1>3, <1>4

-----------------------------------------------------------------------------
(* Points, and what only gets easier as points are added.                  *)

LEMMA PointsFinite ==
  ASSUME NEW d \in Datasets, NEW a \in Ranks(d)
  PROVE  IsFiniteSet(PointsOf(a)) /\ Spent(a) \in Nat
<1>1. IsFiniteSet(Ids(d)) /\ MaxRank \in Int
  BY CalculatorAssumption DEF WellFormed
<1>2. IsFiniteSet(1 .. MaxRank)
  BY <1>1, FS_Interval
<1>3. IsFiniteSet(Ids(d) \X (1 .. MaxRank))
  BY <1>1, <1>2, FS_Product
<1>4. PointsOf(a) \in SUBSET (Ids(d) \X (1 .. MaxRank))
  BY DEF PointsOf, Ranks
<1>5. IsFiniteSet(PointsOf(a))
  BY <1>3, <1>4, FS_Subset
<1> QED
  BY <1>5, FS_CardinalityType DEF Spent

LEMMA PointsMonotone ==
  ASSUME NEW d \in Datasets, NEW a \in Ranks(d), NEW b \in Ranks(d),
         \A t \in Ids(d) : b[t] <= a[t]
  PROVE  PointsOf(b) \subseteq PointsOf(a)
<1> SUFFICES ASSUME NEW p \in PointsOf(b) PROVE p \in PointsOf(a)
  OBVIOUS
<1>1. /\ DOMAIN a = Ids(d) /\ DOMAIN b = Ids(d) /\ MaxRank \in Int
      /\ p \in Ids(d) \X (1 .. MaxRank) /\ p[2] <= b[p[1]]
  BY CalculatorAssumption DEF PointsOf, Ranks
<1>2. p[1] \in Ids(d) /\ p[2] \in Int
  BY <1>1
<1>3. a[p[1]] \in Int /\ b[p[1]] \in Int /\ b[p[1]] <= a[p[1]]
  BY <1>1, <1>2 DEF Ranks
<1>4. p[2] <= a[p[1]]
  BY <1>1, <1>2, <1>3
<1> QED
  BY <1>1, <1>4 DEF PointsOf

LEMMA SpentMonotone ==
  ASSUME NEW d \in Datasets, NEW a \in Ranks(d), NEW b \in Ranks(d),
         \A t \in Ids(d) : b[t] <= a[t]
  PROVE  Spent(b) <= Spent(a)
<1>1. PointsOf(b) \in SUBSET PointsOf(a)
  BY PointsMonotone
<1> QED
  BY <1>1, PointsFinite, FS_Subset DEF Spent

\* What a talent needs stays met as points are added: what isLegal's greedy
\* search relies on.
LEMMA UnlockedMonotone ==
  ASSUME NEW d \in Datasets, NEW a \in Ranks(d), NEW b \in Ranks(d),
         NEW t \in Ids(d), \A u \in Ids(d) : b[u] <= a[u],
         Unlocked(d, b, t)
  PROVE  Unlocked(d, a, t)
<1>1. ASSUME NEW r \in d.talent[t].requires, Met(d, b, r)
      PROVE  Met(d, a, r)
  <2>1. r.id \in Ids(d) /\ r.rank \in 0 .. MaxRank /\ MaxRank \in Int
    BY TalentType, CalculatorAssumption
  <2>2. a[r.id] \in Int /\ b[r.id] \in Int /\ d.talent[r.id].max \in Int
    BY <2>1, TalentType DEF Ranks
  <2> QED
    BY <1>1, <2>1, <2>2 DEF Met
<1>2. PrerequisitesMet(d, a, t)
  BY <1>1 DEF Unlocked, PrerequisitesMet
<1>3. TierMet(d, a, t)
  <2>1. PointsOf(b) \subseteq PointsOf(a)
    BY PointsMonotone
  <2>2. Above(d, b, t) \in SUBSET Above(d, a, t)
    BY <2>1 DEF Above
  <2>3. Above(d, a, t) \in SUBSET PointsOf(a)
    BY DEF Above
  <2>4. IsFiniteSet(Above(d, a, t))
    BY <2>3, PointsFinite, FS_Subset
  <2>5. Cardinality(Above(d, b, t)) <= Cardinality(Above(d, a, t))
    BY <2>2, <2>4, FS_Subset
  <2>6. Cardinality(Above(d, a, t)) \in Nat /\ Cardinality(Above(d, b, t)) \in Nat
    BY <2>2, <2>4, FS_Subset, FS_CardinalityType
  <2> HIDE DEF Above
  <2>7. Cardinality(Above(d, b, t)) >= d.talent[t].gate
    BY DEF Unlocked, TierMet
  <2> QED
    BY <2>5, <2>6, <2>7, TalentType DEF TierMet
<1> QED
  BY <1>2, <1>3 DEF Unlocked

-----------------------------------------------------------------------------
(* Buying a point.                                                         *)

LEMMA WithRankType ==
  ASSUME NEW d \in Datasets, NEW a \in Ranks(d), NEW t \in Ids(d),
         NEW n \in 0 .. MaxRank
  PROVE  /\ WithRank(a, t, n) \in Ranks(d)
         /\ WithRank(a, t, n)[t] = n
         /\ \A u \in Ids(d) \ {t} : WithRank(a, t, n)[u] = a[u]
  BY DEF WithRank, Ranks

LEMMA SpentWithPoint ==
  ASSUME NEW d \in Datasets, NEW a \in Ranks(d), NEW t \in Ids(d),
         a[t] < d.talent[t].max
  PROVE  Spent(WithRank(a, t, a[t] + 1)) <= Spent(a) + 1
<1> DEFINE b == WithRank(a, t, a[t] + 1)
           q == <<t, a[t] + 1>>
<1>1. MaxRank \in Int /\ d.talent[t].max \in 1 .. MaxRank /\ a[t] \in 0 .. MaxRank
  BY TalentType, CalculatorAssumption DEF Ranks
<1>2. a[t] + 1 \in 1 .. MaxRank
  BY <1>1
<1>3. /\ b \in Ranks(d) /\ b[t] = a[t] + 1
      /\ \A u \in Ids(d) \ {t} : b[u] = a[u]
  BY SMTT(40), <1>1, <1>2, WithRankType
<1> HIDE DEF b
<1>4. ASSUME NEW p \in PointsOf(b), p # q PROVE p \in PointsOf(a)
  <2>1. p \in Ids(d) \X (1 .. MaxRank) /\ p[2] <= b[p[1]]
    BY <1>3 DEF PointsOf, Ranks
  <2>2. CASE p[1] = t
    <3>1. p[2] # a[t] + 1
      BY <1>4, <2>1, <2>2
    <3>2. p[2] <= a[p[1]]
      BY <1>1, <1>3, <2>1, <2>2, <3>1
    <3> QED
      BY <2>1, <3>2 DEF PointsOf, Ranks
  <2>3. CASE p[1] # t
    <3>1. p[2] <= a[p[1]]
      BY <1>3, <2>1, <2>3
    <3> QED
      BY <2>1, <3>1 DEF PointsOf, Ranks
  <2> QED
    BY <2>2, <2>3
<1>5. PointsOf(b) \in SUBSET (PointsOf(a) \cup {q})
  BY <1>4
<1>6. IsFiniteSet(PointsOf(a)) /\ Spent(a) \in Nat
  BY PointsFinite
<1> HIDE DEF q
<1>7. /\ IsFiniteSet(PointsOf(a) \cup {q})
      /\ Cardinality(PointsOf(a) \cup {q}) \in Nat
      /\ Cardinality(PointsOf(a) \cup {q}) <= Cardinality(PointsOf(a)) + 1
  <2>1. /\ IsFiniteSet(PointsOf(a) \cup {q})
        /\ Cardinality(PointsOf(a) \cup {q}) =
             IF q \in PointsOf(a) THEN Cardinality(PointsOf(a))
                                   ELSE Cardinality(PointsOf(a)) + 1
    BY <1>6, FS_AddElement
  <2> QED
    BY <1>6, <2>1 DEF Spent
<1>8. Cardinality(PointsOf(b)) <= Cardinality(PointsOf(a) \cup {q})
  BY <1>5, <1>7, FS_Subset
<1>9. Cardinality(PointsOf(b)) \in Nat
  BY <1>3, PointsFinite DEF Spent
<1> QED
  BY <1>6, <1>7, <1>8, <1>9 DEF Spent, b

\* A build that can be bought can still be bought with one point more that it
\* unlocks.
LEMMA BuyKeepsBuildable ==
  ASSUME NEW d \in Datasets, NEW a \in Ranks(d), NEW t \in Ids(d),
         Buildable(d, a), Unlocked(d, a, t), a[t] < d.talent[t].max
  PROVE  Buildable(d, WithRank(a, t, a[t] + 1))
<1> DEFINE more == WithRank(a, t, a[t] + 1)
<1>1. MaxRank \in Int /\ d.talent[t].max \in 1 .. MaxRank /\ a[t] \in 0 .. MaxRank
  BY TalentType, CalculatorAssumption DEF Ranks
<1>2. /\ more \in Ranks(d) /\ more[t] = a[t] + 1
      /\ \A u \in Ids(d) \ {t} : more[u] = a[u]
  BY <1>1 DEF WithRank, Ranks
<1> HIDE DEF more
<1>3. SUFFICES ASSUME NEW b \in Parts(d, more) \ {more}
               PROVE  \E u \in Ids(d) : b[u] < more[u] /\ Unlocked(d, b, u)
  BY DEF Buildable, more
<1>4. b \in Ranks(d) /\ \A u \in Ids(d) : b[u] <= more[u]
  BY <1>3 DEF Parts
<1>5. \A u \in Ids(d) : a[u] \in Int /\ b[u] \in 0 .. MaxRank /\ more[u] \in Int
  BY <1>1, <1>2, <1>4 DEF Ranks
<1>6. CASE b = a
  <2>1. b[t] < more[t]
    BY <1>2, <1>5, <1>6
  <2> QED
    BY <1>6, <2>1
<1>7. CASE b # a /\ b[t] <= a[t]
  <2>1. b \in Parts(d, a) \ {a}
    BY <1>2, <1>4, <1>7 DEF Parts
  <2>2. PICK u \in Ids(d) : b[u] < a[u] /\ Unlocked(d, b, u)
    BY <2>1 DEF Buildable
  <2>3. b[u] < more[u]
    BY <1>2, <1>5, <2>2
  <2> QED
    BY <2>2, <2>3
<1>8. CASE b[t] > a[t]
  <2> DEFINE less == WithRank(b, t, a[t])
  <2>1. /\ less \in Ranks(d) /\ less[t] = a[t]
        /\ \A u \in Ids(d) \ {t} : less[u] = b[u]
    BY <1>1, <1>4 DEF WithRank, Ranks
  <2> HIDE DEF less
  <2>2. b[t] = more[t]
    BY <1>2, <1>4, <1>5, <1>8
  <2>3. PICK v \in Ids(d) : b[v] # more[v]
    BY <1>2, <1>3, <1>4 DEF Ranks
  <2>4. less # a
    BY <1>2, <2>1, <2>2, <2>3
  <2>5. less \in Parts(d, a) \ {a}
    BY <1>2, <1>4, <1>5, <2>1, <2>4 DEF Parts
  <2>6. PICK u \in Ids(d) : less[u] < a[u] /\ Unlocked(d, less, u)
    BY <2>5 DEF Buildable
  <2>7. u # t
    BY <1>5, <2>1, <2>6
  <2>8. b[u] < more[u]
    BY <1>2, <2>1, <2>6, <2>7
  <2>9. \A w \in Ids(d) : less[w] <= b[w]
    BY <1>5, <1>8, <2>1
  <2>10. Unlocked(d, b, u)
    BY <1>4, <2>1, <2>6, <2>9, UnlockedMonotone
  <2> QED
    BY <2>8, <2>10
<1> QED
  BY <1>5, <1>6, <1>7, <1>8

LEMMA EmptyLegal ==
  ASSUME NEW d \in Datasets
  PROVE  Legal(d, Empty(d)) /\ Empty(d) \in Ranks(d)
<1>1. MaxRank \in Nat /\ d.budget \in Nat
  BY CalculatorAssumption DEF WellFormed
<1>2. Empty(d) \in Ranks(d) /\ \A t \in Ids(d) : Empty(d)[t] = 0
  BY <1>1 DEF Empty, Ranks
<1>3. PointsOf(Empty(d)) = {}
  <2>1. ASSUME NEW p \in PointsOf(Empty(d)) PROVE FALSE
    <3>1. p[1] \in Ids(d) /\ p[2] \in 1 .. MaxRank /\ p[2] <= Empty(d)[p[1]]
      BY DEF PointsOf, Empty
    <3> QED
      BY <1>1, <1>2, <3>1
  <2> QED
    BY <2>1
<1>4. Spent(Empty(d)) = 0
  BY <1>3, FS_EmptySet DEF Spent
<1>5. \A t \in Ids(d) : Empty(d)[t] <= d.talent[t].max
  BY <1>1, <1>2, TalentType
<1>6. ASSUME NEW b \in Parts(d, Empty(d)) PROVE b = Empty(d)
  <2>1. b \in [Ids(d) -> 0 .. MaxRank] /\ \A t \in Ids(d) : b[t] <= 0
    BY <1>2 DEF Parts, Ranks
  <2>2. \A t \in Ids(d) : b[t] = 0
    BY <1>1, <2>1
  <2> QED
    BY <2>1, <2>2 DEF Empty
<1>7. Buildable(d, Empty(d))
  BY <1>6 DEF Buildable
<1> QED
  BY <1>1, <1>2, <1>4, <1>5, <1>7 DEF Legal

LEMMA AddKeepsLegal ==
  ASSUME NEW d \in Datasets, NEW a, NEW t \in Ids(d),
         Legal(d, a), CanAdd(d, a, t)
  PROVE  Legal(d, WithRank(a, t, a[t] + 1))
<1> DEFINE more == WithRank(a, t, a[t] + 1)
<1>1. /\ a \in Ranks(d) /\ a[t] < d.talent[t].max /\ Unlocked(d, a, t)
      /\ Spent(a) < d.budget /\ Buildable(d, a) /\ d.budget \in Nat
      /\ \A u \in Ids(d) : a[u] <= d.talent[u].max
  BY CalculatorAssumption DEF Legal, CanAdd, WellFormed
<1>2. MaxRank \in Int /\ d.talent[t].max \in 1 .. MaxRank /\ a[t] \in 0 .. MaxRank
  BY <1>1, TalentType, CalculatorAssumption DEF Ranks
<1>3. /\ more \in Ranks(d) /\ more[t] = a[t] + 1
      /\ \A u \in Ids(d) \ {t} : more[u] = a[u]
  BY SMTT(40), <1>1, <1>2, WithRankType
<1>4. Buildable(d, more)
  BY <1>1, BuyKeepsBuildable
<1>5. Spent(more) <= Spent(a) + 1
  BY <1>1, SpentWithPoint
<1> HIDE DEF more
<1>6. Spent(more) <= d.budget
  BY <1>1, <1>3, <1>5, PointsFinite
<1>7. \A u \in Ids(d) : more[u] <= d.talent[u].max
  BY <1>1, <1>2, <1>3
<1>8. Legal(d, more)
  BY <1>3, <1>4, <1>6, <1>7 DEF Legal
<1> QED
  BY <1>8 DEF more

-----------------------------------------------------------------------------
(* Links.                                                                  *)

RanksTyped(code) ==
  \A i \in DOMAIN code.ranks : \A j \in DOMAIN code.ranks[i] :
     code.ranks[i][j] \in 0 .. MaxRank

LEMMA EncodedTyped ==
  ASSUME NEW d \in Datasets, NEW a \in Ranks(d)
  PROVE  RanksTyped(EncodeBuild(d, a))
<1> SUFFICES ASSUME NEW i \in DOMAIN d.trees, NEW j \in Written(a, d.trees[i])
             PROVE  a[d.trees[i][j]] \in 0 .. MaxRank
  BY DEF RanksTyped, EncodeBuild
<1>1. j \in DOMAIN d.trees[i]
  BY DEF Written
<1>2. d.trees[i][j] \in Ids(d)
  BY <1>1, PlaceType
<1> QED
  BY <1>2 DEF Ranks

LEMMA DecodedWithinRanks ==
  ASSUME NEW d \in Datasets, NEW code, RanksTyped(code),
         DecodeFailure(d, code) = "none"
  PROVE  /\ Decoded(d, code) \in Ranks(d)
         /\ \A t \in Ids(d) : Decoded(d, code)[t] <= d.talent[t].max
         /\ Spent(Decoded(d, code)) <= d.budget
         /\ LayoutKnown(d, code)
<1>1. /\ DOMAIN code.ranks = DOMAIN d.trees /\ LayoutKnown(d, code)
      /\ RanksExist(d, code) /\ ~(Spent(Decoded(d, code)) > d.budget)
  <2>1. DOMAIN code.ranks = DOMAIN d.trees
    BY DEF DecodeFailure
  <2>2. LayoutKnown(d, code)
    BY <2>1 DEF DecodeFailure
  <2>3. RanksExist(d, code)
    BY <2>1, <2>2 DEF DecodeFailure
  <2>4. ~(Spent(Decoded(d, code)) > d.budget)
    BY <2>1, <2>2, <2>3 DEF DecodeFailure
  <2> QED
    BY <2>1, <2>2, <2>3, <2>4
<1>2. ASSUME NEW t \in Ids(d)
      PROVE  DecodedRank(d, code, t) \in 0 .. MaxRank
             /\ DecodedRank(d, code, t) <= d.talent[t].max
  <2> DEFINE i == d.talent[t].tree
             j == d.talent[t].place
  <2>1. /\ i \in DOMAIN d.trees /\ d.trees[i][j] = t
        /\ d.talent[t].max \in 1 .. MaxRank /\ MaxRank \in Int
    BY SMTT(40), TalentType, CalculatorAssumption
  <2> HIDE DEF i, j
  <2>2. CASE j \in DOMAIN code.ranks[i]
    <3>1. code.ranks[i][j] \in 0 .. MaxRank
      BY <1>1, <2>1, <2>2 DEF RanksTyped
    <3>2. code.ranks[i][j] <= d.talent[t].max
      BY <1>1, <2>1, <2>2 DEF RanksExist
    <3> QED
      BY <2>2, <3>1, <3>2 DEF DecodedRank, i, j
  <2>3. CASE j \notin DOMAIN code.ranks[i]
    <3>1. DecodedRank(d, code, t) = 0
      BY <2>3 DEF DecodedRank, i, j
    <3> QED
      BY <2>1, <3>1
  <2> QED
    BY <2>2, <2>3
<1> HIDE DEF DecodedRank
<1>3. Decoded(d, code) \in Ranks(d)
  BY <1>2 DEF Decoded, Ranks
<1>4. Spent(Decoded(d, code)) \in Nat /\ d.budget \in Nat
  BY <1>3, PointsFinite, CalculatorAssumption DEF WellFormed
<1>5. Spent(Decoded(d, code)) <= d.budget
  BY <1>1, <1>4
<1> QED
  BY <1>1, <1>2, <1>3, <1>5 DEF Decoded

\* A layout that is known is the layout the link was made with, so what is
\* decoded is what was encoded.
LEMMA RoundTrip ==
  ASSUME NEW d \in Datasets, NEW e \in Datasets, NEW a \in Ranks(e),
         LayoutKnown(d, EncodeBuild(e, a))
  PROVE  /\ Ids(d) = Ids(e)
         /\ Decoded(d, EncodeBuild(e, a)) = a
         /\ \A t \in Ids(d) : d.talent[t].max = e.talent[t].max
<1> DEFINE code == EncodeBuild(e, a)
<1>1. PICK v : LayoutHash(e, e.version) = LayoutHash(d, v)
  BY DEF LayoutKnown, EncodeBuild
<1> DEFINE layout(x) == [i \in DOMAIN x.trees |->
                          [j \in DOMAIN x.trees[i] |->
                            <<x.trees[i][j], x.talent[x.trees[i][j]].max>>]]
<1>2. layout(e) = layout(d)
  BY <1>1 DEF LayoutHash
<1>3. DOMAIN e.trees = DOMAIN d.trees
  <2>1. DOMAIN layout(e) = DOMAIN e.trees /\ DOMAIN layout(d) = DOMAIN d.trees
    OBVIOUS
  <2> QED
    BY <1>2, <2>1
<1>4. ASSUME NEW i \in DOMAIN d.trees
      PROVE  /\ DOMAIN e.trees[i] = DOMAIN d.trees[i]
             /\ \A j \in DOMAIN d.trees[i] :
                  /\ e.trees[i][j] = d.trees[i][j]
                  /\ e.talent[e.trees[i][j]].max = d.talent[d.trees[i][j]].max
  <2>1. /\ layout(d)[i] = [j \in DOMAIN d.trees[i] |->
                            <<d.trees[i][j], d.talent[d.trees[i][j]].max>>]
        /\ layout(e)[i] = [j \in DOMAIN e.trees[i] |->
                            <<e.trees[i][j], e.talent[e.trees[i][j]].max>>]
    BY <1>3
  <2> HIDE DEF layout
  <2>2. DOMAIN e.trees[i] = DOMAIN d.trees[i]
    BY SMTT(40), <1>2, <2>1
  <2>3. ASSUME NEW j \in DOMAIN d.trees[i]
        PROVE  <<d.trees[i][j], d.talent[d.trees[i][j]].max>>
                 = <<e.trees[i][j], e.talent[e.trees[i][j]].max>>
    BY <1>2, <2>1, <2>2
  <2> QED
    BY SMTT(40), <2>2, <2>3
<1> HIDE DEF layout
<1>5. ASSUME NEW t \in Ids(d)
      PROVE  /\ t \in Ids(e) /\ e.talent[t].max = d.talent[t].max
             /\ e.talent[t].tree = d.talent[t].tree
             /\ e.talent[t].place = d.talent[t].place
  <2> DEFINE i == d.talent[t].tree
             j == d.talent[t].place
  <2>1. i \in DOMAIN d.trees /\ j \in DOMAIN d.trees[i] /\ d.trees[i][j] = t
    BY TalentType
  <2> HIDE DEF i, j
  <2>2. /\ i \in DOMAIN e.trees /\ j \in DOMAIN e.trees[i] /\ e.trees[i][j] = t
        /\ e.talent[t].max = d.talent[t].max
    BY <1>3, <1>4, <2>1
  <2>3. t \in Ids(e) /\ e.talent[t].tree = i /\ e.talent[t].place = j
    BY <2>2, PlaceType
  <2> QED
    BY <2>2, <2>3 DEF i, j
<1>6. ASSUME NEW t \in Ids(e) PROVE t \in Ids(d)
  <2> DEFINE i == e.talent[t].tree
             j == e.talent[t].place
  <2>1. i \in DOMAIN e.trees /\ j \in DOMAIN e.trees[i] /\ e.trees[i][j] = t
    BY TalentType
  <2> HIDE DEF i, j
  <2>2. i \in DOMAIN d.trees /\ j \in DOMAIN d.trees[i] /\ d.trees[i][j] = t
    BY <1>3, <1>4, <2>1
  <2> QED
    BY <2>2, PlaceType
<1>7. Ids(d) = Ids(e)
  BY <1>5, <1>6
<1>8. ASSUME NEW t \in Ids(d) PROVE DecodedRank(d, code, t) = a[t]
  <2> DEFINE i == d.talent[t].tree
             j == d.talent[t].place
  <2>1. /\ i \in DOMAIN e.trees /\ j \in DOMAIN e.trees[i] /\ e.trees[i][j] = t
        /\ j \in Nat /\ a[t] \in 0 .. MaxRank /\ MaxRank \in Nat
    BY SMTT(40), <1>5, TalentType, PlaceType, CalculatorAssumption DEF Ranks
  <2> HIDE DEF i, j
  <2>2. code.ranks[i] = [k \in Written(a, e.trees[i]) |-> a[e.trees[i][k]]]
    BY <2>1 DEF EncodeBuild
  <2>3. DOMAIN code.ranks[i] = Written(a, e.trees[i])
    BY <2>2
  <2> HIDE DEF code
  <2>4. CASE j \in Written(a, e.trees[i])
    BY ZenonT(40), <2>1, <2>2, <2>3, <2>4 DEF DecodedRank, i, j
  <2>5. CASE j \notin Written(a, e.trees[i])
    <3>1. ~(a[t] > 0)
      BY <2>1, <2>5 DEF Written
    <3>2. DecodedRank(d, code, t) = 0
      BY <2>3, <2>5 DEF DecodedRank, i, j
    <3> QED
      BY <2>1, <3>1, <3>2
  <2> QED
    BY <2>4, <2>5
<1> HIDE DEF code
<1>9. Decoded(d, code) = [t \in Ids(e) |-> a[t]]
  BY <1>7, <1>8 DEF Decoded
<1>10. a = [t \in Ids(e) |-> a[t]]
  BY DEF Ranks
<1> QED
  BY <1>5, <1>7, <1>9, <1>10 DEF code

\* The rules only look at the talents and the budget.
LEMMA LegalUnderSameData ==
  ASSUME NEW d, NEW e, NEW a,
         d.talent = e.talent, d.budget = e.budget, Legal(e, a)
  PROVE  Legal(d, a)
<1>1. Ids(d) = Ids(e)
  BY DEF Ids
<1>2. Ranks(d) = Ranks(e)
  BY <1>1 DEF Ranks
<1>3. Parts(d, a) = Parts(e, a)
  BY <1>1, <1>2 DEF Parts
<1>4. ASSUME NEW b, NEW t PROVE Unlocked(d, b, t) <=> Unlocked(e, b, t)
  BY DEF Unlocked, PrerequisitesMet, TierMet, Met, Above
<1>5. Buildable(d, a)
  BY <1>1, <1>3, <1>4 DEF Legal, Buildable
<1> QED
  BY <1>1, <1>2, <1>5 DEF Legal

-----------------------------------------------------------------------------
(* The inductive invariant: what is being checked, and what a link holds.  *)

CheckInv ==
  check # NoCheck =>
    /\ check \in [purpose : {"remove", "link", "cut"}, target : Ranks(page),
                  built : Ranks(page)]
    /\ \A t \in Ids(page) : check.target[t] <= page.talent[t].max
    /\ Spent(check.target) <= page.budget
    /\ check.built \in Parts(page, check.target)
    /\ Buildable(page, check.built)
    /\ check.purpose = "link" =>
         /\ link # NoLink
         /\ LayoutKnown(page, link.code)
         /\ check.target = Decoded(page, link.code)

LinkInv ==
  link # NoLink =>
    /\ link = [kept |-> TRUE, code |-> link.code, data |-> link.data, alloc |-> link.alloc]
    /\ link.data \in Datasets
    /\ Legal(link.data, link.alloc)
    /\ link.code = EncodeBuild(link.data, link.alloc)

CalculatorInv ==
  /\ served \in Datasets /\ page \in Datasets
  /\ BuildsAreReachable /\ CheckInv /\ LinkInv

\* A check starts from a target that has been looked at, with nothing bought.
LEMMA CheckStarts ==
  ASSUME NEW d \in Datasets, NEW a \in Ranks(d), NEW p \in {"remove", "link", "cut"},
         page' = d, StartCheck(d, p, a),
         \A t \in Ids(d) : a[t] <= d.talent[t].max,
         Spent(a) <= d.budget,
         p = "link" => link' # NoLink /\ LayoutKnown(d, link'.code)
                                      /\ a = Decoded(d, link'.code)
  PROVE  CheckInv'
<1>1. /\ Empty(d) \in Ranks(d) /\ Buildable(d, Empty(d))
      /\ \A t \in Ids(d) : Empty(d)[t] = 0
  BY EmptyLegal DEF Legal, Empty
<1>2. Empty(d) \in Parts(d, a)
  BY <1>1, CalculatorAssumption DEF Parts, Ranks
<1>3. /\ check' = [purpose |-> p, target |-> a, built |-> Empty(d)]
      /\ check'.purpose = p /\ check'.target = a /\ check'.built = Empty(d)
  BY DEF StartCheck
<1>4. check' \in [purpose : {"remove", "link", "cut"}, target : Ranks(d), built : Ranks(d)]
  BY <1>1, <1>3
<1> QED
  BY <1>1, <1>2, <1>3, <1>4 DEF CheckInv

LEMMA OpenKeepsInv ==
  ASSUME CalculatorInv, Idle, NEW code, RanksTyped(code), NEW p \in {"link", "cut"},
         Open(code, p),
         p = "link" => link # NoLink /\ code = link.code
  PROVE  CalculatorInv'
<1>1. served \in Datasets /\ served' = served /\ page' = served /\ link' = link
  BY DEF CalculatorInv, Open
<1>2. BuildsAreReachable'
  BY <1>1, EmptyLegal DEF Open, BuildsAreReachable
<1>3. LinkInv'
  BY <1>1 DEF LinkInv, CalculatorInv
<1>4. CheckInv'
  <2>1. CASE DecodeFailure(served, code) = "none"
    <3>1. /\ Decoded(served, code) \in Ranks(served)
          /\ \A t \in Ids(served) : Decoded(served, code)[t] <= served.talent[t].max
          /\ Spent(Decoded(served, code)) <= served.budget
          /\ LayoutKnown(served, code)
      BY <1>1, <2>1, DecodedWithinRanks
    <3>2. StartCheck(served, p, Decoded(served, code))
      BY <2>1 DEF Open
    <3> QED
      BY <1>1, <3>1, <3>2, CheckStarts
  <2>2. CASE DecodeFailure(served, code) # "none"
    <3>1. check' = NoCheck
      BY <2>2 DEF Open, Idle
    <3> QED
      BY <3>1 DEF CheckInv, NoCheck
  <2> QED
    BY <2>1, <2>2
<1> QED
  BY <1>1, <1>2, <1>3, <1>4 DEF CalculatorInv

LEMMA CutKeepsInv ==
  ASSUME CalculatorInv, OpenCutLink
  PROVE  CalculatorInv'
<1>1. PICK n \in DOMAIN link.code.ranks :
             \E m \in {0} \cup DOMAIN link.code.ranks[n] :
               Open([link.code EXCEPT !.ranks = Kept(@, n, m)], "cut")
  BY DEF OpenCutLink
<1>2. PICK m : Open([link.code EXCEPT !.ranks = Kept(@, n, m)], "cut")
  BY <1>1
<1> DEFINE code == [link.code EXCEPT !.ranks = Kept(@, n, m)]
<1>3. /\ Idle /\ link # NoLink /\ link.data \in Datasets /\ Legal(link.data, link.alloc)
      /\ link.code = EncodeBuild(link.data, link.alloc)
  BY DEF OpenCutLink, CalculatorInv, LinkInv
<1>4. link.code.ranks = EncodeBuild(link.data, link.alloc).ranks
      /\ DOMAIN link.code.ranks = DOMAIN link.data.trees
  BY <1>3 DEF EncodeBuild
<1>5. RanksTyped(link.code)
  BY <1>3, EncodedTyped DEF Legal
<1>6. code.ranks = Kept(link.code.ranks, n, m)
  BY <1>3 DEF EncodeBuild
<1>7. RanksTyped(code)
  <2> SUFFICES ASSUME NEW i \in DOMAIN code.ranks, NEW j \in DOMAIN code.ranks[i]
               PROVE  code.ranks[i][j] \in 0 .. MaxRank
    BY DEF RanksTyped
  <2>1. i \in 1 .. n /\ j \in DOMAIN link.code.ranks[i]
        /\ code.ranks[i][j] = link.code.ranks[i][j]
    BY <1>6 DEF Kept
  <2>2. i \in DOMAIN link.code.ranks
    <3>1. link.data.trees \in Seq(Seq(Ids(link.data)))
      BY <1>3, CalculatorAssumption DEF WellFormed
    <3> QED
      BY <1>1, <1>4, <2>1, <3>1
  <2> QED
    BY <1>5, <2>1, <2>2 DEF RanksTyped
<1> HIDE DEF code
<1> QED
  BY <1>2, <1>3, <1>7, OpenKeepsInv DEF code

LEMMA RemoveKeepsInv ==
  ASSUME CalculatorInv, Remove
  PROVE  CalculatorInv'
<1>1. PICK t \in Ids(page) : /\ alloc[t] > 0
                             /\ StartCheck(page, "remove", WithRank(alloc, t, alloc[t] - 1))
  BY DEF Remove
<1> DEFINE fewer == WithRank(alloc, t, alloc[t] - 1)
<1>2. /\ page \in Datasets /\ page' = page /\ link' = link /\ alloc' = alloc
      /\ served \in Datasets /\ served' = served
      /\ alloc \in Ranks(page) /\ Spent(alloc) <= page.budget /\ page.budget \in Nat
      /\ \A u \in Ids(page) : alloc[u] <= page.talent[u].max
  BY CalculatorAssumption DEF Remove, CalculatorInv, BuildsAreReachable, Legal, WellFormed
<1>3. alloc[t] \in 0 .. MaxRank /\ MaxRank \in Int /\ alloc[t] - 1 \in 0 .. MaxRank
  BY <1>1, <1>2, CalculatorAssumption DEF Ranks
<1>4. /\ fewer \in Ranks(page) /\ fewer[t] = alloc[t] - 1
      /\ \A u \in Ids(page) \ {t} : fewer[u] = alloc[u]
  BY <1>2, <1>3 DEF WithRank, Ranks
<1> HIDE DEF fewer
<1>5. \A u \in Ids(page) : alloc[u] \in Int /\ fewer[u] \in Int /\ fewer[u] <= alloc[u]
  BY <1>2, <1>3, <1>4 DEF Ranks
<1>6. \A u \in Ids(page) : fewer[u] <= page.talent[u].max
  BY <1>2, <1>5, TalentType
<1>7. Spent(fewer) <= page.budget
  <2>1. Spent(fewer) <= Spent(alloc)
    BY <1>2, <1>4, <1>5, SpentMonotone
  <2> QED
    BY <1>2, <1>4, <2>1, PointsFinite
<1>8. CheckInv'
  <2>1. StartCheck(page, "remove", fewer)
    BY <1>1 DEF fewer
  <2> QED
    BY <1>2, <1>4, <1>6, <1>7, <2>1, CheckStarts
<1> QED
  BY <1>2, <1>8 DEF CalculatorInv, BuildsAreReachable, LinkInv

LEMMA BuyKeepsInv ==
  ASSUME CalculatorInv, Buy
  PROVE  CalculatorInv'
<1>1. PICK t \in Ids(page) : Buyable(t) /\ check' = [check EXCEPT !.built = WithRank(@, t, @[t] + 1)]
  BY DEF Buy
<1> DEFINE target == check.target
           built == check.built
           more == WithRank(built, t, built[t] + 1)
<1>2. /\ check # NoCheck /\ page \in Datasets /\ CheckInv
      /\ UNCHANGED <<served, page, alloc, error, link>>
  BY DEF Buy, Idle, CalculatorInv
<1>3. /\ check \in [purpose : {"remove", "link", "cut"}, target : Ranks(page),
                    built : Ranks(page)]
      /\ built \in Parts(page, target) /\ Buildable(page, built)
      /\ \A u \in Ids(page) : target[u] <= page.talent[u].max
  BY <1>2 DEF CheckInv
<1>4. /\ built[t] < target[t] /\ Unlocked(page, built, t)
      /\ built \in Ranks(page) /\ target \in Ranks(page)
      /\ \A u \in Ids(page) : built[u] <= target[u]
  BY <1>1, <1>3 DEF Buyable, Parts
<1>5. /\ built[t] \in Nat /\ target[t] \in 0 .. MaxRank /\ MaxRank \in Int
      /\ page.talent[t].max \in 1 .. MaxRank /\ target[t] <= page.talent[t].max
  BY <1>2, <1>3, <1>4, TalentType, CalculatorAssumption DEF Ranks
<1>6. built[t] < page.talent[t].max /\ built[t] + 1 \in 0 .. MaxRank
  BY <1>4, <1>5
<1>7. /\ more \in Ranks(page) /\ more[t] = built[t] + 1
      /\ \A u \in Ids(page) \ {t} : more[u] = built[u]
  BY <1>4, <1>6 DEF WithRank, Ranks
<1>8. Buildable(page, more)
  BY <1>2, <1>3, <1>4, <1>6, BuyKeepsBuildable
<1>9. check' = [purpose |-> check.purpose, target |-> target, built |-> more]
  BY <1>1, <1>3
<1> HIDE DEF target, built, more
<1>10. more \in Parts(page, target)
  BY <1>4, <1>5, <1>7 DEF Parts
<1>11. CheckInv'
  BY <1>2, <1>3, <1>7, <1>8, <1>9, <1>10 DEF CheckInv, target
<1> QED
  BY <1>2, <1>11 DEF CalculatorInv, BuildsAreReachable, LinkInv

LEMMA ConcludeKeepsInv ==
  ASSUME CalculatorInv, Conclude
  PROVE  CalculatorInv'
<1>1. /\ check # NoCheck /\ CheckInv /\ check' = NoCheck
      /\ UNCHANGED <<served, page, link>>
  BY DEF Conclude, Settled, Idle, CalculatorInv
<1>2. Legal(page, alloc')
  <2>1. CASE Passed
    BY <1>1, <2>1 DEF Conclude, CheckInv, Passed, Legal
  <2>2. CASE ~Passed
    BY <2>2 DEF Conclude, CalculatorInv, BuildsAreReachable
  <2> QED
    BY <2>1, <2>2
<1> QED
  BY <1>1, <1>2 DEF CalculatorInv, BuildsAreReachable, CheckInv, LinkInv

THEOREM InitCalculator == Init => CalculatorInv
  BY EmptyLegal DEF Init, CalculatorInv, BuildsAreReachable, CheckInv, LinkInv

THEOREM NextCalculator == CalculatorInv /\ [Next]_vars => CalculatorInv'
<1> SUFFICES ASSUME CalculatorInv, [Next]_vars PROVE CalculatorInv'
  OBVIOUS
<1>1. CASE Deploy
  BY <1>1 DEF Deploy, CalculatorInv, BuildsAreReachable, CheckInv, LinkInv
<1>2. CASE OpenEmpty
  <2>1. served \in Datasets /\ check = NoCheck /\ check' = NoCheck
    BY <1>2 DEF OpenEmpty, Idle, CalculatorInv
  <2> QED
    BY <1>2, <2>1, EmptyLegal DEF OpenEmpty, CalculatorInv, BuildsAreReachable, CheckInv, LinkInv
<1>3. CASE OpenLink
  <2>1. /\ Idle /\ link # NoLink /\ Open(link.code, "link")
        /\ link.data \in Datasets /\ link.alloc \in Ranks(link.data)
        /\ link.code = EncodeBuild(link.data, link.alloc)
    BY <1>3 DEF OpenLink, CalculatorInv, LinkInv, Legal
  <2>2. RanksTyped(link.code)
    BY <2>1, EncodedTyped
  <2> QED
    BY <2>1, <2>2, OpenKeepsInv
<1>4. CASE OpenCutLink
  BY <1>4, CutKeepsInv
<1>5. CASE Add
  <2>1. PICK t \in Ids(page) : /\ CanAdd(page, alloc, t)
                               /\ alloc' = WithRank(alloc, t, alloc[t] + 1)
    BY <1>5 DEF Add
  <2>2. /\ check = NoCheck /\ page \in Datasets /\ Legal(page, alloc)
        /\ UNCHANGED <<served, page, check, link>>
    BY <1>5 DEF Add, Idle, CalculatorInv, BuildsAreReachable
  <2>3. Legal(page, alloc')
    BY <2>1, <2>2, AddKeepsLegal
  <2> QED
    BY <2>2, <2>3 DEF CalculatorInv, BuildsAreReachable, CheckInv, LinkInv
<1>6. CASE Remove
  BY <1>6, RemoveKeepsInv
<1>7. CASE Reset
  <2>1. page \in Datasets /\ check = NoCheck
    BY <1>7 DEF Reset, Idle, CalculatorInv
  <2> QED
    BY <1>7, <2>1, EmptyLegal DEF Reset, CalculatorInv, BuildsAreReachable, CheckInv, LinkInv
<1>8. CASE Share
  <2>1. link' = [kept |-> TRUE, code |-> EncodeBuild(page, alloc), data |-> page, alloc |-> alloc]
        /\ check = NoCheck /\ UNCHANGED <<served, page, alloc, error, check>>
    BY <1>8 DEF Share, Idle
  <2> QED
    BY <2>1 DEF CalculatorInv, BuildsAreReachable, CheckInv, LinkInv
<1>9. CASE Buy
  BY <1>9, BuyKeepsInv
<1>10. CASE Conclude
  BY <1>10, ConcludeKeepsInv
<1>11. CASE UNCHANGED vars
  BY <1>11 DEF vars, CalculatorInv, BuildsAreReachable, CheckInv, LinkInv
<1> QED
  BY <1>1, <1>2, <1>3, <1>4, <1>5, <1>6, <1>7, <1>8, <1>9, <1>10, <1>11 DEF Next

THEOREM Calculator == Spec => []CalculatorInv
  BY InitCalculator, NextCalculator, PTL DEF Spec

-----------------------------------------------------------------------------
(* The properties.                                                         *)

\* However points are added, taken back and restored, the build shown can be
\* bought point by point in the game (engine.ts isLegal, canAdd, canRemove;
\* decodeBuild).
THEOREM BuildsReachable == Spec => []BuildsAreReachable
<1>1. CalculatorInv => BuildsAreReachable
  BY DEF CalculatorInv
<1> QED
  BY <1>1, Calculator, PTL

LEMMA StuckIsIllegal ==
  ASSUME CalculatorInv, Settled, ~Passed
  PROVE  ~Legal(page, check.target)
<1>1. /\ check # NoCheck /\ CheckInv
      /\ \A t \in Ids(page) : ~Buyable(t)
  BY DEF Settled, Idle, CalculatorInv
<1>2. check.built \in Parts(page, check.target) \ {check.target}
  BY <1>1 DEF CheckInv, Passed
<1>3. ASSUME Buildable(page, check.target) PROVE FALSE
  <2>1. PICK t \in Ids(page) : /\ check.built[t] < check.target[t]
                               /\ Unlocked(page, check.built, t)
    BY <1>2, <1>3 DEF Buildable
  <2> QED
    BY <1>1, <2>1 DEF Buyable
<1> QED
  BY <1>3 DEF Legal

\* Buying greedily is enough: what isLegal refuses to build, in whatever order
\* it went, no order of points builds.
THEOREM RefusalsRight == Spec => []RefusalsAreRight
<1>1. CalculatorInv => RefusalsAreRight
  BY StuckIsIllegal DEF RefusalsAreRight
<1> QED
  BY <1>1, Calculator, PTL

LEMMA OpeningKeepsBuild ==
  ASSUME CalculatorInv, NEW d \in Datasets, Opening(d)
  PROVE  /\ error' = "none" /\ check' = NoCheck =>
              /\ Given(alloc') = Given(link.alloc)
              /\ \A p \in Given(alloc') :
                   d.talent[p[1]].max = link.data.talent[p[1]].max
         /\ SameLayout(link.data, d) => error' = "none"
<1> DEFINE e == link.data
           a == link.alloc
<1>1. /\ link # NoLink /\ page' = d /\ e \in Datasets /\ Legal(e, a)
      /\ a \in Ranks(e) /\ link.code = EncodeBuild(e, a)
  BY DEF Opening, CalculatorInv, LinkInv, Legal
<1> HIDE DEF e, a
<1>2. ASSUME SameLayout(e, d)
      PROVE  /\ LayoutKnown(d, link.code) /\ Decoded(d, link.code) = a
             /\ Legal(d, a)
  <2>1. /\ e.trees = d.trees /\ e.talent = d.talent /\ e.budget = d.budget
        /\ e.version \in {d.version} \cup d.compatible
    BY <1>2 DEF SameLayout
  <2>2. LayoutHash(e, e.version) = LayoutHash(d, e.version)
    BY <2>1 DEF LayoutHash
  <2>3. link.code.hash = LayoutHash(e, e.version)
    BY <1>1 DEF EncodeBuild
  <2>4. LayoutKnown(d, link.code)
    BY <2>1, <2>2, <2>3 DEF LayoutKnown
  <2>5. Decoded(d, link.code) = a
    BY <1>1, <2>4, RoundTrip
  <2> QED
    BY <1>1, <2>1, <2>4, <2>5, LegalUnderSameData
<1>3. CASE OpenLink
  <2>1. Open(link.code, "link") /\ served = d
    BY <1>1, <1>3 DEF OpenLink, Open
  <2>2. error' = DecodeFailure(d, link.code)
    BY <2>1 DEF Open
  <2>3. error' = "none" => check' # NoCheck
    <3>1. CASE error' = "none"
      <4>1. check'.purpose = "link"
        BY <2>1, <2>2, <3>1 DEF Open, StartCheck
      <4> QED
        BY <4>1 DEF NoCheck
    <3> QED
      BY <3>1
  <2>4. ASSUME SameLayout(e, d) PROVE error' = "none"
    <3>1. /\ LayoutKnown(d, link.code) /\ Decoded(d, link.code) = a /\ Legal(d, a)
      BY <1>2, <2>4
    <3>2. DOMAIN link.code.ranks = DOMAIN d.trees
      BY <1>1, <2>4 DEF EncodeBuild, SameLayout
    <3>3. RanksExist(d, link.code)
      <4> SUFFICES ASSUME NEW i \in DOMAIN d.trees
                   PROVE  /\ DOMAIN link.code.ranks[i] \subseteq DOMAIN d.trees[i]
                          /\ \A j \in DOMAIN link.code.ranks[i] :
                               link.code.ranks[i][j] <= d.talent[d.trees[i][j]].max
        BY DEF RanksExist
      <4>1. e.trees = d.trees
        BY <2>4 DEF SameLayout
      <4>2. link.code.ranks[i] = [j \in Written(a, d.trees[i]) |-> a[d.trees[i][j]]]
        BY <1>1, <4>1 DEF EncodeBuild
      <4>3. Written(a, d.trees[i]) \subseteq DOMAIN d.trees[i]
        BY DEF Written
      <4>4. \A t \in Ids(d) : a[t] <= d.talent[t].max
        BY <3>1 DEF Legal
      <4> QED
        BY <4>2, <4>3, <4>4, PlaceType
    <3>4. ~(Spent(Decoded(d, link.code)) > d.budget)
      BY <1>1, <3>1, PointsFinite, CalculatorAssumption DEF Legal, WellFormed
    <3> QED
      BY <2>2, <3>1, <3>2, <3>3, <3>4 DEF DecodeFailure
  <2> QED
    BY <2>3, <2>4 DEF e
<1>4. CASE check.purpose = "link" /\ Conclude
  <2>1. /\ page = d /\ check # NoCheck /\ CheckInv /\ Settled
        /\ LayoutKnown(d, link.code) /\ check.target = Decoded(d, link.code)
    BY <1>1, <1>4 DEF Conclude, Settled, Idle, CalculatorInv, CheckInv
  <2>2. /\ check.target = a
        /\ \A t \in Ids(d) : d.talent[t].max = e.talent[t].max
    BY <1>1, <2>1, RoundTrip
  <2>3. CASE Passed
    <3>1. alloc' = a /\ error' = "none"
      BY <1>4, <2>2, <2>3 DEF Conclude
    <3>2. ASSUME NEW p \in Given(a) PROVE p[1] \in Ids(d)
      BY <1>1, <2>1, RoundTrip DEF Given, Ranks
    <3> QED
      BY <2>2, <3>1, <3>2 DEF e, a
  <2>4. CASE ~Passed
    <3>1. error' = "illegal"
      BY <1>4, <2>4 DEF Conclude
    <3>2. ~Legal(d, a)
      BY <2>1, <2>2, <2>4, StuckIsIllegal
    <3> QED
      BY <1>2, <3>1, <3>2 DEF e
  <2> QED
    BY <2>3, <2>4
<1> QED
  BY <1>3, <1>4 DEF Opening

\* A link opened against the data it was made with, or any other, restores the
\* ranks it was made from or is refused, and is refused by no data that kept its
\* layout and rules (build-code.ts decodeBuild, layoutHash).
THEOREM LinksKeepBuild == Spec => LinksKeepTheirBuild
<1>1. CalculatorInv /\ [Next]_vars =>
        [\A d \in Datasets : Opening(d) =>
           /\ error' = "none" /\ check' = NoCheck =>
                /\ Given(alloc') = Given(link.alloc)
                /\ \A p \in Given(alloc') :
                     d.talent[p[1]].max = link.data.talent[p[1]].max
           /\ SameLayout(link.data, d) => error' = "none"]_vars
  BY OpeningKeepsBuild
<1> QED
  BY <1>1, Calculator, PTL DEF Spec, LinksKeepTheirBuild
=============================================================================
