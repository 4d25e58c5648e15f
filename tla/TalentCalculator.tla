--------------------------- MODULE TalentCalculator ---------------------------
(***************************************************************************)
(* The talent calculator and its share links (web/src/lib/talents/         *)
(* engine.ts and build-code.ts, components/talents/TalentCalculator.tsx).  *)
(* A build gives every talent a rank.  A point is added when the rules     *)
(* allow it, and taken back, or a whole build restored from a link, when   *)
(* the build that results can be bought point by point from nothing, which *)
(* isLegal finds out by buying it.  A link names the layout of the data it *)
(* was made with; the site's data is replaced while links are kept.        *)
(*                                                                         *)
(* isLegal's loop is a step per point, in any order, with the page         *)
(* waiting.  The layout hash is the layout itself: collisions of its 32    *)
(* bits are left out.  The address bar is the link of the build shown.     *)
(***************************************************************************)
EXTENDS Integers, Sequences, FiniteSets

CONSTANTS
    Datasets,   \* the talent data the site may serve for a class
    MaxRank     \* 9: a rank is one digit

Ids(d) == DOMAIN d.talent

\* What createEngine keeps of a dataset: the talents in the order of each tree,
\* and of each talent its place in that order, its row, ranks, tier gate (0 for
\* none) and what it requires (a rank of 0 for the full one).  This much of
\* validateTalentClass is needed.
WellFormed(d) ==
    /\ IsFiniteSet(Ids(d)) /\ d.budget \in Nat
    /\ d.trees \in Seq(Seq(Ids(d)))
    /\ \A t \in Ids(d) :
         LET x == d.talent[t]
         IN /\ x.max \in 1 .. MaxRank /\ x.row \in Nat /\ x.gate \in Nat
            /\ x.requires \subseteq [id : Ids(d), rank : 0 .. MaxRank, any : BOOLEAN]
            /\ x.tree \in DOMAIN d.trees /\ x.place \in DOMAIN d.trees[x.tree]
            /\ d.trees[x.tree][x.place] = t
    /\ \A i \in DOMAIN d.trees : \A j \in DOMAIN d.trees[i] :
         d.talent[d.trees[i][j]].tree = i /\ d.talent[d.trees[i][j]].place = j

ASSUME CalculatorAssumption ==
    MaxRank \in Nat \ {0} /\ \A d \in Datasets : WellFormed(d)

VARIABLES
    served,     \* the dataset new page loads get
    page,       \* the dataset of the open page
    alloc,      \* the build it shows
    error,      \* why the link it was opened with was not restored
    check,      \* the legality check under way
    link        \* a link somebody kept, with what it was made from

vars == <<served, page, alloc, error, check, link>>

NoCheck == [purpose |-> "none"]
NoLink == [kept |-> FALSE]

Ranks(d) == [Ids(d) -> 0 .. MaxRank]
Empty(d) == [t \in Ids(d) |-> 0]

-----------------------------------------------------------------------------
(* The rules.                                                              *)

\* A build as the set of its points, which the sums of the code count.
PointsOf(a) == {p \in (DOMAIN a) \X (1 .. MaxRank) : p[2] <= a[p[1]]}
Spent(a) == Cardinality(PointsOf(a))

Above(d, a, t) == {p \in PointsOf(a) : /\ d.talent[p[1]].tree = d.talent[t].tree
                                       /\ d.talent[p[1]].row < d.talent[t].row}
TierMet(d, a, t) == Cardinality(Above(d, a, t)) >= d.talent[t].gate

Met(d, a, r) ==
    a[r.id] >= IF r.rank = 0 THEN d.talent[r.id].max ELSE r.rank

PrerequisitesMet(d, a, t) ==
    LET required == d.talent[t].requires
    IN /\ \A r \in required : r.any \/ Met(d, a, r)
       /\ (\E r \in required : r.any) => \E r \in required : r.any /\ Met(d, a, r)

Unlocked(d, a, t) == PrerequisitesMet(d, a, t) /\ TierMet(d, a, t)

\* Mutant: the shared budget is not looked at.
CanAddUnbudgeted(d, a, t) == a[t] < d.talent[t].max /\ Unlocked(d, a, t)

CanAdd(d, a, t) ==
    a[t] < d.talent[t].max /\ Unlocked(d, a, t) /\ Spent(a) < d.budget

WithRank(a, t, n) == [a EXCEPT ![t] = n]

-----------------------------------------------------------------------------
(* Share links.                                                            *)

\* Mutant: the hash names the talents but not how many ranks they have.
LayoutHashOfIds(d, version) == <<version, d.trees>>

LayoutHash(d, version) ==
    <<version, [i \in DOMAIN d.trees |->
                  [j \in DOMAIN d.trees[i] |->
                     <<d.trees[i][j], d.talent[d.trees[i][j]].max>>]]>>

\* The places of a tree that are written: trailing zeros are trimmed.
Written(a, tree) ==
    {j \in DOMAIN tree : \E k \in DOMAIN tree : k >= j /\ a[tree[k]] > 0}

EncodeBuild(d, a) ==
    [hash |-> LayoutHash(d, d.version),
     ranks |-> [i \in DOMAIN d.trees |->
                  [j \in Written(a, d.trees[i]) |-> a[d.trees[i][j]]]]]

LayoutKnown(d, code) ==
    \E v \in {d.version} \cup d.compatible : code.hash = LayoutHash(d, v)

RanksExist(d, code) ==
    \A i \in DOMAIN d.trees :
      /\ DOMAIN code.ranks[i] \subseteq DOMAIN d.trees[i]
      /\ \A j \in DOMAIN code.ranks[i] :
           code.ranks[i][j] <= d.talent[d.trees[i][j]].max

DecodedRank(d, code, t) ==
    LET ranks == code.ranks[d.talent[t].tree]
        place == d.talent[t].place
    IN IF place \in DOMAIN ranks THEN ranks[place] ELSE 0

Decoded(d, code) == [t \in Ids(d) |-> DecodedRank(d, code, t)]

\* Why a code is refused before the rules are looked at.
DecodeFailure(d, code) ==
    IF DOMAIN code.ranks # DOMAIN d.trees THEN "format"
    ELSE IF ~LayoutKnown(d, code) THEN "layout"
    ELSE IF ~RanksExist(d, code) THEN "rank"
    ELSE IF Spent(Decoded(d, code)) > d.budget THEN "illegal"
    ELSE "none"

-----------------------------------------------------------------------------
Init == /\ served \in Datasets /\ page = served
        /\ alloc = Empty(page) /\ error = "none"
        /\ check = NoCheck /\ link = NoLink

Idle == check = NoCheck

\* The site is deployed with other data.
Deploy == /\ Idle
          /\ \E d \in Datasets \ {served} : served' = d
          /\ UNCHANGED <<page, alloc, error, check, link>>

StartCheck(d, purpose, target) ==
    check' = [purpose |-> purpose, target |-> target, built |-> Empty(d)]

\* The calculator is opened without a build.
OpenEmpty == /\ Idle
             /\ page' = served /\ alloc' = Empty(served) /\ error' = "none"
             /\ UNCHANGED <<served, check, link>>

Open(code, purpose) ==
    /\ page' = served /\ alloc' = Empty(served)
    /\ LET failure == DecodeFailure(served, code)
       IN /\ error' = failure
          /\ IF failure = "none"
               THEN StartCheck(served, purpose, Decoded(served, code))
               ELSE UNCHANGED check
    /\ UNCHANGED <<served, link>>

OpenLink == Idle /\ link # NoLink /\ Open(link.code, "link")

\* The end of a link may be lost on the way: its last trees, and the last ranks
\* of the tree before them.
Kept(ranks, n, m) ==
    [i \in 1 .. n |-> [j \in {j \in DOMAIN ranks[i] : i < n \/ j <= m} |->
                         ranks[i][j]]]

OpenCutLink ==
    /\ Idle /\ link # NoLink
    /\ \E n \in DOMAIN link.code.ranks :
         \E m \in {0} \cup DOMAIN link.code.ranks[n] :
           Open([link.code EXCEPT !.ranks = Kept(@, n, m)], "cut")

Add == /\ Idle
       /\ \E t \in Ids(page) :
            /\ CanAdd(page, alloc, t)
            /\ alloc' = WithRank(alloc, t, alloc[t] + 1)
       /\ error' = "none"
       /\ UNCHANGED <<served, page, check, link>>

Remove == /\ Idle
          /\ \E t \in Ids(page) :
               /\ alloc[t] > 0
               /\ StartCheck(page, "remove", WithRank(alloc, t, alloc[t] - 1))
          /\ UNCHANGED <<served, page, alloc, error, link>>

Reset == /\ Idle /\ Spent(alloc) > 0
         /\ alloc' = Empty(page) /\ error' = "none"
         /\ UNCHANGED <<served, page, check, link>>

\* The link of the build shown, as the button copies it and the address bar has.
Share == /\ Idle /\ Spent(alloc) > 0
         /\ link' = [kept |-> TRUE, code |-> EncodeBuild(page, alloc),
                     data |-> page, alloc |-> alloc]
         /\ UNCHANGED <<served, page, alloc, error, check>>

-----------------------------------------------------------------------------
(* isLegal: what is wanted is bought while anything of it can be.          *)

\* Mutant: the loop buys only the first point of a talent.
BuyableFirst(t) == /\ check.built[t] = 0 /\ check.target[t] > 0
                   /\ Unlocked(page, check.built, t)

Buyable(t) == /\ check.built[t] < check.target[t]
              /\ Unlocked(page, check.built, t)

\* Mutant: every talent is looked at alone, with all the others in place.
PassedAlone == \A t \in Ids(page) :
                 check.target[t] > 0 => Unlocked(page, check.target, t)

Passed == check.built = check.target

Buy == /\ ~Idle
       /\ \E t \in Ids(page) :
            /\ Buyable(t)
            /\ check' = [check EXCEPT !.built = WithRank(@, t, @[t] + 1)]
       /\ UNCHANGED <<served, page, alloc, error, link>>

Settled == ~Idle /\ \A t \in Ids(page) : ~Buyable(t)

\* A refused removal changes nothing; a refused link leaves an empty build.
Conclude ==
    /\ Settled
    /\ check' = NoCheck
    /\ IF Passed
         THEN alloc' = check.target /\ error' = "none"
         ELSE /\ error' = IF check.purpose = "remove" THEN error ELSE "illegal"
              /\ UNCHANGED alloc
    /\ UNCHANGED <<served, page, link>>

Next == \/ Deploy \/ OpenEmpty \/ OpenLink \/ OpenCutLink
        \/ Add \/ Remove \/ Reset \/ Share \/ Buy \/ Conclude

Spec == Init /\ [][Next]_vars

-----------------------------------------------------------------------------
(* What a build is: the code buys it in one order, this asks of every part *)
(* of it that something of the rest can be bought next.                    *)

Parts(d, a) == {b \in Ranks(d) : \A t \in Ids(d) : b[t] <= a[t]}

Buildable(d, a) ==
    \A b \in Parts(d, a) \ {a} :
      \E t \in Ids(d) : b[t] < a[t] /\ Unlocked(d, b, t)

Legal(d, a) == /\ a \in Ranks(d) /\ Spent(a) <= d.budget
               /\ \A t \in Ids(d) : a[t] <= d.talent[t].max
               /\ Buildable(d, a)

(* Whatever is added, taken back or restored from a link, the build shown  *)
(* can be bought point by point in the game: no talent is left without     *)
(* what it needs, and two talents never hold each other up.                *)
BuildsAreReachable == Legal(page, alloc)

(* A point that is not given back, and a link that breaks the rules, are   *)
(* refused because no order of points leads to what would remain.          *)
RefusalsAreRight == Settled /\ ~Passed => ~Legal(page, check.target)

Given(a) == {<<t, a[t]>> : t \in {t \in DOMAIN a : a[t] > 0}}

Opening(d) == link # NoLink /\ page' = d
                /\ (OpenLink \/ (check.purpose = "link" /\ Conclude))

SameLayout(old, d) ==
    /\ old.trees = d.trees /\ old.talent = d.talent /\ old.budget = d.budget
    /\ old.version \in {d.version} \cup d.compatible

(* A link restores the talents and ranks it was made from, as they were    *)
(* then, or is refused; it is not refused by the data it was made with,    *)
(* nor by a later build's that is the same and says so. However often the  *)
(* data is replaced in between, points never move to other talents.        *)
LinksKeepTheirBuild ==
    [][\A d \in Datasets : Opening(d) =>
         /\ error' = "none" /\ check' = NoCheck =>
              /\ Given(alloc') = Given(link.alloc)
              /\ \A p \in Given(alloc') :
                   d.talent[p[1]].max = link.data.talent[p[1]].max
         /\ SameLayout(link.data, d) => error' = "none"]_vars
=============================================================================
