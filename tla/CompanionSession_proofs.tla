----------------------- MODULE CompanionSession_proofs -----------------------
(***************************************************************************)
(* Proofs about CompanionSession: its stored credentials keep their types   *)
(* and their slots, no cut of an operation drops a session, and no stale    *)
(* token overwrites a later one.                                           *)
(***************************************************************************)
EXTENDS CompanionSessionInv, SequenceTheorems, WellFoundedInduction, FiniteSetTheorems, TLAPS

----------------------------------------------------------------------------
(* The latest of some credentials.                                         *)

LEMMA LatestIs ==
  ASSUME NEW n \in Nat, NEW S, S \subseteq 1 .. n, S # {}
  PROVE  Latest(S) \in S /\ \A d \in S : d <= Latest(S)
<1> DEFINE R == OpToRel(<, Nat)
           T == {n - c : c \in S}
<1>1. \A x, y \in Nat : <<y, x>> \in R <=> y < x
  BY Zenon DEF OpToRel
<1>2. IsWellFoundedOn(R, Nat)
  BY Zenon, NatLessThanWellFounded
<1>0. \A c \in S : c \in Int /\ n - c \in Nat
  OBVIOUS
<1>3. T \subseteq Nat /\ T # {}
  BY <1>0
<1> HIDE DEF R
<1>4. \E x \in T : \A y \in T : ~ (<<y, x>> \in R)
  <2> HIDE DEF T
  <2> QED  BY <1>2, <1>3, WFMin
<1>5. PICK x \in T : \A y \in T : ~ (<<y, x>> \in R)
  BY <1>4
<1>6. \A y \in T : ~ (y < x)
  BY <1>1, <1>3, <1>5
<1>7. PICK c \in S : x = n - c
  OBVIOUS
<1>8. \A d \in S : d <= c
  <2> SUFFICES ASSUME NEW d \in S PROVE d <= c
    OBVIOUS
  <2>1. n - d \in T
    OBVIOUS
  <2>2. ~ (n - d < n - c)
    BY <1>6, <1>7, <2>1
  <2> QED
    BY <1>0, <2>2
<1> QED
  BY <1>8 DEF Latest

----------------------------------------------------------------------------
(* What the server issued.                                                 *)

Grows(i, j) == Len(i) <= Len(j) /\ \A c \in 1 .. Len(i) : j[c] = i[c]

SameSession(i, c, d) == i[c].sid = i[d].sid
SameUser(i, c, d) == UserOf(i, c) = UserOf(i, d)

LEMMA IssueTypes ==
  ASSUME NEW i, IssuesOK(i)
  PROVE  /\ Len(i) \in Nat /\ Len(i) \in 0 .. MaxIssued
         /\ DOMAIN i = 1 .. Len(i)
         /\ \A c \in 1 .. Len(i) :
               /\ c \in Credential
               /\ i[c].sid \in 1 .. c
               /\ i[c].user \in Account \cup {i[c].sid}
               /\ i[c] = [sid |-> i[c].sid, user |-> i[c].user]
<1>1. /\ Len(i) \in Nat /\ DOMAIN i = 1 .. Len(i)
      /\ i \in [1 .. Len(i) -> [sid : Nat, user : Account \cup Nat]]
  BY LenProperties DEF IssuesOK
<1>2. Len(i) \in 0 .. MaxIssued
  BY <1>1, CompanionAssumption DEF IssuesOK
<1>3. \A c \in 1 .. Len(i) : i[c] = [sid |-> i[c].sid, user |-> i[c].user]
  BY <1>1
<1>4. \A c \in 1 .. Len(i) : c \in Credential
  BY <1>2, CompanionAssumption DEF Credential
<1> QED
  BY <1>1, <1>2, <1>3, <1>4 DEF IssuesOK

LEMMA UserOfSession ==
  ASSUME NEW i, IssuesOK(i), NEW c \in 1 .. Len(i), NEW d \in 1 .. Len(i), SameSession(i, c, d)
  PROVE  SameUser(i, c, d) /\ KindOf(i, c) = KindOf(i, d)
  BY DEF IssuesOK, SameSession, SameUser, UserOf, KindOf

LEMMA AnonymousSession ==
  ASSUME NEW i, IssuesOK(i), NEW c \in 1 .. Len(i), NEW d \in 1 .. Len(i),
         SameUser(i, c, d), KindOf(i, c) = "anonymous"
  PROVE  SameSession(i, c, d)
  BY DEF IssuesOK, SameSession, SameUser, UserOf, KindOf, KindOfUser

LEMMA IssueRotated ==
  ASSUME NEW i, IssuesOK(i), NEW c \in 1 .. Len(i), Len(i) < MaxIssued
  PROVE  LET j == Append(i, [sid |-> i[c].sid, user |-> i[c].user])
         IN /\ IssuesOK(j) /\ Grows(i, j) /\ Len(j) = Len(i) + 1
            /\ SameSession(j, c, Len(j))
<1> DEFINE e == [sid |-> i[c].sid, user |-> i[c].user]
           j == Append(i, e)
<1>0. Len(i) \in Nat /\ i[c].sid \in 1 .. c /\ i[c].user \in Account \cup {i[c].sid}
  BY IssueTypes
<1>1. e \in [sid : Nat, user : Account \cup Nat]
  BY <1>0
<1>2. /\ j \in Seq([sid : Nat, user : Account \cup Nat])
      /\ Len(j) = Len(i) + 1
      /\ \A d \in 1 .. Len(i) : j[d] = i[d]
      /\ j[Len(i) + 1] = e
  BY <1>1, AppendProperties DEF IssuesOK
<1>3. Len(i) \in Nat /\ e.sid = i[c].sid /\ e.user = i[c].user
  BY IssueTypes
<1> HIDE DEF e, j
<1>a. \A d \in 1 .. Len(j) : d \in 1 .. Len(i) \/ d = Len(i) + 1
  <2>1. Len(i) \in Nat /\ Len(j) = Len(i) + 1
    BY <1>0, <1>2
  <2> QED
    BY <2>1
<1>4. \A d \in 1 .. Len(j) : j[d].sid \in 1 .. d /\ j[d].user \in Account \cup {j[d].sid}
  <2> SUFFICES ASSUME NEW d \in 1 .. Len(j)
               PROVE  j[d].sid \in 1 .. d /\ j[d].user \in Account \cup {j[d].sid}
    OBVIOUS
  <2>1. CASE d \in 1 .. Len(i)
    BY <1>2, <2>1 DEF IssuesOK
  <2>2. CASE d = Len(i) + 1
    BY <1>0, <1>2, <1>3, <2>2
  <2> QED
    BY <1>a, <2>1, <2>2
<1>5. \A d \in 1 .. Len(j) : \E x \in 1 .. Len(i) : j[d].sid = i[x].sid /\ j[d].user = i[x].user
  <2> SUFFICES ASSUME NEW d \in 1 .. Len(j)
               PROVE  \E x \in 1 .. Len(i) : j[d].sid = i[x].sid /\ j[d].user = i[x].user
    OBVIOUS
  <2>1. CASE d \in 1 .. Len(i)
    BY <1>2, <2>1
  <2>2. CASE d = Len(i) + 1
    BY <1>2, <1>3, <2>2
  <2> QED
    BY <1>a, <2>1, <2>2
<1>6. \A a, b \in 1 .. Len(j) : j[a].sid = j[b].sid => j[a].user = j[b].user
  BY <1>5 DEF IssuesOK
<1>7. IssuesOK(j)
  BY <1>2, <1>3, <1>4, <1>6, CompanionAssumption DEF IssuesOK
<1>8. Grows(i, j) /\ SameSession(j, c, Len(j))
  BY <1>2, <1>3 DEF Grows, SameSession
<1> QED
  BY <1>2, <1>7, <1>8 DEF j, e

LEMMA IssueOpened ==
  ASSUME NEW i, IssuesOK(i), Len(i) < MaxIssued, NEW u \in Account \cup {Len(i) + 1}
  PROVE  LET j == NewSession(i, u)
         IN /\ IssuesOK(j) /\ Grows(i, j) /\ Len(j) = Len(i) + 1
            /\ j[Len(j)] = [sid |-> Len(j), user |-> u]
<1> DEFINE e == [sid |-> Len(i) + 1, user |-> u]
           j == NewSession(i, u)
<1>0. Len(i) \in Nat
  BY IssueTypes
<1>1. e \in [sid : Nat, user : Account \cup Nat]
  BY <1>0
<1>2. /\ j \in Seq([sid : Nat, user : Account \cup Nat])
      /\ Len(j) = Len(i) + 1
      /\ \A d \in 1 .. Len(i) : j[d] = i[d]
      /\ j[Len(i) + 1] = e
  BY <1>1, AppendProperties DEF IssuesOK, NewSession
<1>3. e.sid = Len(i) + 1 /\ e.user = u /\ e = [sid |-> Len(j), user |-> u]
  BY <1>2
<1> HIDE DEF e, j
<1>a. \A d \in 1 .. Len(j) : d \in 1 .. Len(i) \/ d = Len(j)
  <2>1. Len(i) \in Nat /\ Len(j) = Len(i) + 1
    BY <1>0, <1>2
  <2> QED
    BY <2>1
<1>4. \A d \in 1 .. Len(j) : j[d].sid \in 1 .. d /\ j[d].user \in Account \cup {j[d].sid}
  <2> SUFFICES ASSUME NEW d \in 1 .. Len(j)
               PROVE  j[d].sid \in 1 .. d /\ j[d].user \in Account \cup {j[d].sid}
    OBVIOUS
  <2>1. CASE d \in 1 .. Len(i)
    BY <1>2, <2>1 DEF IssuesOK
  <2>2. CASE d = Len(j)
    BY <1>0, <1>2, <1>3, <2>2
  <2> QED
    BY <1>a, <2>1, <2>2
<1>5. \A d \in 1 .. Len(i) : j[d].sid < Len(j)
  <2> SUFFICES ASSUME NEW d \in 1 .. Len(i) PROVE j[d].sid < Len(j)
    OBVIOUS
  <2>1. j[d].sid \in 1 .. d
    BY <1>2 DEF IssuesOK
  <2> QED
    BY <1>0, <1>2, <2>1
<1>6. \A a, b \in 1 .. Len(j) : j[a].sid = j[b].sid => j[a].user = j[b].user
  <2> TAKE a, b \in 1 .. Len(j)
  <2>1. CASE a \in 1 .. Len(i) /\ b \in 1 .. Len(i)
    BY <1>2, <2>1 DEF IssuesOK
  <2>2. CASE a = Len(j) /\ b = Len(j)
    BY <2>2
  <2>3. CASE a \in 1 .. Len(i) /\ b = Len(j)
    BY <1>0, <1>2, <1>3, <1>5, <2>3, IssueTypes
  <2>4. CASE b \in 1 .. Len(i) /\ a = Len(j)
    BY <1>0, <1>2, <1>3, <1>5, <2>4, IssueTypes
  <2> QED
    BY <1>0, <1>2, <2>1, <2>2, <2>3, <2>4
<1>7. IssuesOK(j)
  BY <1>0, <1>2, <1>4, <1>6, CompanionAssumption DEF IssuesOK
<1>8. Grows(i, j)
  BY <1>0, <1>2 DEF Grows
<1> QED
  BY <1>2, <1>3, <1>7, <1>8 DEF j

----------------------------------------------------------------------------
(* The best credential of a slot.                                          *)

LEMMA FileTypes ==
  /\ File \subseteq Int
  /\ \A c \in File : c > 0 => c \in Credential /\ c \in 1 .. MaxIssued
  /\ \A c \in Credential : c \in File /\ c > 0 /\ c # Missing
  /\ Missing \in File /\ Damaged \in File
  BY CompanionAssumption DEF File, Credential, Missing, Damaged

LEMMA SlotTypes ==
  ASSUME NEW s \in Slot
  PROVE  /\ s.main \in File /\ s.bak \in File
         /\ s.tmp \subseteq File \ {Missing}
         /\ s.marker \in Marker
         /\ \A c \in Readable(s) : c \in Credential /\ c \in 1 .. MaxIssued
  BY FileTypes DEF Slot, Marker, Readable

LEMMA BestIs ==
  ASSUME NEW i, NEW s \in Slot
  PROVE  /\ Best(i, s) \in File
         /\ s.main > 0 =>
               /\ Best(i, s) \in {s.main} \cup s.tmp
               /\ s.main <= Best(i, s)
               /\ SameUser(i, Best(i, s), s.main)
               /\ \A t \in s.tmp : t > 0 /\ SameUser(i, t, s.main) => t <= Best(i, s)
         /\ ~ (s.main > 0) /\ (\E t \in s.tmp : t > 0) =>
               /\ Best(i, s) \in s.tmp /\ Best(i, s) > 0
               /\ \A t \in s.tmp : t > 0 => t <= Best(i, s)
         /\ ~ (s.main > 0) /\ (\A t \in s.tmp : ~ (t > 0)) => Best(i, s) = s.bak
<1> DEFINE temps == {t \in s.tmp : t > 0}
           newer == {s.main} \cup {t \in temps : IsNewer(i, t, s.main)}
<1>0. MaxIssued \in Nat /\ s.main \in File /\ s.bak \in File /\ s.tmp \subseteq File
  BY CompanionAssumption, SlotTypes
<1>1. temps \subseteq 1 .. MaxIssued
  BY <1>0, FileTypes
<1>2. CASE s.main > 0
  <2>1. newer \subseteq 1 .. MaxIssued /\ newer # {}
    BY <1>0, <1>1, <1>2, FileTypes
  <2>2. Best(i, s) = Latest(newer)
    BY <1>2 DEF Best
  <2> HIDE DEF newer
  <2>3. Best(i, s) \in newer /\ \A d \in newer : d <= Best(i, s)
    BY <1>0, <2>1, <2>2, LatestIs
  <2>b. Best(i, s) \in 1 .. MaxIssued
    BY <2>1, <2>3
  <2>a. Best(i, s) \in Int
    BY <2>b
  <2>4. Best(i, s) \in Int /\ s.main \in Int /\ s.tmp \subseteq Int
    BY <1>0, <2>a, FileTypes
  <2> USE DEF newer
  <2>5. Best(i, s) \in {s.main} \cup s.tmp /\ s.main <= Best(i, s)
    BY <2>3
  <2>6. SameUser(i, Best(i, s), s.main)
    BY <2>3 DEF SameUser, IsNewer
  <2>7. \A t \in s.tmp : t > 0 /\ SameUser(i, t, s.main) => t <= Best(i, s)
    BY <2>3, <2>4, <2>5 DEF SameUser, IsNewer
  <2> QED
    BY <1>0, <1>2, <2>5, <2>6, <2>7
<1>3. CASE ~ (s.main > 0) /\ temps # {}
  <2>1. Best(i, s) = Latest(temps)
    BY <1>3 DEF Best
  <2> HIDE DEF temps
  <2>2. Best(i, s) \in temps /\ \A d \in temps : d <= Best(i, s)
    BY <1>0, <1>1, <1>3, <2>1, LatestIs
  <2> USE DEF temps
  <2> QED
    BY <1>0, <1>3, <2>2
<1>4. CASE ~ (s.main > 0) /\ temps = {}
  <2>1. Best(i, s) = s.bak
    BY <1>4 DEF Best
  <2> QED
    BY <1>0, <1>4, <2>1
<1> QED
  BY <1>2, <1>3, <1>4

LEMMA BestFacts ==
  ASSUME NEW i, NEW s \in Slot
  PROVE  /\ Best(i, s) \in Int
         /\ Best(i, s) > 0 => Best(i, s) \in Readable(s)
         /\ ~ (Best(i, s) > 0) => Readable(s) = {}
         /\ Best(i, s) > 0 => \A t \in s.tmp : t > 0 /\ SameUser(i, t, Best(i, s)) => t <= Best(i, s)
         /\ s.main > 0 => Best(i, s) > 0 /\ s.main <= Best(i, s) /\ SameUser(i, Best(i, s), s.main)
         /\ Status(i, s) = "ok" <=> Best(i, s) > 0
         /\ Status(i, s) = "missing" => s.main = Missing /\ s.bak = Missing /\ s.tmp = {}
<1>0. /\ s.main \in Int /\ s.bak \in Int /\ s.tmp \subseteq Int
      /\ Best(i, s) \in Int
  BY SlotTypes, FileTypes, BestIs
<1>1. Best(i, s) > 0 => Best(i, s) \in Readable(s)
  BY BestIs DEF Readable
<1>2. s.main > 0 => Best(i, s) > 0 /\ s.main <= Best(i, s) /\ SameUser(i, Best(i, s), s.main)
  BY <1>0, BestIs
<1>3. ~ (Best(i, s) > 0) => Readable(s) = {}
  BY <1>0, <1>2, BestIs DEF Readable
<1>4. ASSUME Best(i, s) > 0, NEW t \in s.tmp, t > 0, SameUser(i, t, Best(i, s))
      PROVE  t <= Best(i, s)
  <2>1. CASE s.main > 0
    BY <1>4, <2>1, BestIs DEF SameUser
  <2>2. CASE ~ (s.main > 0)
    BY <1>4, <2>2, BestIs
  <2> QED
    BY <2>1, <2>2
<1>5. Status(i, s) = "ok" <=> Best(i, s) > 0
  BY DEF Status
<1>6. Status(i, s) = "missing" => s.main = Missing /\ s.bak = Missing /\ s.tmp = {}
  BY DEF Status
<1> QED
  BY <1>0, <1>1, <1>2, <1>3, <1>4, <1>5, <1>6

LEMMA BestOfFiles ==
  ASSUME NEW i, NEW s, NEW z, z.main = s.main, z.bak = s.bak, z.tmp = s.tmp
  PROVE  Best(i, z) = Best(i, s)
  BY DEF Best

LEMMA BestGrows ==
  ASSUME NEW i, NEW j, Len(i) \in Nat, Grows(i, j), NEW s \in Slot, \A c \in Readable(s) : c \in 1 .. Len(i)
  PROVE  Best(j, s) = Best(i, s)
<1> DEFINE temps == {t \in s.tmp : t > 0}
<1>1. \A t \in temps : s.main > 0 => (IsNewer(j, t, s.main) <=> IsNewer(i, t, s.main))
  BY DEF Grows, IsNewer, UserOf, Readable
<1>2. s.main > 0 => {t \in temps : IsNewer(j, t, s.main)} = {t \in temps : IsNewer(i, t, s.main)}
  BY <1>1
<1> QED
  BY <1>2 DEF Best

----------------------------------------------------------------------------
(* What the operations on a slot leave behind.                             *)

Ways == {"ok", "failed", "died"}
Outcomes == [slot : Slot, how : Ways, cost : {0, 1}]

(* Slot s after a write of c that may have been cut short.                  *)
Wrote(s, c, z) ==
    /\ z \in Slot
    /\ \/ z.main = c /\ z.bak \in {s.bak, s.main, c} /\ z.tmp \subseteq s.tmp \cup {c, Damaged}
       \/ z.main = s.main /\ z.bak = s.bak /\ s.tmp \subseteq z.tmp /\ z.tmp \subseteq s.tmp \cup {c, Damaged}

SameFiles(s, z) == z \in Slot /\ z.main = s.main /\ z.bak = s.bak /\ z.tmp = s.tmp

(* Slot s after a removal of some of its files.                             *)
Cleared(s, z) ==
    /\ z \in Slot
    /\ z.main \in {s.main, Missing} /\ z.bak \in {s.bak, Missing} /\ z.tmp \in {s.tmp, {}}
    /\ z.marker \in {s.marker, NoMarker}

LEMMA BlankTypes == Blank \in Slot /\ NoMarker \in Marker /\ \A i : Best(i, Blank) = Missing
<1>1. Blank \in Slot /\ NoMarker \in Marker
  BY FileTypes DEF Blank, NoMarker, Slot, Marker
<1>2. \A i : Best(i, Blank) = Missing
  BY DEF Best, Blank, Missing
<1> QED
  BY <1>1, <1>2

LEMMA SlotFields ==
  ASSUME NEW s \in Slot
  PROVE  /\ s = [main |-> s.main, bak |-> s.bak, tmp |-> s.tmp, marker |-> s.marker]
         /\ s.main \in File /\ s.bak \in File /\ s.tmp \in SUBSET (File \ {Missing}) /\ s.marker \in Marker
  BY DEF Slot, Marker

LEMMA SlotOf ==
  ASSUME NEW a \in File, NEW b \in File, NEW T \in SUBSET (File \ {Missing}), NEW m \in Marker
  PROVE  [main |-> a, bak |-> b, tmp |-> T, marker |-> m] \in Slot
  BY DEF Slot, Marker

LEMMA SlotWithTmp ==
  ASSUME NEW s \in Slot, NEW T \in SUBSET (File \ {Missing}), NEW z, z = [s EXCEPT !.tmp = T]
  PROVE  z \in Slot /\ z.main = s.main /\ z.bak = s.bak /\ z.tmp = T /\ z.marker = s.marker
  BY DEF Slot

LEMMA SlotWithMarker ==
  ASSUME NEW s \in Slot, NEW m \in Marker, NEW z, z = [s EXCEPT !.marker = m]
  PROVE  z \in Slot /\ z.main = s.main /\ z.bak = s.bak /\ z.tmp = s.tmp /\ z.marker = m
  BY DEF Slot, Marker

LEMMA SlotWithMain ==
  ASSUME NEW s \in Slot, NEW c \in File, NEW b \in File, NEW z, z = [s EXCEPT !.main = c, !.bak = b]
  PROVE  z \in Slot /\ z.main = c /\ z.bak = b /\ z.tmp = s.tmp /\ z.marker = s.marker
  BY DEF Slot

LEMMA SlotWithBak ==
  ASSUME NEW s \in Slot, NEW b \in File, NEW z, z = [s EXCEPT !.bak = b]
  PROVE  z \in Slot /\ z.main = s.main /\ z.bak = b /\ z.tmp = s.tmp /\ z.marker = s.marker
  BY DEF Slot

LEMMA WriteStep ==
  ASSUME NEW s \in Slot, NEW c \in Credential, NEW m \in Marker, NEW o \in WriteCuts(s, c, m)
  PROVE  /\ o \in Outcomes
         /\ Wrote(s, c, o.slot)
         /\ o.slot.marker \in {s.marker, m}
         /\ o.how = "ok" => o.slot.main = c
<1> DEFINE temp == [s EXCEPT !.tmp = @ \cup {c}]
           half == [s EXCEPT !.tmp = @ \cup {Damaged}]
           blob == [s EXCEPT !.main = c, !.bak = IF s.main = Missing THEN @ ELSE s.main]
           both == [blob EXCEPT !.marker = m]
           done == [both EXCEPT !.tmp = {}]
           Good(z) == Wrote(s, c, z) /\ z.marker \in {s.marker, m}
<1>0. /\ s.main \in File /\ s.bak \in File /\ s.tmp \subseteq File \ {Missing}
      /\ c \in File /\ c # Missing /\ Damaged \in File /\ Damaged # Missing
  BY SlotTypes, FileTypes DEF Damaged, Missing
<1>1. Good(s)
  BY DEF Wrote
<1>2. Good(temp)
  <2>1. temp = [s EXCEPT !.tmp = s.tmp \cup {c}]
    BY DEF Slot
  <2> HIDE DEF temp
  <2> QED
    BY <1>0, <2>1, SlotWithTmp DEF Wrote
<1>3. Good(half)
  <2>1. half = [s EXCEPT !.tmp = s.tmp \cup {Damaged}]
    BY DEF Slot
  <2> HIDE DEF half
  <2> QED
    BY <1>0, <2>1, SlotWithTmp DEF Wrote
<1>4. /\ blob \in Slot /\ blob.main = c /\ blob.bak \in {s.bak, s.main}
      /\ blob.tmp = s.tmp /\ blob.marker = s.marker
  <2> DEFINE b == IF s.main = Missing THEN s.bak ELSE s.main
  <2>1. b \in File /\ b \in {s.bak, s.main}
    BY <1>0
  <2>2. blob = [s EXCEPT !.main = c, !.bak = b]
    BY DEF Slot
  <2> HIDE DEF b, blob
  <2> QED
    BY <1>0, <2>1, <2>2 DEF Slot
<1> HIDE DEF blob
<1>5. /\ both \in Slot /\ both.main = c /\ both.bak \in {s.bak, s.main}
      /\ both.tmp = s.tmp /\ both.marker = m
  BY <1>4, SlotWithMarker
<1> HIDE DEF both
<1>6. /\ done \in Slot /\ done.main = c /\ done.bak \in {s.bak, s.main}
      /\ done.tmp = {} /\ done.marker = m
  BY <1>5 DEF Slot
<1> HIDE DEF done
<1>7. Good(blob) /\ Good(both) /\ Good(done)
  BY <1>4, <1>5, <1>6 DEF Wrote
<1>8. \/ o \in {Outcome(done, "ok", 0), Outcome(both, "ok", 1)}
      \/ \E x \in {s, temp, blob} : o = Outcome(x, "failed", 1)
      \/ \E x \in {s, half, temp, blob, both} : o = Outcome(x, "died", 1)
  BY DEF WriteCuts, blob, both, done
<1> HIDE DEF temp, half, Good
<1>9. PICK x \in {s, half, temp, blob, both, done}, how \in Ways, cost \in {0, 1} :
        o = Outcome(x, how, cost) /\ (how = "ok" => x \in {both, done})
  BY <1>8 DEF Ways
<1>10. o.slot = x /\ o.how = how /\ Good(x)
  BY <1>1, <1>2, <1>3, <1>7, <1>9 DEF Outcome
<1> USE DEF Good
<1>11. o \in Outcomes
  BY <1>9, <1>10 DEF Outcomes, Outcome, Wrote
<1> QED
  BY <1>5, <1>6, <1>9, <1>10, <1>11

LEMMA PersistStep ==
  ASSUME NEW s \in Slot, NEW c \in Credential, NEW m \in Marker, NEW o \in PersistCuts(s, c, m)
  PROVE  /\ o \in Outcomes
         /\ Wrote(s, c, o.slot)
         /\ o.slot.marker \in {s.marker, m}
<1> DEFINE again(x) == IF x.how = "failed" /\ x.slot.main = c THEN [x EXCEPT !.slot.bak = c] ELSE x
           whole == [s EXCEPT !.main = c, !.bak = c, !.marker = m, !.tmp = {}]
<1>0. c \in File
  BY FileTypes
<1>1. CASE \E x \in WriteCuts(s, c, m) : o = again(x)
  <2>1. PICK x \in WriteCuts(s, c, m) : o = again(x)
    BY <1>1
  <2>2. x \in Outcomes /\ Wrote(s, c, x.slot) /\ x.slot.marker \in {s.marker, m}
    BY <2>1, WriteStep
  <2>3. CASE ~ (x.how = "failed" /\ x.slot.main = c)
    BY <2>1, <2>2, <2>3
  <2>4. CASE x.how = "failed" /\ x.slot.main = c
    <3> DEFINE z == [x.slot EXCEPT !.bak = c]
    <3>1. o = [slot |-> z, how |-> x.how, cost |-> x.cost]
      BY <2>1, <2>2, <2>4 DEF Outcomes
    <3>2. x.slot \in Slot
      BY <2>2 DEF Outcomes
    <3>3. z \in Slot /\ z.main = c /\ z.bak = c /\ z.tmp = x.slot.tmp /\ z.marker = x.slot.marker
      BY <1>0, <2>4, <3>2, SlotWithBak
    <3> HIDE DEF z
    <3>4. z.tmp \subseteq s.tmp \cup {c, Damaged}
      BY <2>2, <2>4, <3>3 DEF Wrote
    <3>5. Wrote(s, c, z)
      BY <3>3, <3>4 DEF Wrote
    <3> QED
      BY <2>2, <3>1, <3>3, <3>5 DEF Outcomes
  <2> QED
    BY <2>3, <2>4
<1>2. CASE o = Outcome(whole, "ok", 1)
  <2>1. /\ whole \in Slot /\ whole.main = c /\ whole.bak = c /\ whole.tmp = {} /\ whole.marker = m
    BY <1>0 DEF Slot, Marker
  <2> HIDE DEF whole
  <2> QED
    BY <1>2, <2>1 DEF Wrote, Outcome, Outcomes, Ways
<1> QED
  BY <1>1, <1>2 DEF PersistCuts

LEMMA MarkerStep ==
  ASSUME NEW s \in Slot, NEW m \in Marker, NEW o \in WriteMarkerCuts(s, m)
  PROVE  /\ o \in Outcomes
         /\ SameFiles(s, o.slot)
<1> DEFINE marked == [s EXCEPT !.marker = m]
<1>1. marked \in Slot /\ SameFiles(s, marked)
  BY SlotWithMarker DEF SameFiles
<1>2. \E x \in {s, marked}, how \in Ways, cost \in {0, 1} : o = Outcome(x, how, cost)
  BY DEF WriteMarkerCuts, Ways
<1> HIDE DEF marked
<1> QED
  BY <1>1, <1>2 DEF Outcome, Outcome, Outcomes, Ways, SameFiles

LEMMA CleanupStep ==
  ASSUME NEW s \in Slot, NEW o \in CleanupCuts(s)
  PROVE  /\ o \in Outcomes /\ o.how = "ok"
         /\ o.slot.main = s.main /\ o.slot.bak = s.bak /\ o.slot.tmp \in {s.tmp, {}}
         /\ o.slot.marker = s.marker
<1> DEFINE z == [s EXCEPT !.tmp = {}]
<1>1. z \in Slot /\ z.main = s.main /\ z.bak = s.bak /\ z.tmp = {} /\ z.marker = s.marker
  BY SlotWithTmp
<1>2. o = Outcome(z, "ok", 0) \/ o = Outcome(s, "ok", 1)
  BY DEF CleanupCuts
<1> HIDE DEF z
<1> QED
  BY <1>1, <1>2 DEF Outcome, Outcomes, Ways

LEMMA RemovalStep ==
  ASSUME NEW s \in Slot, NEW order, NEW o \in RemovalCuts(s, order)
  PROVE  o \in Outcomes /\ Cleared(s, o.slot)
<1>1. PICK files : \E how \in Ways, cost \in {0, 1} : o = Outcome(Emptied(s, files), how, cost)
  <2> DEFINE upTo(k) == {order[j] : j \in 1 .. k}
             all == upTo(Len(order))
  <2>1. \/ o = Outcome(Emptied(s, all), "ok", 0)
        \/ \E f \in all : o = Outcome(Emptied(s, all \ {f}), "ok", 1)
        \/ \E k \in 0 .. Len(order) : o = Outcome(Emptied(s, upTo(k)), "died", 1)
    BY Zenon DEF RemovalCuts
  <2> HIDE DEF upTo, all
  <2>2. CASE o = Outcome(Emptied(s, all), "ok", 0)
    BY <2>2 DEF Ways
  <2>3. CASE \E f \in all : o = Outcome(Emptied(s, all \ {f}), "ok", 1)
    BY Zenon, <2>3 DEF Ways
  <2>4. CASE \E k \in 0 .. Len(order) : o = Outcome(Emptied(s, upTo(k)), "died", 1)
    BY Zenon, <2>4 DEF Ways
  <2> QED
    BY <2>1, <2>2, <2>3, <2>4
<1>2. Cleared(s, Emptied(s, files))
  <2>1. \A f \in {"main", "bak", "tmp", "marker"} :
           (IF f \in files THEN Blank ELSE s) \in {s, Blank}
    OBVIOUS
  <2>2. Blank.main = Missing /\ Blank.bak = Missing /\ Blank.tmp = {} /\ Blank.marker = NoMarker
    BY DEF Blank
  <2>3. /\ Emptied(s, files).main \in {s.main, Missing} /\ Emptied(s, files).bak \in {s.bak, Missing}
        /\ Emptied(s, files).tmp \in {s.tmp, {}} /\ Emptied(s, files).marker \in {s.marker, NoMarker}
    BY <2>2 DEF Emptied
  <2>4. Emptied(s, files) \in Slot
    <3>1. Blank \in Slot
      BY BlankTypes
    <3> QED
      BY <3>1 DEF Emptied, Slot
  <2> QED
    BY <2>3, <2>4 DEF Cleared
<1> QED
  BY <1>1, <1>2 DEF Outcome, Outcomes, Cleared

LEMMA DeleteStep ==
  ASSUME NEW s \in Slot, NEW o \in DeleteCuts(s)
  PROVE  o \in Outcomes /\ Cleared(s, o.slot)
  BY RemovalStep DEF DeleteCuts

LEMMA QuarantineStep ==
  ASSUME NEW s \in Slot, NEW o \in QuarantineCuts(s)
  PROVE  o \in Outcomes /\ Cleared(s, o.slot)
<1>1. CASE o \in RemovalCuts(s, <<"main", "bak", "tmp", "marker">>)
  BY <1>1, RemovalStep
<1>2. CASE o = Outcome(s, "failed", 1)
  BY <1>2 DEF Outcome, Outcomes, Ways, Cleared
<1> QED
  BY <1>1, <1>2 DEF QuarantineCuts

----------------------------------------------------------------------------
(* The best credential after a change.                                     *)

(* Credential c continues the session that slot s holds.                    *)
Ahead(i, s, c) ==
    /\ c \in 1 .. Len(i)
    /\ Best(i, s) > 0 /\ Best(i, s) <= c
    /\ SameSession(i, Best(i, s), c)

(* From s to z the slot keeps its session, and its main file its user and   *)
(* no earlier credential of that user.                                     *)
Onward(i, s, z) ==
    /\ Best(i, s) > 0 => Best(i, z) > 0 /\ SameSession(i, Best(i, s), Best(i, z))
    /\ s.main > 0 => z.main > 0 /\ s.main <= z.main /\ SameUser(i, s.main, z.main)

LEMMA OnwardSelf ==
  ASSUME NEW i, NEW s \in Slot, NEW z, z.main = s.main, Best(i, z) = Best(i, s)
  PROVE  Onward(i, s, z)
<1>1. s.main \in Int
  BY SlotTypes, FileTypes
<1> QED
  BY <1>1 DEF Onward, SameSession, SameUser

LEMMA OnwardTwice ==
  ASSUME NEW i, NEW s \in Slot, NEW y \in Slot, NEW z \in Slot, Onward(i, s, y), Onward(i, y, z)
  PROVE  Onward(i, s, z)
<1>1. s.main \in Int /\ y.main \in Int /\ z.main \in Int
  BY SlotTypes, FileTypes
<1> QED
  BY <1>1 DEF Onward, SameSession, SameUser

LEMMA WroteReadable ==
  ASSUME NEW s \in Slot, NEW c \in Credential, NEW z, Wrote(s, c, z)
  PROVE  Readable(z) \subseteq Readable(s) \cup {c}
<1>1. ~ (Damaged > 0)
  BY DEF Damaged
<1> QED
  BY <1>1 DEF Wrote, Readable

LEMMA ClearedReadable ==
  ASSUME NEW s \in Slot, NEW z, Cleared(s, z)
  PROVE  Readable(z) \subseteq Readable(s)
<1>1. ~ (Missing > 0)
  BY DEF Missing
<1> QED
  BY <1>1 DEF Cleared, Readable

LEMMA SlotReads ==
  ASSUME NEW i, NEW r, NEW s, SlotOK(i, r, s), NEW z \in Slot, Readable(z) \subseteq Readable(s)
  PROVE  SlotOK(i, r, z)
  BY DEF SlotOK

LEMMA SlotWrote ==
  ASSUME NEW i, IssuesOK(i), NEW r, NEW s, SlotOK(i, r, s), NEW c, Fits(i, r, c),
         r = "legacy" => \A d \in Readable(s) : SameUser(i, c, d),
         NEW z, Wrote(s, c, z)
  PROVE  SlotOK(i, r, z)
<1>1. c \in Credential /\ s \in Slot /\ z \in Slot
  BY IssueTypes DEF Fits, SlotOK, Wrote
<1>2. Readable(z) \subseteq Readable(s) \cup {c}
  BY <1>1, WroteReadable
<1> QED
  BY <1>1, <1>2 DEF SlotOK, SameUser

LEMMA SlotGrows ==
  ASSUME NEW i, NEW j, IssuesOK(i), IssuesOK(j), Grows(i, j), NEW r, NEW s, SlotOK(i, r, s)
  PROVE  SlotOK(j, r, s) /\ Best(j, s) = Best(i, s)
<1>1. Len(i) \in Nat /\ Len(j) \in Nat /\ Len(i) <= Len(j)
  BY IssueTypes DEF Grows
<1>2. \A c \in Readable(s) : c \in 1 .. Len(i) /\ c \in 1 .. Len(j)
  BY <1>1 DEF SlotOK, Fits
<1>3. \A c \in Readable(s) : UserOf(j, c) = UserOf(i, c)
  BY <1>2 DEF Grows, UserOf
<1>4. SlotOK(j, r, s)
  BY <1>2, <1>3 DEF SlotOK, Fits, KindOf
<1>5. Best(j, s) = Best(i, s)
  BY <1>1, <1>2, BestGrows DEF SlotOK
<1> QED
  BY <1>4, <1>5

LEMMA BestOK ==
  ASSUME NEW i, IssuesOK(i), NEW r, NEW s, SlotOK(i, r, s), Best(i, s) > 0
  PROVE  /\ Best(i, s) \in 1 .. Len(i) /\ Fits(i, r, Best(i, s))
         /\ Best(i, s) \in Readable(s) /\ Ahead(i, s, Best(i, s))
         /\ r = "legacy" => \A d \in Readable(s) : SameUser(i, Best(i, s), d)
<1>1. Best(i, s) \in Readable(s) /\ Best(i, s) \in Int
  BY BestFacts DEF SlotOK
<1>2. Fits(i, r, Best(i, s)) /\ Best(i, s) \in 1 .. Len(i)
  BY <1>1 DEF SlotOK, Fits
<1>3. Ahead(i, s, Best(i, s))
  BY <1>1, <1>2 DEF Ahead, SameSession
<1> QED
  BY <1>1, <1>2, <1>3 DEF SlotOK, SameUser

LEMMA AheadFits ==
  ASSUME NEW i, IssuesOK(i), NEW r, NEW s, SlotOK(i, r, s), NEW c, Ahead(i, s, c)
  PROVE  /\ Fits(i, r, c) /\ SameUser(i, c, Best(i, s)) /\ KindOf(i, c) = KindOf(i, Best(i, s))
         /\ r = "legacy" => \A d \in Readable(s) : SameUser(i, c, d)
<1>1. /\ Best(i, s) \in 1 .. Len(i) /\ Fits(i, r, Best(i, s))
      /\ r = "legacy" => \A d \in Readable(s) : SameUser(i, Best(i, s), d)
  BY BestOK DEF Ahead
<1>2. SameUser(i, Best(i, s), c) /\ KindOf(i, Best(i, s)) = KindOf(i, c)
  BY <1>1, UserOfSession DEF Ahead
<1> QED
  BY <1>1, <1>2 DEF Ahead, Fits, SameUser

LEMMA AheadWrite ==
  ASSUME NEW i, IssuesOK(i), NEW r, NEW s, SlotOK(i, r, s), NEW c, Ahead(i, s, c),
         NEW z, Wrote(s, c, z)
  PROVE  /\ SlotOK(i, r, z)
         /\ Best(i, z) \in {Best(i, s), c}
         /\ Ahead(i, z, c)
         /\ Onward(i, s, z)
<1> DEFINE b == Best(i, s)
<1>1. /\ s \in Slot /\ z \in Slot /\ c \in Credential /\ c \in Int /\ b \in Int
      /\ s.main \in Int /\ s.bak \in Int /\ s.tmp \subseteq Int
      /\ z.main \in Int /\ z.bak \in Int /\ z.tmp \subseteq Int /\ Best(i, z) \in Int
      /\ b > 0 /\ b <= c /\ c > 0
  BY IssueTypes, SlotTypes, FileTypes, BestIs DEF SlotOK, Wrote, Ahead
<1>2. SameUser(i, c, b)
  BY AheadFits
<1>3. SlotOK(i, r, z)
  BY AheadFits, SlotWrote
<1>4. /\ \A t \in s.tmp : t > 0 /\ SameUser(i, t, b) => t <= b
      /\ s.main > 0 => s.main <= b /\ SameUser(i, b, s.main)
  BY <1>1, BestFacts
<1>5. Best(i, z) \in {b, c}
  <2>1. CASE z.main = c
    <3>1. \A t \in z.tmp : t > 0 /\ SameUser(i, t, c) => t <= c
      <4> SUFFICES ASSUME NEW t \in z.tmp, t > 0, SameUser(i, t, c) PROVE t <= c
        OBVIOUS
      <4>1. t = c \/ t \in s.tmp
        BY <1>1, <2>1 DEF Wrote, Damaged
      <4> QED
        BY <1>1, <1>2, <1>4, <4>1 DEF SameUser
    <3>2. z.main > 0 /\ Best(i, z) \in {c} \cup z.tmp /\ c <= Best(i, z) /\ SameUser(i, Best(i, z), c)
      BY <1>1, <2>1, BestIs
    <3> QED
      BY <1>1, <3>1, <3>2
  <2>2. CASE z.main # c
    <3>0. z.main = s.main /\ z.bak = s.bak /\ s.tmp \subseteq z.tmp /\ z.tmp \subseteq s.tmp \cup {c, Damaged}
      BY <2>2 DEF Wrote
    <3>1. CASE s.main > 0
      <4>1. /\ Best(i, z) \in {s.main} \cup z.tmp /\ SameUser(i, Best(i, z), s.main)
            /\ s.main <= Best(i, z)
            /\ \A t \in z.tmp : t > 0 /\ SameUser(i, t, s.main) => t <= Best(i, z)
        BY <1>1, <3>0, <3>1, BestIs
      <4>2. b \in {s.main} \cup s.tmp
        BY <1>1, <3>1, BestIs
      <4>3. b <= Best(i, z)
        BY <1>1, <1>4, <3>0, <3>1, <4>1, <4>2 DEF SameUser
      <4>4. Best(i, z) = s.main \/ Best(i, z) = c \/ Best(i, z) \in s.tmp
        BY <1>1, <3>0, <3>1, <4>1 DEF Damaged
      <4> QED
        BY <1>1, <1>4, <3>1, <4>1, <4>3, <4>4 DEF SameUser
    <3>2. CASE ~ (s.main > 0) /\ \E t \in s.tmp : t > 0
      <4>1. b \in s.tmp /\ \A t \in s.tmp : t > 0 => t <= b
        BY <1>1, <3>2, BestIs
      <4>2. Best(i, z) \in z.tmp /\ Best(i, z) > 0 /\ \A t \in z.tmp : t > 0 => t <= Best(i, z)
        BY <1>1, <3>0, <3>2, BestIs
      <4>3. Best(i, z) \in s.tmp \/ Best(i, z) = c
        BY <3>0, <4>2 DEF Damaged
      <4> QED
        BY <1>1, <3>0, <4>1, <4>2, <4>3
    <3>3. CASE ~ (s.main > 0) /\ \A t \in s.tmp : ~ (t > 0)
      <4>1. b = s.bak
        BY <1>1, <3>3, BestIs
      <4>2. CASE c \in z.tmp
        <5>1. Best(i, z) \in z.tmp /\ Best(i, z) > 0
          BY <1>1, <3>0, <3>3, <4>2, BestIs
        <5> QED
          BY <3>0, <3>3, <5>1 DEF Damaged
      <4>3. CASE c \notin z.tmp
        <5>1. \A t \in z.tmp : ~ (t > 0)
          BY <3>0, <3>3, <4>3 DEF Damaged
        <5> QED
          BY <1>1, <3>0, <3>3, <4>1, <5>1, BestIs
      <4> QED
        BY <4>2, <4>3
    <3> QED
      BY <3>1, <3>2, <3>3
  <2> QED
    BY <2>1, <2>2
<1>6. Ahead(i, z, c)
  BY <1>1, <1>5 DEF Ahead, SameSession
<1>7. Onward(i, s, z)
  <2>1. Best(i, z) > 0 /\ SameSession(i, b, Best(i, z))
    BY <1>1, <1>5 DEF Ahead, SameSession
  <2>2. s.main > 0 => z.main > 0 /\ s.main <= z.main /\ SameUser(i, s.main, z.main)
    BY <1>1, <1>2, <1>4 DEF Wrote, SameUser
  <2> QED
    BY <2>1, <2>2 DEF Onward
<1> QED
  BY <1>3, <1>5, <1>6, <1>7

----------------------------------------------------------------------------
(* The disk along an operation.                                            *)

Disks == [vault : [Role -> Slot], how : Ways, left : 0 .. MaxFaults]

(* The other slots are left alone.                                         *)
Elsewhere(v, r, w) == \A q \in Role : q # r => w[q] = v[q]

LEMMA OnStep ==
  ASSUME NEW d \in Disks, NEW r \in Role, NEW cuts, \A o \in cuts : o \in Outcomes,
         NEW e \in On(d, r, cuts)
  PROVE  /\ e \in Disks
         /\ Elsewhere(d.vault, r, e.vault)
         /\ \/ d.how # "ok" /\ e = d
            \/ d.how = "ok" /\ \E o \in cuts : e.vault[r] = o.slot /\ e.how = o.how
<1>1. CASE d.how # "ok"
  BY <1>1 DEF On, Elsewhere
<1>2. CASE d.how = "ok"
  <2>1. PICK o \in cuts : /\ o.cost <= d.left
                          /\ e = [vault |-> [d.vault EXCEPT ![r] = o.slot], how |-> o.how, left |-> d.left - o.cost]
    BY <1>2 DEF On
  <2>2. o.slot \in Slot /\ o.how \in Ways /\ o.cost \in {0, 1}
    BY DEF Outcomes
  <2>3. d.vault \in [Role -> Slot] /\ d.left \in 0 .. MaxFaults
    BY DEF Disks
  <2>4. e.vault \in [Role -> Slot] /\ e.vault[r] = o.slot /\ Elsewhere(d.vault, r, e.vault)
    BY <2>1, <2>2, <2>3 DEF Elsewhere
  <2>5. d.left - o.cost \in 0 .. MaxFaults
    BY <2>1, <2>2, <2>3, CompanionAssumption
  <2>6. e \in Disks
    BY <2>1, <2>2, <2>4, <2>5 DEF Disks
  <2> QED
    BY <1>2, <2>1, <2>4, <2>6
<1> QED
  BY <1>1, <1>2

LEMMA DiskTypes ==
  ASSUME NEW d \in Disks
  PROVE  /\ d.vault \in [Role -> Slot] /\ d.how \in Ways /\ d.left \in 0 .. MaxFaults
         /\ \A r \in Role : d.vault[r] \in Slot
         /\ Caught(d) \in Disks /\ Caught(d).vault = d.vault
         /\ Caught(d).how = "died" <=> d.how = "died"
  BY DEF Disks, Caught, Ways

LEMMA OnWrite ==
  ASSUME NEW d \in Disks, NEW r \in Role, NEW c \in Credential, NEW m \in Marker,
         NEW e \in On(d, r, WriteCuts(d.vault[r], c, m))
  PROVE  /\ e \in Disks
         /\ Elsewhere(d.vault, r, e.vault)
         /\ \/ d.how # "ok" /\ e = d
            \/ /\ d.how = "ok"
               /\ Wrote(d.vault[r], c, e.vault[r])
               /\ e.vault[r].marker \in {d.vault[r].marker, m}
               /\ e.how = "ok" => e.vault[r].main = c
<1>1. d.vault[r] \in Slot
  BY DiskTypes
<1>2. \A o \in WriteCuts(d.vault[r], c, m) :
         /\ o \in Outcomes /\ Wrote(d.vault[r], c, o.slot) /\ o.slot.marker \in {d.vault[r].marker, m}
         /\ o.how = "ok" => o.slot.main = c
  BY <1>1, WriteStep
<1>3. /\ e \in Disks /\ Elsewhere(d.vault, r, e.vault)
      /\ \/ d.how # "ok" /\ e = d
         \/ d.how = "ok" /\ \E o \in WriteCuts(d.vault[r], c, m) : e.vault[r] = o.slot /\ e.how = o.how
  BY <1>2, OnStep
<1> QED
  BY <1>2, <1>3

LEMMA OnPersist ==
  ASSUME NEW d \in Disks, NEW r \in Role, NEW c \in Credential, NEW m \in Marker, NEW f \in Disks, f.vault = d.vault,
         NEW e \in On(f, r, PersistCuts(d.vault[r], c, m))
  PROVE  /\ e \in Disks
         /\ Elsewhere(d.vault, r, e.vault)
         /\ e.vault = d.vault \/ Wrote(d.vault[r], c, e.vault[r])
<1>1. d.vault[r] \in Slot
  BY DiskTypes
<1>2. \A o \in PersistCuts(d.vault[r], c, m) : o \in Outcomes /\ Wrote(d.vault[r], c, o.slot)
  BY <1>1, PersistStep
<1>3. /\ e \in Disks /\ Elsewhere(f.vault, r, e.vault)
      /\ \/ e = f
         \/ \E o \in PersistCuts(d.vault[r], c, m) : e.vault[r] = o.slot /\ e.how = o.how
  BY <1>2, OnStep
<1> QED
  BY <1>2, <1>3

LEMMA OnClear ==
  ASSUME NEW d \in Disks, NEW r \in Role, NEW cuts, cuts \in {DeleteCuts(d.vault[r]), QuarantineCuts(d.vault[r])},
         NEW e \in On(d, r, cuts)
  PROVE  /\ e \in Disks
         /\ Elsewhere(d.vault, r, e.vault)
         /\ Cleared(d.vault[r], e.vault[r])
         /\ d.how # "ok" => e = d
<1>1. d.vault[r] \in Slot
  BY DiskTypes
<1>2. \A o \in cuts : o \in Outcomes /\ Cleared(d.vault[r], o.slot)
  BY <1>1, DeleteStep, QuarantineStep
<1>3. /\ e \in Disks /\ Elsewhere(d.vault, r, e.vault)
      /\ \/ d.how # "ok" /\ e = d
         \/ d.how = "ok" /\ \E o \in cuts : e.vault[r] = o.slot /\ e.how = o.how
  BY <1>2, OnStep
<1> QED
  BY <1>1, <1>2, <1>3 DEF Cleared

LEMMA OnMark ==
  ASSUME NEW d \in Disks, NEW r \in Role, NEW kind \in {"anonymous", "registered"}, NEW f \in Disks, f.vault = d.vault,
         NEW e \in MarkRejected(f, r, kind)
  PROVE  /\ e \in Disks
         /\ Elsewhere(d.vault, r, e.vault)
         /\ SameFiles(d.vault[r], e.vault[r])
<1>1. d.vault[r] \in Slot /\ [kind |-> kind, rejected |-> TRUE] \in Marker
  BY DiskTypes DEF Marker
<1> DEFINE cuts == WriteMarkerCuts(f.vault[r], [kind |-> kind, rejected |-> TRUE])
<1>2. \A o \in cuts : o \in Outcomes /\ SameFiles(d.vault[r], o.slot)
  BY <1>1, MarkerStep
<1>3. e \in On(f, r, cuts)
  BY DEF MarkRejected
<1> HIDE DEF cuts
<1>4. /\ e \in Disks /\ Elsewhere(f.vault, r, e.vault)
      /\ e = f \/ \E o \in cuts : e.vault[r] = o.slot
  BY <1>2, <1>3, OnStep
<1> QED
  BY <1>1, <1>2, <1>4 DEF SameFiles

LEMMA VaultStep ==
  ASSUME NEW i, NEW v, VaultOK(i, v), NEW r \in Role, NEW w \in [Role -> Slot],
         Elsewhere(v, r, w), SlotOK(i, r, w[r])
  PROVE  VaultOK(i, w)
  BY DEF VaultOK, Elsewhere

LEMMA VaultGrows ==
  ASSUME NEW i, NEW j, IssuesOK(i), IssuesOK(j), Grows(i, j), NEW v, VaultOK(i, v)
  PROVE  VaultOK(j, v) /\ \A r \in Role : Best(j, v[r]) = Best(i, v[r])
  BY SlotGrows DEF VaultOK

----------------------------------------------------------------------------
(* Healing keeps what the slots hold.                                      *)

LEMMA KindTypes ==
  /\ \A u : KindOfUser(u) \in {"anonymous", "registered"}
  /\ \A i, c : KindOf(i, c) \in {"anonymous", "registered"}
  /\ \A kind \in {"anonymous", "registered"} : MarkerFor(kind) \in Marker /\ ~ MarkerFor(kind).rejected
  BY DEF KindOf, KindOfUser, MarkerFor, Marker

(* Slot s after a repair.                                                   *)
Repaired(i, s, z) ==
    /\ Best(i, z) = Best(i, s)
    /\ Onward(i, s, z)
    /\ Readable(z) \subseteq Readable(s)
    /\ z.marker.rejected => s.marker.rejected

LEMMA RepairStep ==
  ASSUME NEW i, IssuesOK(i), NEW d \in Disks, VaultOK(i, d.vault), NEW r \in Role, NEW e \in Repair(i, d, r)
  PROVE  /\ e \in Disks /\ VaultOK(i, e.vault)
         /\ Elsewhere(d.vault, r, e.vault)
         /\ Repaired(i, d.vault[r], e.vault[r])
<1> DEFINE s == d.vault[r]
           z == e.vault[r]
           b == Best(i, s)
           m == IF s.marker.kind # "none" THEN s.marker ELSE MarkerFor(KindOf(i, b))
<1>0. s \in Slot /\ SlotOK(i, r, s) /\ s.marker \in Marker
  BY DiskTypes, SlotTypes DEF VaultOK
<1>1. CASE Status(i, s) = "ok" /\ b # s.main
  <2>1. b > 0 /\ e \in On(d, r, WriteCuts(s, b, m))
    BY <1>0, <1>1, BestFacts DEF Repair
  <2>2. m \in Marker /\ (m.rejected => s.marker.rejected)
    BY <1>0, KindTypes
  <2>3. Ahead(i, s, b) /\ b \in Readable(s) /\ b \in 1 .. Len(i) /\ b \in Credential
    BY <1>0, <2>1, BestOK, IssueTypes
  <2> HIDE DEF m
  <2>4. /\ e \in Disks /\ Elsewhere(d.vault, r, e.vault)
        /\ \/ e = d
           \/ Wrote(s, b, z) /\ z.marker \in {s.marker, m}
    BY <2>1, <2>2, <2>3, OnWrite
  <2>5. CASE e = d
    BY <1>0, <2>4, <2>5, OnwardSelf DEF Repaired
  <2>6. CASE Wrote(s, b, z) /\ z.marker \in {s.marker, m}
    <3>1. SlotOK(i, r, z) /\ Best(i, z) = b /\ Onward(i, s, z)
      BY <1>0, <2>3, <2>6, AheadWrite
    <3>2. Readable(z) \subseteq Readable(s)
      BY <1>0, <2>3, <2>6, WroteReadable
    <3>3. VaultOK(i, e.vault)
      BY <2>4, <3>1, VaultStep, DiskTypes
    <3> QED
      BY <2>2, <2>4, <2>6, <3>1, <3>2, <3>3 DEF Repaired
  <2> QED
    BY <2>4, <2>5, <2>6
<1>2. CASE ~ (Status(i, s) = "ok" /\ b # s.main)
  <2>1. e \in On(d, r, CleanupCuts(s))
    BY <1>2 DEF Repair
  <2>2. \A o \in CleanupCuts(s) :
           /\ o \in Outcomes
           /\ o.slot.main = s.main /\ o.slot.bak = s.bak /\ o.slot.tmp \in {s.tmp, {}}
           /\ o.slot.marker = s.marker
    BY <1>0, CleanupStep
  <2>3. /\ e \in Disks /\ Elsewhere(d.vault, r, e.vault)
        /\ z.main = s.main /\ z.bak = s.bak /\ z.tmp \in {s.tmp, {}} /\ z.marker = s.marker
    <3>1. /\ e \in Disks /\ Elsewhere(d.vault, r, e.vault)
          /\ \/ e = d
             \/ \E o \in CleanupCuts(s) : e.vault[r] = o.slot
      BY <2>1, <2>2, OnStep
    <3> QED
      BY <2>2, <3>1
  <2>4. z \in Slot /\ Readable(z) \subseteq Readable(s)
    BY <2>3, DiskTypes DEF Readable
  <2>5. Best(i, z) = b
    <3>1. CASE z.tmp = s.tmp
      BY <2>3, <3>1, BestOfFiles
    <3>2. CASE z.tmp = {} /\ b > 0
      <4>1. b = s.main /\ z.main > 0
        BY <1>0, <1>2, <2>3, <3>2, BestFacts
      <4> QED
        BY <2>3, <2>4, <3>2, <4>1, BestIs
    <3>3. CASE z.tmp = {} /\ ~ (b > 0)
      <4>1. ~ (s.main > 0) /\ \A t \in s.tmp : ~ (t > 0)
        BY <1>0, <3>3, BestFacts DEF Readable
      <4>2. b = s.bak
        BY <1>0, <4>1, BestIs
      <4> QED
        BY <2>3, <2>4, <3>3, <4>1, <4>2, BestIs
    <3> QED
      BY <2>3, <3>1, <3>2, <3>3
  <2>6. Onward(i, s, z)
    BY <1>0, <2>3, <2>5, OnwardSelf
  <2>7. VaultOK(i, e.vault)
    BY <1>0, <2>3, <2>4, SlotReads, VaultStep, DiskTypes
  <2> QED
    BY <2>3, <2>4, <2>5, <2>6, <2>7 DEF Repaired
<1> QED
  BY <1>1, <1>2

(* The legacy slot held the identity of the primary, and lost some files.   *)
Redundant(i, v, w) ==
    /\ Best(i, v["primary"]) > 0 /\ Best(i, v["legacy"]) > 0
    /\ SameUser(i, Best(i, v["primary"]), Best(i, v["legacy"]))
    /\ KindOf(i, Best(i, v["primary"])) = "anonymous"
    /\ Readable(w["legacy"]) \subseteq Readable(v["legacy"])
    /\ w["legacy"].marker.rejected => v["legacy"].marker.rejected

LEMMA DropStep ==
  ASSUME NEW i, IssuesOK(i), NEW d \in Disks, VaultOK(i, d.vault), NEW e \in DropLegacyCopy(i, d)
  PROVE  /\ e \in Disks /\ VaultOK(i, e.vault)
         /\ Elsewhere(d.vault, "legacy", e.vault)
         /\ e.vault = d.vault \/ Redundant(i, d.vault, e.vault)
<1>0. "legacy" \in Role /\ "primary" \in Role
  BY DEF Role
<1>1. CASE e = d
  BY <1>1 DEF Elsewhere
<1>2. CASE /\ d.how = "ok" /\ Best(i, d.vault["primary"]) > 0 /\ Best(i, d.vault["legacy"]) > 0
           /\ SameUser(i, Best(i, d.vault["primary"]), Best(i, d.vault["legacy"]))
           /\ KindOf(i, Best(i, d.vault["primary"])) = "anonymous"
           /\ e \in On(d, "legacy", DeleteCuts(d.vault["legacy"]))
  <2>1. /\ e \in Disks /\ Elsewhere(d.vault, "legacy", e.vault)
        /\ Cleared(d.vault["legacy"], e.vault["legacy"])
    BY <1>0, <1>2, OnClear
  <2>2. d.vault["legacy"] \in Slot /\ e.vault["legacy"] \in Slot /\ e.vault \in [Role -> Slot]
    BY <1>0, <2>1, DiskTypes
  <2>3. Readable(e.vault["legacy"]) \subseteq Readable(d.vault["legacy"])
    BY <2>1, <2>2, ClearedReadable
  <2>a. SlotOK(i, "legacy", e.vault["legacy"])
    BY <1>0, <2>2, <2>3, SlotReads DEF VaultOK
  <2>4. VaultOK(i, e.vault)
    BY <1>0, <2>1, <2>2, <2>a, VaultStep
  <2>5. e.vault["legacy"].marker.rejected => d.vault["legacy"].marker.rejected
    BY <2>1 DEF Cleared, NoMarker
  <2> QED
    BY <1>2, <2>1, <2>3, <2>4, <2>5 DEF Redundant
<1>3. d.vault["primary"] \in Slot /\ d.vault["legacy"] \in Slot
  BY <1>0, DiskTypes
<1>4. /\ Status(i, d.vault["primary"]) = "ok" <=> Best(i, d.vault["primary"]) > 0
      /\ Status(i, d.vault["legacy"]) = "ok" <=> Best(i, d.vault["legacy"]) > 0
  BY <1>3, BestFacts
<1> QED
  BY <1>1, <1>2, <1>4 DEF DropLegacyCopy, Read, SameUser

(* What healing makes of the vault: each slot is repaired, or the legacy    *)
(* slot's copy of the primary's identity goes.                             *)
Healed(i, v, w) ==
    /\ VaultOK(i, w)
    /\ w["pending"] = v["pending"]
    /\ Repaired(i, v["primary"], w["primary"])
    /\ Repaired(i, v["legacy"], w["legacy"]) \/ Redundant(i, v, w)

LEMMA HealStep ==
  ASSUME SessionInv, NEW h \in HealStorage
  PROVE  h \in Disks /\ Healed(issued, vault, h.vault)
<1>0. /\ IssuesOK(issued) /\ VaultOK(issued, vault)
      /\ "primary" \in Role /\ "legacy" \in Role /\ "pending" \in Role
  BY DEF SessionInv, Role
<1>1. Disk \in Disks /\ Disk.vault = vault
  <2>1. MaxFaults - faults \in 0 .. MaxFaults
    BY CompanionAssumption DEF SessionInv
  <2> QED
    BY <1>0, <2>1 DEF Disk, Disks, VaultOK, Ways
<1>a. PICK a \in Repair(issued, Disk, "primary") :
        \E b \in Repair(issued, a, "legacy") : \E d \in DropLegacyCopy(issued, b) : h = Caught(d)
  BY DEF HealStorage
<1>b. PICK b \in Repair(issued, a, "legacy") : \E d \in DropLegacyCopy(issued, b) : h = Caught(d)
  BY <1>a
<1>2. PICK d \in DropLegacyCopy(issued, b) : h = Caught(d)
  BY <1>b
<1>3. /\ a \in Disks /\ VaultOK(issued, a.vault) /\ Elsewhere(vault, "primary", a.vault)
      /\ Repaired(issued, vault["primary"], a.vault["primary"])
  BY <1>0, <1>1, RepairStep
<1>4. /\ b \in Disks /\ VaultOK(issued, b.vault) /\ Elsewhere(a.vault, "legacy", b.vault)
      /\ Repaired(issued, a.vault["legacy"], b.vault["legacy"])
  BY <1>0, <1>3, RepairStep
<1>5. /\ d \in Disks /\ VaultOK(issued, d.vault) /\ Elsewhere(b.vault, "legacy", d.vault)
      /\ d.vault = b.vault \/ Redundant(issued, b.vault, d.vault)
  BY <1>0, <1>4, DropStep
<1>6. h \in Disks /\ h.vault = d.vault
  BY <1>2, <1>5, DiskTypes
<1>7. /\ b.vault["primary"] = a.vault["primary"] /\ a.vault["legacy"] = vault["legacy"]
      /\ d.vault["primary"] = a.vault["primary"] /\ d.vault["pending"] = vault["pending"]
  BY <1>0, <1>3, <1>4, <1>5 DEF Elsewhere
<1>8. CASE d.vault = b.vault
  BY <1>3, <1>4, <1>5, <1>6, <1>7, <1>8 DEF Healed
<1>9. CASE Redundant(issued, b.vault, d.vault)
  <2>1. Redundant(issued, vault, d.vault)
    BY <1>3, <1>4, <1>7, <1>9 DEF Redundant, Repaired
  <2> QED
    BY <1>3, <1>5, <1>6, <1>7, <2>1 DEF Healed
<1> QED
  BY <1>5, <1>8, <1>9

----------------------------------------------------------------------------
(* The server's answers.                                                   *)

LEMMA GrowsSelf ==
  ASSUME NEW i, IssuesOK(i)
  PROVE  Grows(i, i)
  BY IssueTypes DEF Grows

LEMMA RefreshAnswer ==
  ASSUME NEW i, IssuesOK(i), NEW a, NEW c \in 1 .. Len(i), NEW x \in RefreshAnswers(i, a, c)
  PROVE  /\ IssuesOK(x.issued) /\ Grows(i, x.issued) /\ x.alive \subseteq a
         /\ x.reply \in {"none", "granted", "refused"}
         /\ x.reply = "refused" => x.issued = i
         /\ x.reply = "granted" =>
               x.cred \in 1 .. Len(x.issued) /\ c <= x.cred /\ SameSession(x.issued, c, x.cred)
<1> DEFINE rotated == Append(i, [sid |-> i[c].sid, user |-> i[c].user])
<1>0. Len(i) \in Nat /\ IssuesOK(i) /\ Grows(i, i)
  BY IssueTypes, GrowsSelf
<1>1. CASE x = Answer("none", 0, i, a)
  BY <1>0, <1>1 DEF Answer
<1>2. CASE Len(i) < MaxIssued /\ \E y \in {"granted", "none"} : x = Answer(y, Len(rotated), rotated, a)
  <2>1. /\ IssuesOK(rotated) /\ Grows(i, rotated) /\ Len(rotated) = Len(i) + 1
        /\ SameSession(rotated, c, Len(rotated))
    BY <1>2, IssueRotated
  <2>2. /\ x.issued = rotated /\ x.alive = a /\ x.cred = Len(rotated) /\ x.reply \in {"granted", "none"}
    BY <1>2 DEF Answer
  <2> HIDE DEF rotated
  <2> QED
    BY <1>0, <2>1, <2>2
<1>3. CASE x = Answer("granted", Current(i, c), i, a)
  <2> DEFINE S == {d \in 1 .. Len(i) : i[d].sid = i[c].sid}
  <2>1. S \subseteq 1 .. Len(i) /\ S # {} /\ c \in S
    OBVIOUS
  <2>2. Latest(S) \in S /\ \A d \in S : d <= Latest(S)
    <3> HIDE DEF S
    <3> QED  BY <1>0, <2>1, LatestIs
  <2>3. Current(i, c) \in 1 .. Len(i) /\ c <= Current(i, c) /\ SameSession(i, c, Current(i, c))
    BY <2>1, <2>2 DEF Current, SameSession
  <2> QED
    BY <1>0, <1>3, <2>3 DEF Answer
<1>4. CASE \E y \in {a, a \ {i[c].sid}} : x = Answer("refused", 0, i, y)
  BY <1>0, <1>4 DEF Answer
<1>5. \/ x = Answer("none", 0, i, a)
      \/ Len(i) < MaxIssued /\ \E y \in {"granted", "none"} : x = Answer(y, Len(rotated), rotated, a)
      \/ x = Answer("granted", Current(i, c), i, a)
      \/ \E y \in {a, a \ {i[c].sid}} : x = Answer("refused", 0, i, y)
  <2> HIDE DEF rotated
  <2> QED  BY DEF RefreshAnswers, rotated
<1> QED
  BY <1>1, <1>2, <1>3, <1>4, <1>5

LEMMA FitsGrows ==
  ASSUME NEW i, NEW j, IssuesOK(i), IssuesOK(j), Grows(i, j), NEW r, NEW c, Fits(i, r, c)
  PROVE  Fits(j, r, c) /\ j[c] = i[c]
<1>1. Len(i) \in Nat /\ Len(j) \in Nat /\ Len(i) <= Len(j) /\ c \in 1 .. Len(i)
  BY IssueTypes DEF Grows, Fits
<1>2. j[c] = i[c]
  BY <1>1 DEF Grows
<1> QED
  BY <1>1, <1>2 DEF Fits, KindOf, UserOf

LEMMA AheadGrows ==
  ASSUME NEW i, NEW j, IssuesOK(i), IssuesOK(j), Grows(i, j), NEW r, NEW s, SlotOK(i, r, s),
         NEW c, Ahead(i, s, c)
  PROVE  Ahead(j, s, c)
<1>1. Best(j, s) = Best(i, s)
  BY SlotGrows
<1>2. Fits(i, r, c) /\ Fits(i, r, Best(i, s))
  BY AheadFits, BestOK DEF Ahead
<1>3. Fits(j, r, c) /\ j[c] = i[c] /\ j[Best(i, s)] = i[Best(i, s)]
  BY <1>2, FitsGrows
<1> QED
  BY <1>1, <1>3 DEF Ahead, SameSession, Fits

----------------------------------------------------------------------------
(* What a process holds in memory.                                         *)

OneMemory(i, m) == m \in Memory /\ \A r \in Kept : HeldOK(i, r, m.held[r])

LEMMA MemoryTypes ==
  /\ NotHeld \in Unwritten /\ FreshMemory \in Memory
  /\ \A i : OneMemory(i, FreshMemory)
  /\ \A r \in Kept : r \in Role
<1>1. NotHeld \in Unwritten
  BY DEF NotHeld, Unwritten
<1>2. FreshMemory \in Memory /\ \A r \in Kept : FreshMemory.held[r] = NotHeld
  BY <1>1 DEF FreshMemory, Memory
<1> QED
  BY <1>1, <1>2 DEF OneMemory, HeldOK, Kept, Role

LEMMA MemoryOf ==
  ASSUME NEW i, NEW m, MemoryOK(i, m), NEW p \in Process
  PROVE  OneMemory(i, m[p])
  BY DEF MemoryOK, OneMemory

LEMMA OneMemoryGrows ==
  ASSUME NEW i, NEW j, IssuesOK(i), IssuesOK(j), Grows(i, j), NEW m, OneMemory(i, m)
  PROVE  OneMemory(j, m)
<1> SUFFICES ASSUME NEW r \in Kept PROVE HeldOK(j, r, m.held[r])
  BY DEF OneMemory
<1>1. HeldOK(i, r, m.held[r])
  BY DEF OneMemory
<1> QED
  BY <1>1, FitsGrows DEF HeldOK

LEMMA MemoryGrows ==
  ASSUME NEW i, NEW j, IssuesOK(i), IssuesOK(j), Grows(i, j), NEW m, MemoryOK(i, m)
  PROVE  MemoryOK(j, m)
<1> SUFFICES ASSUME NEW p \in Process PROVE OneMemory(j, m[p])
  BY DEF MemoryOK, OneMemory
<1> QED
  BY MemoryOf, OneMemoryGrows

LEMMA MemoryHolds ==
  ASSUME NEW i, NEW m, OneMemory(i, m), NEW r \in Kept, NEW h \in Unwritten, HeldOK(i, r, h)
  PROVE  /\ OneMemory(i, [m EXCEPT !.held[r] = h])
         /\ [m EXCEPT !.held[r] = h].held[r] = h
  BY DEF OneMemory, Memory

LEMMA MemoryVerifies ==
  ASSUME NEW i, NEW m, OneMemory(i, m), NEW u \in Account \cup {NoUser}
  PROVE  OneMemory(i, [m EXCEPT !.verified = u])
  BY DEF OneMemory, Memory

LEMMA MemoryDrops ==
  ASSUME NEW i, NEW m, OneMemory(i, m), NEW r \in Kept, NEW s
  PROVE  /\ OneMemory(i, Dropping(i, m, r, s))
         /\ \/ Dropping(i, m, r, s).held[r] = NotHeld
            \/ HeldApplies(i, Dropping(i, m, r, s).held[r], s)
<1>1. NotHeld \in Unwritten /\ HeldOK(i, r, NotHeld)
  BY MemoryTypes DEF HeldOK
<1> QED
  BY <1>1, MemoryHolds DEF Dropping

LEMMA EndStep ==
  ASSUME NEW i, MemoryOK(i, memory), NEW p \in Process, NEW d \in Disks, NEW m, OneMemory(i, m), End(p, d, m)
  PROVE  /\ vault' = d.vault /\ vault' \in [Role -> Slot]
         /\ faults' \in 0 .. MaxFaults
         /\ MemoryOK(i, memory')
<1>1. vault' = d.vault /\ vault' \in [Role -> Slot]
  BY DiskTypes DEF End
<1>2. faults' \in 0 .. MaxFaults
  <2>1. d.left \in 0 .. MaxFaults /\ MaxFaults \in Nat
    BY DiskTypes, CompanionAssumption
  <2> QED
    BY <2>1 DEF End
<1>3. MemoryOK(i, memory')
  <2> DEFINE n == IF d.how = "died" THEN FreshMemory ELSE m
  <2>1. OneMemory(i, n)
    BY MemoryTypes
  <2>2. memory' = [memory EXCEPT ![p] = n]
    BY DEF End
  <2> HIDE DEF n
  <2> QED
    BY <2>1, <2>2 DEF MemoryOK, OneMemory
<1> QED
  BY <1>1, <1>2, <1>3

----------------------------------------------------------------------------
(* Tokens.                                                                 *)

(* A step that changed slot r of v, and kept its session.                   *)
Landed(i, r, v) ==
    /\ VaultOK(i, vault') /\ MemoryOK(i, memory') /\ faults' \in 0 .. MaxFaults
    /\ Elsewhere(v, r, vault')
    /\ Onward(i, v[r], vault'[r])

LEMMA LandedSelf ==
  ASSUME NEW i, NEW v, VaultOK(i, v), NEW r \in Role, vault' = v,
         MemoryOK(i, memory'), faults' \in 0 .. MaxFaults
  PROVE  Landed(i, r, v)
<1>1. v[r] \in Slot
  BY DEF VaultOK
<1> QED
  BY <1>1, OnwardSelf DEF Landed, Elsewhere

LEMMA LandedTwice ==
  ASSUME NEW i, NEW v, VaultOK(i, v), NEW r \in Role, NEW w, VaultOK(i, w),
         Elsewhere(v, r, w), Onward(i, v[r], w[r]), Landed(i, r, w)
  PROVE  Landed(i, r, v)
<1>1. v[r] \in Slot /\ w[r] \in Slot /\ vault'[r] \in Slot
  BY DEF VaultOK, Landed
<1>2. Onward(i, v[r], vault'[r])
  BY <1>1, OnwardTwice DEF Landed
<1> QED
  BY <1>2 DEF Landed, Elsewhere

LEMMA MarkStep ==
  ASSUME NEW i, IssuesOK(i), NEW d \in Disks, VaultOK(i, d.vault), NEW f \in Disks, f.vault = d.vault,
         NEW r \in Role, NEW kind \in {"anonymous", "registered"}, NEW e \in MarkRejected(f, r, kind)
  PROVE  /\ e \in Disks /\ VaultOK(i, e.vault) /\ Elsewhere(d.vault, r, e.vault)
         /\ Onward(i, d.vault[r], e.vault[r])
<1>1. /\ e \in Disks /\ Elsewhere(d.vault, r, e.vault) /\ SameFiles(d.vault[r], e.vault[r])
      /\ d.vault[r] \in Slot /\ SlotOK(i, r, d.vault[r]) /\ e.vault \in [Role -> Slot]
  BY OnMark, DiskTypes DEF VaultOK
<1>2. SlotOK(i, r, e.vault[r])
  BY <1>1, SlotReads DEF SameFiles, Readable
<1>3. Onward(i, d.vault[r], e.vault[r])
  BY <1>1, BestOfFiles, OnwardSelf DEF SameFiles
<1> QED
  BY <1>1, <1>2, <1>3, VaultStep

LEMMA PersistedStep ==
  ASSUME NEW i, IssuesOK(i), NEW d \in Disks, VaultOK(i, d.vault), NEW f \in Disks, f.vault = d.vault,
         NEW r \in Role, NEW c, Ahead(i, d.vault[r], c), NEW kind \in {"anonymous", "registered"},
         NEW e \in On(f, r, PersistCuts(d.vault[r], c, MarkerFor(kind)))
  PROVE  /\ e \in Disks /\ VaultOK(i, e.vault) /\ Elsewhere(d.vault, r, e.vault)
         /\ Onward(i, d.vault[r], e.vault[r])
         /\ Ahead(i, e.vault[r], c)
<1>0. c \in Credential /\ MarkerFor(kind) \in Marker /\ SlotOK(i, r, d.vault[r]) /\ d.vault[r] \in Slot
  BY IssueTypes, KindTypes, DiskTypes DEF Ahead, VaultOK
<1>1. /\ e \in Disks /\ Elsewhere(d.vault, r, e.vault)
      /\ e.vault = d.vault \/ Wrote(d.vault[r], c, e.vault[r])
  BY <1>0, OnPersist
<1>2. CASE e.vault = d.vault
  BY <1>0, <1>1, <1>2, OnwardSelf
<1>3. CASE Wrote(d.vault[r], c, e.vault[r])
  <2>1. SlotOK(i, r, e.vault[r]) /\ Ahead(i, e.vault[r], c) /\ Onward(i, d.vault[r], e.vault[r])
    BY <1>0, <1>3, AheadWrite
  <2>2. VaultOK(i, e.vault)
    BY <1>1, <2>1, DiskTypes, VaultStep
  <2> QED
    BY <1>1, <2>1, <2>2
<1> QED
  BY <1>1, <1>2, <1>3

LEMMA VerifiedStep ==
  ASSUME NEW i, IssuesOK(i), MemoryOK(i, memory), NEW p \in Process, NEW r \in Role,
         NEW d \in Disks, VaultOK(i, d.vault), NEW m, OneMemory(i, m),
         NEW c, Ahead(i, d.vault[r], c), NEW a, Verified(p, r, d, m, c, i, a)
  PROVE  Landed(i, r, d.vault)
<1> DEFINE user == i[c].user
<1>1. CASE End(p, d, m)
  BY <1>1, EndStep, LandedSelf
<1>2. CASE \E e \in MarkRejected(Caught(d), r, "registered") : End(p, e, m)
  <2>1. PICK e \in MarkRejected(Caught(d), r, "registered") : End(p, e, m)
    BY <1>2
  <2>2. /\ e \in Disks /\ VaultOK(i, e.vault) /\ Elsewhere(d.vault, r, e.vault)
        /\ Onward(i, d.vault[r], e.vault[r])
    BY DiskTypes, MarkStep
  <2>3. Landed(i, r, e.vault)
    BY <2>1, <2>2, EndStep, LandedSelf
  <2> QED
    BY <2>2, <2>3, LandedTwice
<1>3. CASE /\ KindOfUser(user) # "anonymous"
           /\ \E e \in On(Caught(d), r, PersistCuts(d.vault[r], c, MarkerFor("registered"))) :
                 End(p, e, IF e.how = "ok" THEN [m EXCEPT !.verified = user] ELSE m)
  <2>1. PICK e \in On(Caught(d), r, PersistCuts(d.vault[r], c, MarkerFor("registered"))) :
           End(p, e, IF e.how = "ok" THEN [m EXCEPT !.verified = user] ELSE m)
    BY <1>3
  <2>2. /\ e \in Disks /\ VaultOK(i, e.vault) /\ Elsewhere(d.vault, r, e.vault)
        /\ Onward(i, d.vault[r], e.vault[r])
    BY DiskTypes, PersistedStep
  <2>3. user \in Account \cup {NoUser}
    BY <1>3 DEF KindOfUser
  <2>4. OneMemory(i, IF e.how = "ok" THEN [m EXCEPT !.verified = user] ELSE m)
    BY <2>3, MemoryVerifies
  <2>5. Landed(i, r, e.vault)
    BY <2>1, <2>2, <2>4, EndStep, LandedSelf
  <2> QED
    BY <2>2, <2>5, LandedTwice
<1> QED
  BY <1>1, <1>2, <1>3 DEF Verified

(* One attempt, with credential c or with what the slot holds.              *)
LEMMA RefreshAttempt ==
  ASSUME SessionInv, NEW r \in Role, NEW s, SlotOK(issued, r, s), NEW c, Ahead(issued, s, c),
         NEW t \in RefreshAttempts(c, Read(issued, s))
  PROVE  /\ IssuesOK(t.answer.issued) /\ Grows(issued, t.answer.issued) /\ t.answer.alive \subseteq alive
         /\ t.answer.reply \in {"none", "granted", "refused"}
         /\ t.answer.reply = "granted" =>
               /\ Ahead(t.answer.issued, s, t.answer.cred)
               /\ HeldOK(t.answer.issued, r, [cred |-> t.answer.cred, replaced |-> t.of])
               /\ [cred |-> t.answer.cred, replaced |-> t.of] \in Unwritten
<1> DEFINE b == Best(issued, s)
<1>0. IssuesOK(issued) /\ Len(issued) \in Nat /\ s \in Slot
  BY IssueTypes DEF SessionInv, SlotOK
<1>1. /\ Ahead(issued, s, b) /\ c \in 1 .. Len(issued) /\ b \in 1 .. Len(issued)
      /\ Fits(issued, r, c) /\ Fits(issued, r, b)
  BY <1>0, BestOK, AheadFits DEF Ahead
<1>2. PICK of \in {c, b} :
        /\ t.of = of
        /\ \E a : a \subseteq alive /\ t.answer \in RefreshAnswers(issued, a, of)
  <2>1. CASE \E x \in RefreshAnswers(issued, alive, c) : t = [answer |-> x, of |-> c]
    BY <2>1
  <2>2. CASE \E f \in RefreshAnswers(issued, alive, c) :
               /\ f.reply = "refused"
               /\ \E x \in RefreshAnswers(f.issued, f.alive, b) : t = [answer |-> x, of |-> b]
    <3>1. PICK f \in RefreshAnswers(issued, alive, c) :
               /\ f.reply = "refused"
               /\ \E x \in RefreshAnswers(f.issued, f.alive, b) : t = [answer |-> x, of |-> b]
      BY <2>2
    <3>2. f.issued = issued /\ f.alive \subseteq alive
      BY <1>0, <1>1, <3>1, RefreshAnswer
    <3> QED
      BY <3>1, <3>2
  <2> QED
    BY <2>1, <2>2 DEF RefreshAttempts, Read
<1>3. PICK a : a \subseteq alive /\ t.answer \in RefreshAnswers(issued, a, of)
  BY <1>2
<1> DEFINE x == t.answer
           j == x.issued
<1>4. of \in 1 .. Len(issued) /\ Fits(issued, r, of) /\ Ahead(issued, s, of)
  BY <1>1, <1>2
<1>5. /\ IssuesOK(j) /\ Grows(issued, j) /\ x.alive \subseteq alive
      /\ x.reply \in {"none", "granted", "refused"}
      /\ x.reply = "granted" => x.cred \in 1 .. Len(j) /\ of <= x.cred /\ SameSession(j, of, x.cred)
  BY <1>0, <1>3, <1>4, RefreshAnswer
<1> HIDE DEF x, j
<1>6. Ahead(j, s, of) /\ Fits(j, r, of) /\ Len(j) \in Nat /\ SlotOK(j, r, s)
  BY <1>0, <1>4, <1>5, AheadGrows, FitsGrows, IssueTypes, SlotGrows
<1>7. ASSUME x.reply = "granted"
      PROVE  /\ Ahead(j, s, x.cred)
             /\ HeldOK(j, r, [cred |-> x.cred, replaced |-> of])
             /\ [cred |-> x.cred, replaced |-> of] \in Unwritten
  <2>1. x.cred \in 1 .. Len(j) /\ of <= x.cred /\ SameSession(j, of, x.cred)
    BY <1>5, <1>7
  <2>2. Best(j, s) \in Int
    BY <1>0, BestFacts
  <2>3. Ahead(j, s, x.cred)
    BY <1>6, <2>1, <2>2 DEF Ahead, SameSession
  <2>4. Fits(j, r, x.cred)
    BY <1>5, <1>6, <2>3, AheadFits
  <2>5. HeldOK(j, r, [cred |-> x.cred, replaced |-> of])
    BY <1>6, <2>1, <2>4 DEF HeldOK, SameSession
  <2>6. [cred |-> x.cred, replaced |-> of] \in Unwritten
    BY <1>6, <2>1 DEF Unwritten, Ahead
  <2> QED
    BY <2>3, <2>5, <2>6
<1> QED
  BY <1>2, <1>5, <1>7 DEF x, j

(* What a call of the server may do to its state.                           *)
Served == IssuesOK(issued') /\ Grows(issued, issued') /\ alive' \subseteq alive

LEMMA ServedSame ==
  ASSUME SessionInv, ServerUnchanged
  PROVE  Served
  BY GrowsSelf DEF SessionInv, ServerUnchanged, Served

LEMMA RefreshedStep ==
  ASSUME SessionInv, NEW p \in Process, NEW r \in Kept,
         NEW d \in Disks, VaultOK(issued, d.vault), NEW m, OneMemory(issued, m),
         NEW c, Ahead(issued, d.vault[r], c), Refreshed(p, r, d, m, c)
  PROVE  Served /\ Landed(issued', r, d.vault)
<1> DEFINE slot == d.vault[r]
           kind == KindOf(issued, c)
<1>0. /\ IssuesOK(issued) /\ MemoryOK(issued, memory)
      /\ r \in Role /\ SlotOK(issued, r, slot) /\ kind \in {"anonymous", "registered"}
  BY MemoryTypes, KindTypes DEF SessionInv, VaultOK
<1>1. PICK t \in RefreshAttempts(c, Read(issued, slot)) :
         /\ Server(t.answer.issued, t.answer.alive)
         /\ IF t.answer.reply = "none" THEN End(p, d, m)
            ELSE IF t.answer.reply = "refused" THEN \E e \in MarkRejected(d, r, kind) : End(p, e, m)
            ELSE \E e \in On(d, r, PersistCuts(slot, t.answer.cred, MarkerFor(kind))) :
                    Verified(p, r, e,
                             IF e.how = "failed"
                             THEN [m EXCEPT !.held[r] = [cred |-> t.answer.cred, replaced |-> t.of]]
                             ELSE m,
                             t.answer.cred, t.answer.issued, t.answer.alive)
  BY DEF Refreshed
<1> DEFINE x == t.answer
           n == [m EXCEPT !.held[r] = [cred |-> x.cred, replaced |-> t.of]]
<1>2. /\ IssuesOK(x.issued) /\ Grows(issued, x.issued) /\ x.alive \subseteq alive
      /\ x.reply \in {"none", "granted", "refused"}
      /\ x.reply = "granted" =>
            /\ Ahead(x.issued, slot, x.cred)
            /\ HeldOK(x.issued, r, [cred |-> x.cred, replaced |-> t.of])
            /\ [cred |-> x.cred, replaced |-> t.of] \in Unwritten
  BY <1>0, RefreshAttempt
<1>3. issued' = x.issued /\ alive' = x.alive /\ Served
  BY <1>1, <1>2 DEF Server, Served
<1>4. VaultOK(x.issued, d.vault) /\ OneMemory(x.issued, m) /\ MemoryOK(x.issued, memory)
  BY <1>0, <1>2, VaultGrows, OneMemoryGrows, MemoryGrows
<1>5. CASE x.reply = "none"
  <2>1. Landed(x.issued, r, d.vault)
    BY <1>0, <1>1, <1>4, <1>5, EndStep, LandedSelf
  <2> QED
    BY <1>3, <2>1
<1>6. CASE x.reply = "refused"
  <2>1. PICK e \in MarkRejected(d, r, kind) : End(p, e, m)
    BY <1>1, <1>6
  <2>2. /\ e \in Disks /\ VaultOK(x.issued, e.vault) /\ Elsewhere(d.vault, r, e.vault)
        /\ Onward(x.issued, d.vault[r], e.vault[r])
    BY <1>0, <1>2, <1>4, MarkStep
  <2>3. Landed(x.issued, r, e.vault)
    BY <1>0, <1>4, <2>1, <2>2, EndStep, LandedSelf
  <2> QED
    BY <1>0, <1>3, <1>4, <2>2, <2>3, LandedTwice
<1>7. CASE x.reply = "granted"
  <2>1. PICK e \in On(d, r, PersistCuts(slot, x.cred, MarkerFor(kind))) :
           Verified(p, r, e, IF e.how = "failed" THEN n ELSE m, x.cred, x.issued, x.alive)
    BY <1>1, <1>7
  <2>2. /\ e \in Disks /\ VaultOK(x.issued, e.vault) /\ Elsewhere(d.vault, r, e.vault)
        /\ Onward(x.issued, d.vault[r], e.vault[r])
        /\ Ahead(x.issued, e.vault[r], x.cred)
    BY <1>0, <1>2, <1>4, <1>7, PersistedStep
  <2>3. OneMemory(x.issued, n)
    BY <1>2, <1>4, <1>7, MemoryHolds
  <2> HIDE DEF n
  <2>4. OneMemory(x.issued, IF e.how = "failed" THEN n ELSE m)
    BY <1>4, <2>3
  <2>5. Landed(x.issued, r, e.vault)
    BY <1>0, <1>2, <1>4, <2>1, <2>2, <2>4, VerifiedStep
  <2> QED
    BY <1>0, <1>3, <1>4, <2>2, <2>5, LandedTwice
<1> QED
  BY <1>2, <1>5, <1>6, <1>7

LEMMA HeldAhead ==
  ASSUME NEW i, IssuesOK(i), NEW r \in Kept, NEW s, SlotOK(i, r, s), NEW h, HeldOK(i, r, h), HeldApplies(i, h, s)
  PROVE  Ahead(i, s, h.cred)
<1>1. Best(i, s) > 0 /\ Best(i, s) = h.replaced
  BY BestFacts DEF HeldApplies, SlotOK
<1> QED
  BY <1>1 DEF HeldOK, HeldApplies, Ahead, SameSession, Fits

(* The credential that a slot is read to hold, with what is held in memory. *)
LEMMA OverlayAhead ==
  ASSUME NEW i, IssuesOK(i), NEW r \in Kept, NEW s, SlotOK(i, r, s), NEW h, HeldOK(i, r, h)
  PROVE  /\ Overlay(i, h, s).status = Status(i, s)
         /\ Overlay(i, h, s).status = "ok" => Ahead(i, s, Overlay(i, h, s).cred)
         /\ Overlay(i, h, s).marker.rejected => s.marker.rejected
<1>1. CASE HeldApplies(i, h, s)
  BY <1>1, HeldAhead DEF Overlay, HeldApplies, MarkerFor
<1>2. CASE ~ HeldApplies(i, h, s)
  <2>1. Status(i, s) = "ok" => Ahead(i, s, Best(i, s))
    BY BestFacts, BestOK DEF SlotOK
  <2> QED
    BY <1>2, <2>1 DEF Overlay, Read
<1> QED
  BY <1>1, <1>2

LEMMA TokenStep ==
  ASSUME SessionInv, NEW p \in Process, NEW r \in Kept,
         NEW h \in Disks, VaultOK(issued, h.vault), GetAccessToken(p, h, r)
  PROVE  /\ Served /\ NoReport /\ Landed(issued', r, h.vault)
         /\ ~ (Best(issued, h.vault[r]) > 0) => vault' = h.vault
<1> DEFINE slot == h.vault[r]
           m == Dropping(issued, memory[p], r, slot)
           held == m.held[r]
           view == Overlay(issued, held, slot)
<1>0. /\ IssuesOK(issued) /\ MemoryOK(issued, memory)
      /\ r \in Role /\ SlotOK(issued, r, slot)
  BY MemoryTypes DEF SessionInv, VaultOK
<1>1. OneMemory(issued, m) /\ (held = NotHeld \/ HeldApplies(issued, held, slot))
  BY <1>0, MemoryOf, MemoryDrops
<1>2. HeldOK(issued, r, held)
  BY <1>1 DEF OneMemory
<1>3. /\ view.status = "ok" => Ahead(issued, slot, view.cred)
      /\ held # NotHeld => Ahead(issued, slot, held.cred) /\ view.cred = held.cred
      /\ view.status = "ok" <=> Best(issued, slot) > 0
  <2>1. view.status = Status(issued, slot) /\ (view.status = "ok" => Ahead(issued, slot, view.cred))
    BY <1>0, <1>2, OverlayAhead
  <2>2. held # NotHeld => Ahead(issued, slot, held.cred) /\ view.cred = held.cred
    BY <1>0, <1>1, <1>2, HeldAhead DEF Overlay
  <2>3. Status(issued, slot) = "ok" <=> Best(issued, slot) > 0
    BY <1>0, BestFacts DEF SlotOK
  <2> QED
    BY <2>1, <2>2, <2>3
<1> DEFINE writes == IF held = NotHeld THEN {h}
                     ELSE On(h, r, PersistCuts(slot, held.cred, MarkerFor(KindOf(issued, held.cred))))
           n(w) == IF held # NotHeld /\ w.how = "ok" THEN [m EXCEPT !.held[r] = NotHeld] ELSE m
<1>4. PICK w \in writes :
        LET d == Caught(w) IN
        /\ NoReport
        /\ IF d.how = "died" \/ ~ Usable(r, view) THEN End(p, d, n(w)) /\ ServerUnchanged
           ELSE \/ Refreshed(p, r, d, n(w), view.cred)
                \/ Verified(p, r, d, n(w), view.cred, issued, alive) /\ ServerUnchanged
  BY DEF GetAccessToken
<1>5. OneMemory(issued, n(w))
  <2>1. NotHeld \in Unwritten /\ HeldOK(issued, r, NotHeld)
    BY MemoryTypes DEF HeldOK
  <2>2. OneMemory(issued, [m EXCEPT !.held[r] = NotHeld])
    <3> HIDE DEF m
    <3> QED  BY <1>1, <2>1, MemoryHolds
  <2> QED
    BY <1>1, <2>2
<1> DEFINE d == Caught(w)
<1> HIDE DEF m, view, n
<1>6. /\ d \in Disks /\ VaultOK(issued, d.vault) /\ Elsewhere(h.vault, r, d.vault)
      /\ Onward(issued, slot, d.vault[r])
      /\ view.status = "ok" => Ahead(issued, d.vault[r], view.cred)
      /\ ~ (Best(issued, slot) > 0) => d.vault = h.vault
  <2>1. CASE held = NotHeld
    <3>1. w = h
      BY <2>1
    <3>2. d \in Disks /\ d.vault = h.vault /\ slot \in Slot
      BY <1>0, <3>1, DiskTypes
    <3> QED
      BY <1>3, <3>2, OnwardSelf DEF Elsewhere
  <2>2. CASE held # NotHeld
    <3>1. w \in On(h, r, PersistCuts(slot, held.cred, MarkerFor(KindOf(issued, held.cred))))
      BY <2>2
    <3>2. Ahead(issued, slot, held.cred) /\ view.cred = held.cred
      BY <1>3, <2>2
    <3> HIDE DEF held, writes
    <3>3. /\ w \in Disks /\ VaultOK(issued, w.vault) /\ Elsewhere(h.vault, r, w.vault)
          /\ Onward(issued, slot, w.vault[r])
          /\ Ahead(issued, w.vault[r], held.cred)
      BY <1>0, <3>1, <3>2, KindTypes, PersistedStep
    <3>4. d \in Disks /\ d.vault = w.vault
      BY <3>3, DiskTypes
    <3> QED
      BY <3>2, <3>3, <3>4 DEF Ahead
  <2> QED
    BY <2>1, <2>2
<1>7. CASE End(p, d, n(w)) /\ ServerUnchanged
  <2>1. Landed(issued, r, d.vault) /\ vault' = d.vault
    BY <1>0, <1>5, <1>6, <1>7, EndStep, LandedSelf
  <2>2. Landed(issued, r, h.vault)
    BY <1>0, <1>6, <2>1, LandedTwice
  <2> QED
    BY <1>4, <1>6, <1>7, <2>1, <2>2, ServedSame DEF ServerUnchanged
<1>8. CASE view.status = "ok" /\ Refreshed(p, r, d, n(w), view.cred)
  <2>1. Served /\ Landed(issued', r, d.vault)
    BY <1>5, <1>6, <1>8, RefreshedStep
  <2>2. VaultOK(issued', h.vault) /\ VaultOK(issued', d.vault)
    BY <1>0, <1>6, <2>1, VaultGrows DEF Served
  <2>3. Onward(issued', slot, d.vault[r])
    <3>1. d.vault[r] \in Slot /\ slot \in Slot /\ SlotOK(issued, r, d.vault[r])
      BY <1>0, <1>6 DEF VaultOK
    <3>2. Best(issued', slot) = Best(issued, slot) /\ Best(issued', d.vault[r]) = Best(issued, d.vault[r])
      BY <1>0, <2>1, <3>1, SlotGrows DEF Served
    <3>3. \A c \in Readable(slot) \cup Readable(d.vault[r]) : c \in 1 .. Len(issued) /\ issued'[c] = issued[c]
      BY <1>0, <2>1, <3>1 DEF SlotOK, Fits, Served, Grows
    <3>4. /\ Best(issued, slot) > 0 => Best(issued, slot) \in Readable(slot)
          /\ Best(issued, d.vault[r]) > 0 => Best(issued, d.vault[r]) \in Readable(d.vault[r])
          /\ slot.main > 0 => slot.main \in Readable(slot)
          /\ d.vault[r].main > 0 => d.vault[r].main \in Readable(d.vault[r])
      BY <3>1, BestFacts DEF Readable
    <3> QED
      BY <1>6, <3>2, <3>3, <3>4 DEF Onward, SameSession, SameUser, UserOf
  <2>4. Landed(issued', r, h.vault)
    BY <1>0, <1>6, <2>1, <2>2, <2>3, LandedTwice
  <2> QED
    BY <1>3, <1>4, <1>8, <2>1, <2>4
<1>9. CASE view.status = "ok" /\ Verified(p, r, d, n(w), view.cred, issued, alive) /\ ServerUnchanged
  <2>1. Landed(issued, r, d.vault)
    BY <1>0, <1>5, <1>6, <1>9, VerifiedStep
  <2>2. Landed(issued, r, h.vault)
    BY <1>0, <1>6, <2>1, LandedTwice
  <2> QED
    BY <1>3, <1>4, <1>9, <2>2, ServedSame DEF ServerUnchanged
<1> QED
  BY <1>4, <1>7, <1>8, <1>9 DEF Usable

----------------------------------------------------------------------------
(* What a step must keep, of the vault v that it goes on from: the one on   *)
(* disk, or the healed one.                                                *)

GivenUp ==
    \E p \in Process :
       \/ DiscardPendingRevocation(p)
       \/ \E h \in HealStorage : ForgetLegacyOwner(p, h, TRUE)

Excused(v, r) ==
    LET parked == Best(issued', vault'["pending"])
    IN \/ vault'[r].main = Damaged
       \/ v[r].marker.rejected
       \/ r = "pending" /\ parked > 0
       \/ r = "primary" /\ parked > 0 /\ IsNewer(issued', parked, Best(issued, v[r]))

KeepsIn(v, q) ==
    \A sid \in alive' :
       q \in Held(issued, v, sid) =>
          Held(issued', vault', sid) # {} \/ Excused(v, q) \/ GivenUp

Twin(v, c) == Best(issued, v["primary"]) > 0 /\ SameUser(issued, Best(issued, v["primary"]), c)

AdvancesIn(v, q) ==
    LET c == v[q].main
        d == vault'[q].main
    IN c > 0 /\ d > 0 /\ c # d =>
          \/ SameUser(issued', c, d) /\ (d > c \/ (q = "legacy" /\ Twin(v, c)))
          \/ ~ SameUser(issued', c, d) /\ d > Len(issued)

(* The legacy slot's main file is one of its files, or the primary's.       *)
Follows(v) ==
    LET d == vault'["legacy"].main
    IN d > 0 =>
          \/ \E e \in Readable(v["legacy"]) : SameUser(issued', e, d)
          \/ Best(issued, v["primary"]) > 0 /\ SameUser(issued', Best(issued, v["primary"]), d)

SlotSafe(v, q) ==
    /\ KeepsIn(v, q)
    /\ q \in Kept => AdvancesIn(v, q)
    /\ q = "legacy" => Follows(v)

Safe(v) == SessionInv' /\ Grows(issued, issued') /\ \A q \in Role : SlotSafe(v, q)

(* Vault v is one that the state's issues fit, and the step issues more.    *)
Going(v) ==
    /\ IssuesOK(issued) /\ VaultOK(issued, v)
    /\ IssuesOK(issued') /\ Grows(issued, issued') /\ VaultOK(issued', vault')

LEMMA GoingTypes ==
  ASSUME NEW v, Going(v), NEW q \in Role
  PROVE  /\ v[q] \in Slot /\ vault'[q] \in Slot
         /\ SlotOK(issued, q, v[q]) /\ SlotOK(issued', q, v[q]) /\ SlotOK(issued', q, vault'[q])
         /\ Best(issued', v[q]) = Best(issued, v[q])
         /\ Best(issued, v[q]) \in Int /\ Best(issued', vault'[q]) \in Int
         /\ v[q].main \in Int /\ vault'[q].main \in Int
         /\ Len(issued) \in Nat
         /\ \A c \in Readable(v[q]) :
               /\ c \in 1 .. Len(issued) /\ c \in 1 .. Len(issued') /\ issued'[c] = issued[c]
               /\ c <= Len(issued)
<1>1. v[q] \in Slot /\ vault'[q] \in Slot /\ SlotOK(issued, q, v[q]) /\ SlotOK(issued', q, vault'[q])
  BY DEF Going, VaultOK
<1>2. SlotOK(issued', q, v[q]) /\ Best(issued', v[q]) = Best(issued, v[q])
  BY <1>1, SlotGrows DEF Going
<1>3. Best(issued, v[q]) \in Int /\ Best(issued', vault'[q]) \in Int
  BY <1>1, BestFacts
<1>4. v[q].main \in Int /\ vault'[q].main \in Int
  BY <1>1, SlotTypes, FileTypes
<1>5. Len(issued) \in Nat
  BY IssueTypes DEF Going
<1>6. \A c \in Readable(v[q]) : c \in 1 .. Len(issued) /\ c \in 1 .. Len(issued') /\ issued'[c] = issued[c]
  BY <1>1, <1>2 DEF SlotOK, Fits, Going, Grows
<1> QED
  BY <1>1, <1>2, <1>3, <1>4, <1>5, <1>6

(* A slot that keeps its session is safe.                                   *)
LEMMA SteadySafe ==
  ASSUME NEW v, Going(v), NEW q \in Role, Onward(issued', v[q], vault'[q]),
         ~ (Best(issued, v[q]) > 0) => vault'[q] = v[q]
  PROVE  SlotSafe(v, q)
<1> DEFINE s == v[q]
           z == vault'[q]
           b == Best(issued, s)
<1>0. /\ s \in Slot /\ z \in Slot /\ Best(issued', s) = b /\ s.main \in Int /\ z.main \in Int
      /\ SlotOK(issued, q, s) /\ SlotOK(issued', q, z) /\ IssuesOK(issued) /\ IssuesOK(issued')
      /\ \A c \in Readable(s) : c \in 1 .. Len(issued) /\ issued'[c] = issued[c]
  BY GoingTypes DEF Going
<1>1. KeepsIn(v, q)
  <2> SUFFICES ASSUME NEW sid \in alive', q \in Held(issued, v, sid)
               PROVE  q \in Held(issued', vault', sid)
    BY DEF KeepsIn
  <2>1. b > 0 /\ issued[b].sid = sid /\ b \in Readable(s)
    BY <1>0, BestFacts DEF Held
  <2>2. Best(issued', z) > 0 /\ SameSession(issued', b, Best(issued', z))
    BY <1>0, <2>1 DEF Onward
  <2> QED
    BY <1>0, <2>1, <2>2 DEF Held, SameSession
<1>2. q \in Kept => AdvancesIn(v, q)
  BY <1>0 DEF Onward, AdvancesIn, SameUser
<1>3. q = "legacy" => Follows(v)
  <2> SUFFICES ASSUME q = "legacy", z.main > 0 PROVE \E e \in Readable(s) : SameUser(issued', e, z.main)
    BY DEF Follows
  <2>1. CASE b > 0
    <3>1. b \in Readable(s) /\ b \in 1 .. Len(issued') /\ Best(issued', z) > 0
          /\ SameSession(issued', b, Best(issued', z))
      BY <1>0, <2>1, GoingTypes, BestFacts DEF Onward
    <3>2. Best(issued', z) \in 1 .. Len(issued')
      BY <1>0, <3>1, BestOK
    <3>3. SameUser(issued', b, Best(issued', z))
      BY <1>0, <3>1, <3>2, UserOfSession
    <3>4. SameUser(issued', Best(issued', z), z.main)
      BY <1>0, BestFacts
    <3> QED
      BY <3>1, <3>3, <3>4 DEF SameUser
  <2>2. CASE ~ (b > 0)
    BY <1>0, <2>2 DEF Readable, SameUser
  <2> QED
    BY <2>1, <2>2
<1> QED
  BY <1>1, <1>2, <1>3 DEF SlotSafe

LEMMA SameSafe ==
  ASSUME NEW v, Going(v), NEW q \in Role, vault'[q] = v[q]
  PROVE  SlotSafe(v, q)
<1>1. Onward(issued', v[q], vault'[q])
  BY GoingTypes, OnwardSelf
<1> QED
  BY <1>1, SteadySafe

(* A main file that is removed, or replaced by what the step obtained.      *)
LEMMA ReplacedAdvances ==
  ASSUME NEW v, Going(v), NEW q \in Role,
         \/ ~ (v[q].main > 0)
         \/ vault'[q].main = v[q].main \/ ~ (vault'[q].main > 0)
         \/ vault'[q].main = Len(issued) + 1
  PROVE  AdvancesIn(v, q)
<1>1. /\ v[q].main \in Int /\ vault'[q].main \in Int /\ Len(issued) \in Nat
      /\ v[q].main > 0 => v[q].main <= Len(issued)
  BY GoingTypes DEF Readable
<1> QED
  BY <1>1 DEF AdvancesIn

LEMMA ClearedFollows ==
  ASSUME NEW v, Going(v), Cleared(v["legacy"], vault'["legacy"])
  PROVE  AdvancesIn(v, "legacy") /\ Follows(v)
<1>0. "legacy" \in Role /\ ~ (Missing > 0)
  BY DEF Role, Missing
<1>1. AdvancesIn(v, "legacy")
  BY <1>0, ReplacedAdvances DEF Cleared
<1>2. Follows(v)
  BY <1>0 DEF Follows, Cleared, Readable, SameUser
<1> QED
  BY <1>1, <1>2

(* What is safe of the healed vault is safe of the one that was healed.     *)
LEMMA HealedSafe ==
  ASSUME SessionInv, NEW w, Healed(issued, vault, w), Safe(w)
  PROVE  /\ \A sid \in alive' :
               \/ Held(issued, vault, sid) = {}
               \/ Held(issued', vault', sid) # {}
               \/ \E r \in Held(issued, vault, sid) : Excused(vault, r)
               \/ GivenUp
         /\ \A r \in Kept : AdvancesIn(vault, r)
<1> DEFINE v == vault
           B(u, q) == Best(issued, u[q])
<1>0. /\ "primary" \in Role /\ "legacy" \in Role /\ "pending" \in Role
      /\ Kept = {"primary", "legacy"} /\ Role = {"primary", "legacy", "pending"}
  BY DEF Role, Kept
<1>1. Going(v) /\ Going(w)
  BY DEF Going, SessionInv, Healed, Safe
<1>2. /\ w["pending"] = v["pending"]
      /\ B(w, "primary") = B(v, "primary") /\ Onward(issued, v["primary"], w["primary"])
      /\ w["primary"].marker.rejected => v["primary"].marker.rejected
      /\ w["legacy"].marker.rejected => v["legacy"].marker.rejected
      /\ Repaired(issued, v["legacy"], w["legacy"]) \/ Redundant(issued, v, w)
  BY DEF Healed, Repaired, Redundant
<1>3. ASSUME Redundant(issued, v, w)
      PROVE  /\ B(v, "primary") > 0 /\ B(v, "legacy") > 0
             /\ SameSession(issued, B(v, "primary"), B(v, "legacy"))
             /\ Readable(w["legacy"]) \subseteq Readable(v["legacy"])
             /\ \A e \in Readable(v["legacy"]) :
                   SameUser(issued, B(v, "primary"), e) /\ SameSession(issued, B(v, "primary"), e)
  <2>1. /\ B(v, "primary") > 0 /\ B(v, "legacy") > 0 /\ KindOf(issued, B(v, "primary")) = "anonymous"
        /\ SameUser(issued, B(v, "primary"), B(v, "legacy"))
        /\ Readable(w["legacy"]) \subseteq Readable(v["legacy"])
    BY <1>3 DEF Redundant
  <2>2. /\ IssuesOK(issued) /\ SlotOK(issued, "primary", v["primary"]) /\ SlotOK(issued, "legacy", v["legacy"])
    BY <1>0, <1>1, GoingTypes DEF Going
  <2>3. B(v, "primary") \in 1 .. Len(issued) /\ B(v, "legacy") \in 1 .. Len(issued)
    BY <2>1, <2>2, BestOK
  <2>4. \A e \in Readable(v["legacy"]) : e \in 1 .. Len(issued) /\ SameUser(issued, B(v, "primary"), e)
    BY <2>1, <2>2, BestOK DEF SlotOK, Fits, SameUser
  <2>5. \A e \in Readable(v["legacy"]) : SameSession(issued, B(v, "primary"), e)
    BY <2>1, <2>2, <2>3, <2>4, AnonymousSession
  <2>6. B(v, "legacy") \in Readable(v["legacy"])
    BY <2>1, <2>2, BestOK
  <2> QED
    BY <2>1, <2>4, <2>5, <2>6
<1>4. ASSUME NEW sid
      PROVE  Held(issued, v, sid) # {} => Held(issued, w, sid) # {}
  <2> SUFFICES ASSUME NEW q \in Role, B(v, q) > 0, issued[B(v, q)].sid = sid
               PROVE  \E r \in Role : B(w, r) > 0 /\ issued[B(w, r)].sid = sid
    BY DEF Held
  <2>1. CASE q = "primary"
    BY <1>0, <1>2, <2>1
  <2>2. CASE q = "pending"
    BY <1>0, <1>2, <2>2
  <2>3. CASE q = "legacy" /\ Repaired(issued, v["legacy"], w["legacy"])
    BY <1>0, <2>3 DEF Repaired
  <2>4. CASE q = "legacy" /\ Redundant(issued, v, w)
    BY <1>0, <1>2, <1>3, <2>4 DEF SameSession
  <2> QED
    BY <1>0, <1>2, <2>1, <2>2, <2>3, <2>4
<1>5. ASSUME NEW sid, NEW r \in Held(issued, w, sid)
      PROVE  r \in Held(issued, v, sid)
  <2>1. r \in Role /\ B(w, r) > 0 /\ issued[B(w, r)].sid = sid
    BY DEF Held
  <2>2. CASE r = "primary"
    BY <1>2, <2>1, <2>2 DEF Held
  <2>3. CASE r = "pending"
    BY <1>2, <2>1, <2>3 DEF Held
  <2>4. CASE r = "legacy" /\ Repaired(issued, v["legacy"], w["legacy"])
    BY <2>1, <2>4 DEF Held, Repaired
  <2>5. CASE r = "legacy" /\ Redundant(issued, v, w)
    <3>1. w["legacy"] \in Slot
      BY <1>0, <1>1, GoingTypes
    <3>2. B(w, "legacy") \in Readable(w["legacy"])
      BY <2>1, <2>5, <3>1, BestFacts
    <3> QED
      BY <1>3, <2>1, <2>5, <3>2 DEF SameSession, Held
  <2> QED
    BY <1>0, <1>2, <2>1, <2>2, <2>3, <2>4, <2>5
<1>6. \A r \in Role : Excused(w, r) => Excused(v, r)
  BY <1>0, <1>2 DEF Excused
<1>7. ASSUME NEW sid \in alive', Held(issued, v, sid) # {}
      PROVE  \/ Held(issued', vault', sid) # {}
             \/ \E r \in Held(issued, v, sid) : Excused(v, r)
             \/ GivenUp
  <2>1. PICK r \in Held(issued, w, sid) : r \in Role
    BY <1>4, <1>7 DEF Held
  <2>2. Held(issued', vault', sid) # {} \/ Excused(w, r) \/ GivenUp
    BY <2>1 DEF Safe, SlotSafe, KeepsIn
  <2> QED
    BY <1>5, <1>6, <2>1, <2>2
<1>8. AdvancesIn(w, "primary") /\ AdvancesIn(w, "legacy") /\ Follows(w)
  BY <1>0 DEF Safe, SlotSafe
<1> DEFINE Chain(q) ==
       /\ v[q].main > 0 => w[q].main > 0 /\ v[q].main <= w[q].main /\ SameUser(issued, v[q].main, w[q].main)
       /\ v[q].main \in Int /\ w[q].main \in Int /\ vault'[q].main \in Int /\ Len(issued) \in Nat
       /\ v[q].main > 0 => v[q].main <= Len(issued) /\ issued'[v[q].main] = issued[v[q].main]
       /\ w[q].main > 0 => w[q].main <= Len(issued) /\ issued'[w[q].main] = issued[w[q].main]
<1>9. \A q \in Role : Onward(issued, v[q], w[q]) => Chain(q)
  BY <1>1, GoingTypes DEF Onward, Readable
<1>10. AdvancesIn(v, "primary")
  <2>1. Chain("primary")
    BY <1>0, <1>2, <1>9
  <2> QED
    BY <1>8, <2>1 DEF AdvancesIn, SameUser, UserOf
<1>11. AdvancesIn(v, "legacy")
  <2>1. CASE Repaired(issued, v["legacy"], w["legacy"])
    <3>1. Chain("legacy")
      BY <1>0, <1>9, <2>1 DEF Repaired
    <3>2. \A c : Twin(w, c) <=> Twin(v, c)
      BY <1>2 DEF Twin
    <3> QED
      BY <1>8, <3>1, <3>2 DEF AdvancesIn, SameUser, UserOf, Twin
  <2>2. CASE Redundant(issued, v, w)
    <3> DEFINE c == v["legacy"].main
               d == vault'["legacy"].main
               b == B(v, "primary")
    <3> SUFFICES ASSUME c > 0, d > 0 PROVE SameUser(issued', c, d) /\ Twin(v, c)
      BY DEF AdvancesIn
    <3>1. c \in Readable(v["legacy"]) /\ b > 0 /\ b \in Readable(v["primary"])
      BY <1>0, <1>1, <1>3, <2>2, GoingTypes, BestFacts DEF Readable
    <3>2. \A e \in Readable(v["legacy"]) \cup Readable(v["primary"]) : issued'[e] = issued[e]
      BY <1>0, <1>1, GoingTypes
    <3>3. \A e \in Readable(v["legacy"]) : SameUser(issued', b, e) /\ SameUser(issued, b, e)
      BY <1>3, <2>2, <3>1, <3>2 DEF SameUser, UserOf
    <3>4. (\E e \in Readable(w["legacy"]) : SameUser(issued', e, d)) \/ SameUser(issued', b, d)
      BY <1>2, <1>8 DEF Follows
    <3>5. SameUser(issued', b, d)
      BY <1>3, <2>2, <3>3, <3>4 DEF SameUser
    <3> QED
      BY <3>1, <3>3, <3>5 DEF SameUser, Twin
  <2> QED
    BY <1>2, <2>1, <2>2
<1> QED
  BY <1>0, <1>7, <1>10, <1>11

----------------------------------------------------------------------------
(* Each operation, from the healed disk h.                                  *)

LEMMA SessionInvNext ==
  ASSUME SessionInv, IssuesOK(issued'), Grows(issued, issued'), alive' \subseteq alive \cup {Len(issued')},
         alive' \subseteq alive \/ Len(issued') = Len(issued) + 1,
         VaultOK(issued', vault'), MemoryOK(issued', memory'), faults' \in 0 .. MaxFaults,
         reported' \subseteq reported \cup alive
  PROVE  SessionInv'
<1>1. Len(issued) \in Nat /\ Len(issued') \in Nat /\ Len(issued) <= Len(issued')
  BY IssueTypes DEF SessionInv, Grows
<1>2. \A c \in 1 .. Len(issued) : c \in 1 .. Len(issued')
  BY <1>1
<1>3. alive' \subseteq 1 .. Len(issued')
  BY <1>1, <1>2 DEF SessionInv
<1>4. reported' \subseteq 1 .. Len(issued')
  BY <1>2 DEF SessionInv
<1> QED
  BY <1>3, <1>4 DEF SessionInv

LEMMA IdleSafe ==
  ASSUME SessionInv, NEW v, VaultOK(issued, v), Served, vault' = v,
         MemoryOK(issued', memory'), faults' \in 0 .. MaxFaults, reported' \subseteq reported \cup alive
  PROVE  Safe(v)
<1>1. IssuesOK(issued) /\ IssuesOK(issued') /\ Grows(issued, issued') /\ VaultOK(issued', vault')
  BY VaultGrows DEF SessionInv, Served
<1>2. Going(v)
  BY <1>1 DEF Going
<1>3. SessionInv'
  BY <1>1, SessionInvNext DEF Served
<1> QED
  BY <1>1, <1>2, <1>3, SameSafe DEF Safe

LEMMA EndSafe ==
  ASSUME SessionInv, NEW p \in Process, NEW d \in Disks, VaultOK(issued, d.vault),
         NEW m, OneMemory(issued, m), End(p, d, m), ServerUnchanged, NoReport
  PROVE  Safe(d.vault)
<1>1. MemoryOK(issued, memory) /\ issued' = issued
  BY DEF SessionInv, ServerUnchanged
<1>2. vault' = d.vault /\ faults' \in 0 .. MaxFaults /\ MemoryOK(issued', memory')
  BY <1>1, EndStep
<1> QED
  BY <1>2, ServedSame, IdleSafe DEF NoReport

LEMMA TokenSafe ==
  ASSUME SessionInv, NEW p \in Process, NEW r \in Kept,
         NEW h \in Disks, VaultOK(issued, h.vault), GetAccessToken(p, h, r)
  PROVE  Safe(h.vault)
<1>1. /\ Served /\ NoReport /\ Landed(issued', r, h.vault) /\ r \in Role
      /\ ~ (Best(issued, h.vault[r]) > 0) => vault' = h.vault
  BY TokenStep, MemoryTypes
<1>2. Going(h.vault)
  BY <1>1 DEF Going, SessionInv, Served, Landed
<1>3. SlotSafe(h.vault, r)
  BY <1>1, <1>2, SteadySafe DEF Landed
<1>4. \A q \in Role : q # r => SlotSafe(h.vault, q)
  BY <1>1, <1>2, SameSafe DEF Landed, Elsewhere
<1>5. SessionInv'
  BY <1>1, <1>2, SessionInvNext DEF Served, Landed, NoReport, Going
<1> QED
  BY <1>1, <1>3, <1>4, <1>5 DEF Safe, Served

(* What a process reads of a kept slot.                                     *)
LEMMA ViewOf ==
  ASSUME SessionInv, NEW h \in Disks, VaultOK(issued, h.vault), NEW r \in Kept, NEW m, OneMemory(issued, m)
  PROVE  LET s == h.vault[r]
             view == Overlay(issued, m.held[r], s)
         IN /\ view.status = "ok" <=> Best(issued, s) > 0
            /\ view.status = "missing" => s.main = Missing /\ s.bak = Missing /\ s.tmp = {}
            /\ view.status = "ok" => Ahead(issued, s, view.cred)
            /\ view.marker \in Marker
            /\ view.marker.rejected => s.marker.rejected
<1> DEFINE s == h.vault[r]
           held == m.held[r]
           view == Overlay(issued, held, s)
<1>1. IssuesOK(issued) /\ HeldOK(issued, r, held) /\ SlotOK(issued, r, s) /\ s \in Slot
  BY MemoryTypes, DiskTypes DEF SessionInv, OneMemory, VaultOK
<1>2. /\ view.status = Status(issued, s)
      /\ view.status = "ok" => Ahead(issued, s, view.cred)
      /\ view.marker.rejected => s.marker.rejected
  BY <1>1, OverlayAhead
<1>3. view.marker \in Marker
  BY <1>1, SlotTypes, KindTypes DEF Overlay, Read
<1>4. /\ Status(issued, s) = "ok" <=> Best(issued, s) > 0
      /\ Status(issued, s) = "missing" => s.main = Missing /\ s.bak = Missing /\ s.tmp = {}
  BY <1>1, BestFacts
<1> QED
  BY <1>2, <1>3, <1>4

LEMMA RestoreSafe ==
  ASSUME SessionInv, NEW p \in Process, NEW h \in Disks, VaultOK(issued, h.vault), h.how = "ok",
         NEW l, h.vault["primary"].main = Missing, h.vault["primary"].bak = Missing, h.vault["primary"].tmp = {},
         Ahead(issued, h.vault["legacy"], l.cred), l.marker \in Marker, RestoreLegacy(p, h, l)
  PROVE  Safe(h.vault)
<1> DEFINE s == h.vault["primary"]
           z == vault'["primary"]
           c == l.cred
<1>a. /\ "primary" \in Role /\ "legacy" \in Role /\ Role = {"primary", "legacy", "pending"}
      /\ IssuesOK(issued) /\ MemoryOK(issued, memory)
      /\ SlotOK(issued, "primary", s) /\ SlotOK(issued, "legacy", h.vault["legacy"])
  BY DEF Role, SessionInv, VaultOK
<1>b. c \in Credential /\ c \in Int /\ c > 0
  <2>1. c \in 1 .. Len(issued) /\ Len(issued) \in Nat
    BY <1>a, IssueTypes DEF Ahead
  <2>2. c \in Int /\ c > 0
    BY <2>1
  <2>3. c \in Credential
    BY <1>a, <2>1, IssueTypes
  <2> QED
    BY <2>2, <2>3
<1>c. ServerUnchanged /\ NoReport /\ issued' = issued /\ alive' = alive
  BY DEF RestoreLegacy, ServerUnchanged
<1>0. /\ "primary" \in Role /\ "legacy" \in Role /\ Role = {"primary", "legacy", "pending"}
      /\ IssuesOK(issued) /\ MemoryOK(issued, memory)
      /\ SlotOK(issued, "primary", s) /\ SlotOK(issued, "legacy", h.vault["legacy"])
      /\ c \in Credential /\ c \in Int /\ c > 0
      /\ ServerUnchanged /\ NoReport /\ issued' = issued /\ alive' = alive
  BY <1>a, <1>b, <1>c
<1>1. PICK w \in On(h, "primary", WriteCuts(h.vault["primary"], c, l.marker)) :
        \E d \in On(w, "legacy", DeleteCuts(w.vault["legacy"])) : End(p, d, Released(memory[p]))
  BY DEF RestoreLegacy
<1>2. PICK d \in On(w, "legacy", DeleteCuts(w.vault["legacy"])) : End(p, d, Released(memory[p]))
  BY <1>1
<1>3. /\ w \in Disks /\ Elsewhere(h.vault, "primary", w.vault)
      /\ Wrote(s, c, w.vault["primary"])
      /\ w.how = "ok" => w.vault["primary"].main = c
  BY <1>0, <1>1, OnWrite
<1>4. /\ d \in Disks /\ Elsewhere(w.vault, "legacy", d.vault)
      /\ Cleared(w.vault["legacy"], d.vault["legacy"])
      /\ w.how # "ok" => d = w
  BY <1>0, <1>2, <1>3, OnClear
<1>5. OneMemory(issued, Released(memory[p]))
  <2>1. OneMemory(issued, memory[p]) /\ OneMemory(issued, FreshMemory)
    BY <1>0, MemoryOf, MemoryTypes
  <2> QED
    BY <2>1 DEF Released, OneMemory, Memory
<1>6. vault' = d.vault /\ faults' \in 0 .. MaxFaults /\ MemoryOK(issued, memory')
  BY <1>0, <1>2, <1>4, <1>5, EndStep
<1>7. /\ vault'["pending"] = h.vault["pending"] /\ z = w.vault["primary"]
      /\ w.vault["legacy"] = h.vault["legacy"] /\ Cleared(h.vault["legacy"], vault'["legacy"])
  BY <1>0, <1>3, <1>4, <1>6 DEF Elsewhere
<1>8. Fits(issued, "primary", c)
  BY DEF Ahead, Fits
<1>9. VaultOK(issued, w.vault)
  <2>1. SlotOK(issued, "primary", w.vault["primary"])
    BY <1>0, <1>3, <1>8, SlotWrote
  <2> QED
    BY <1>0, <1>3, <2>1, DiskTypes, VaultStep
<1>10. VaultOK(issued, d.vault)
  <2>1. w.vault["legacy"] \in Slot /\ d.vault["legacy"] \in Slot /\ d.vault \in [Role -> Slot]
    BY <1>0, <1>3, <1>4, DiskTypes
  <2>2. SlotOK(issued, "legacy", d.vault["legacy"])
    BY <1>0, <1>4, <1>9, <2>1, ClearedReadable, SlotReads DEF VaultOK
  <2> QED
    BY <1>0, <1>4, <1>9, <2>1, <2>2, VaultStep
<1>11. Going(h.vault)
  BY <1>0, <1>6, <1>10, GrowsSelf DEF Going
<1>12. SlotSafe(h.vault, "pending")
  BY <1>0, <1>7, <1>11, SameSafe
<1>13. SlotSafe(h.vault, "primary")
  <2>1. ~ (Missing > 0)
    BY DEF Missing
  <2>2. ~ (Best(issued, s) > 0)
    BY <2>1 DEF Best
  <2>3. KeepsIn(h.vault, "primary")
    BY <2>2 DEF KeepsIn, Held
  <2>4. AdvancesIn(h.vault, "primary")
    BY <1>0, <1>11, <2>1, ReplacedAdvances
  <2> QED
    BY <2>3, <2>4 DEF SlotSafe
<1>14. SlotSafe(h.vault, "legacy")
  <2>1. CASE w.how # "ok"
    <3>1. vault'["legacy"] = h.vault["legacy"]
      BY <1>4, <1>6, <1>7, <2>1
    <3> QED
      BY <1>0, <1>11, <3>1, SameSafe
  <2>2. CASE w.how = "ok"
    <3>1. z.main = c /\ z \in Slot /\ z.tmp \subseteq {c, Damaged}
      BY <1>3, <1>7, <2>2 DEF Wrote
    <3>2. Best(issued, z) = c
      <4>1. Best(issued, z) \in {c} \cup z.tmp /\ c <= Best(issued, z)
        BY <1>0, <3>1, BestIs
      <4> QED
        BY <1>0, <3>1, <4>1 DEF Damaged
    <3>3. KeepsIn(h.vault, "legacy")
      <4> SUFFICES ASSUME NEW sid \in alive', "legacy" \in Held(issued, h.vault, sid)
                   PROVE  "primary" \in Held(issued', vault', sid)
        BY DEF KeepsIn
      <4> QED
        BY <1>0, <3>2 DEF Held, Ahead, SameSession
    <3>4. AdvancesIn(h.vault, "legacy") /\ Follows(h.vault)
      BY <1>7, <1>11, ClearedFollows
    <3> QED
      BY <3>3, <3>4 DEF SlotSafe
  <2> QED
    BY <2>1, <2>2
<1>15. SessionInv'
  BY <1>0, <1>6, <1>10, GrowsSelf, SessionInvNext DEF NoReport
<1> QED
  BY <1>0, <1>12, <1>13, <1>14, <1>15, GrowsSelf DEF Safe

(* A primary slot that is empty, unreadable or rejected makes room for a    *)
(* session the server has just opened.                                     *)
LEMMA PrimaryReplaced ==
  ASSUME SessionInv, NEW h \in Disks, VaultOK(issued, h.vault),
         Len(issued) < MaxIssued, NEW u \in Account \cup {Len(issued) + 1}, issued' = NewSession(issued, u),
         NEW kind \in {"anonymous", "registered"},
         Best(issued, h.vault["primary"]) > 0 => h.vault["primary"].marker.rejected,
         NEW q, q = h \/ q \in On(h, "primary", QuarantineCuts(h.vault["primary"])),
         NEW d \in On(q, "primary", WriteCuts(q.vault["primary"], Len(issued) + 1, MarkerFor(kind))),
         vault' = d.vault
  PROVE  /\ d \in Disks /\ Elsewhere(h.vault, "primary", vault')
         /\ Len(issued') = Len(issued) + 1 /\ Going(h.vault)
         /\ SlotSafe(h.vault, "primary")
<1> DEFINE new == Len(issued) + 1
           s == h.vault["primary"]
           z == vault'["primary"]
<1>0. IssuesOK(issued) /\ "primary" \in Role /\ Len(issued) \in Nat /\ MarkerFor(kind) \in Marker
  BY IssueTypes, KindTypes DEF SessionInv, Role
<1>1. IssuesOK(issued') /\ Grows(issued, issued') /\ Len(issued') = new
  BY <1>0, IssueOpened
<1>2. new \in Credential /\ new \in 1 .. Len(issued')
  BY <1>0, <1>1, CompanionAssumption DEF Credential
<1>3. s \in Slot /\ SlotOK(issued, "primary", s) /\ SlotOK(issued', "primary", s)
  BY <1>0, <1>1, DiskTypes, SlotGrows DEF VaultOK
<1>4. q \in Disks /\ Elsewhere(h.vault, "primary", q.vault) /\ Cleared(s, q.vault["primary"])
  <2>1. CASE q = h
    BY <1>3, <2>1 DEF Elsewhere, Cleared
  <2>2. CASE q \in On(h, "primary", QuarantineCuts(h.vault["primary"]))
    BY <1>0, <2>2, OnClear
  <2> QED
    BY <2>1, <2>2
<1>5. /\ d \in Disks /\ Elsewhere(q.vault, "primary", d.vault)
      /\ d = q \/ Wrote(q.vault["primary"], new, d.vault["primary"])
  <2> DEFINE m == MarkerFor(kind)
  <2>1. d \in On(q, "primary", WriteCuts(q.vault["primary"], new, m))
    OBVIOUS
  <2> HIDE DEF new, m
  <2>2. m \in Marker
    BY <1>0 DEF m
  <2> QED
    BY <1>0, <1>2, <1>4, <2>1, <2>2, OnWrite
<1>6. Elsewhere(h.vault, "primary", vault')
  BY <1>4, <1>5 DEF Elsewhere
<1>7. SlotOK(issued', "primary", q.vault["primary"])
  BY <1>3, <1>4, ClearedReadable, SlotReads DEF Cleared
<1>8. Fits(issued', "primary", new)
  BY <1>2 DEF Fits
<1>9. SlotOK(issued', "primary", z)
  <2>1. CASE d = q
    BY <1>7, <2>1
  <2>2. CASE Wrote(q.vault["primary"], new, z)
    <3> HIDE DEF new, z
    <3> QED
      BY <1>1, <1>7, <1>8, <2>2, SlotWrote
  <2> QED
    BY <1>5, <2>1, <2>2
<1>10. VaultOK(issued', vault')
  <2>1. VaultOK(issued', h.vault)
    BY <1>0, <1>1, VaultGrows
  <2> QED
    BY <1>0, <1>5, <1>6, <1>9, <2>1, DiskTypes, VaultStep
<1>11. Going(h.vault)
  BY <1>0, <1>1, <1>10 DEF Going
<1>12. KeepsIn(h.vault, "primary")
  BY DEF KeepsIn, Excused, Held
<1>13. AdvancesIn(h.vault, "primary")
  <2>1. z.main \in {s.main, Missing, new} /\ ~ (Missing > 0)
    BY <1>4, <1>5 DEF Cleared, Wrote, Missing
  <2> QED
    BY <1>0, <1>11, <2>1, ReplacedAdvances
<1> QED
  BY <1>1, <1>5, <1>6, <1>11, <1>12, <1>13 DEF SlotSafe

LEMMA ReplacedSafe ==
  ASSUME SessionInv, NEW h \in Disks, VaultOK(issued, h.vault),
         Len(issued) < MaxIssued, NEW u \in Account \cup {Len(issued) + 1}, issued' = NewSession(issued, u),
         NEW kind \in {"anonymous", "registered"},
         Best(issued, h.vault["primary"]) > 0 => h.vault["primary"].marker.rejected,
         NEW q, q = h \/ q \in On(h, "primary", QuarantineCuts(h.vault["primary"])),
         NEW d \in On(q, "primary", WriteCuts(q.vault["primary"], Len(issued) + 1, MarkerFor(kind))),
         NEW p \in Process, NEW m, OneMemory(issued, m) \/ OneMemory(issued', m), End(p, d, m), NoReport,
         alive' \subseteq alive \cup {Len(issued) + 1}
  PROVE  Safe(h.vault)
<1>0. vault' = d.vault
  BY DEF End
<1>1. /\ d \in Disks /\ Elsewhere(h.vault, "primary", vault')
      /\ Len(issued') = Len(issued) + 1 /\ Going(h.vault)
      /\ SlotSafe(h.vault, "primary")
  BY <1>0, PrimaryReplaced
<1>2. MemoryOK(issued', memory) /\ OneMemory(issued', m)
  BY <1>1, MemoryGrows, OneMemoryGrows DEF SessionInv, Going
<1>3. faults' \in 0 .. MaxFaults /\ MemoryOK(issued', memory')
  BY <1>1, <1>2, EndStep
<1>4. SessionInv'
  BY <1>1, <1>3, SessionInvNext DEF NoReport, Going
<1>5. \A r \in Role : r # "primary" => SlotSafe(h.vault, r)
  BY <1>1, SameSafe DEF Elsewhere
<1> QED
  BY <1>1, <1>4, <1>5 DEF Safe, Going

LEMMA CreateSafe ==
  ASSUME SessionInv, NEW p \in Process, NEW h \in Disks, VaultOK(issued, h.vault),
         NEW m, OneMemory(issued, m), NEW primary,
         Best(issued, h.vault["primary"]) > 0 => h.vault["primary"].marker.rejected,
         CreateAnonymous(p, h, m, primary)
  PROVE  Safe(h.vault)
<1>1. CASE End(p, h, m) /\ ServerUnchanged /\ NoReport
  BY <1>1, EndSafe
<1>2. CASE ~ (End(p, h, m) /\ ServerUnchanged /\ NoReport)
  <2> DEFINE new == Len(issued) + 1
             aside == IF primary.status = "missing" THEN {h}
                      ELSE On(h, "primary", QuarantineCuts(h.vault["primary"]))
  <2>1. /\ Len(issued) < MaxIssued
        /\ issued' = NewSession(issued, new) /\ alive' = alive \cup {new} /\ NoReport
        /\ \E q \in aside :
           \E d \in On(q, "primary", WriteCuts(q.vault["primary"], new, MarkerFor("anonymous"))) :
              End(p, d, IF d.how = "ok" THEN FreshMemory ELSE m)
    BY <1>2 DEF CreateAnonymous, Server
  <2>2. PICK q \in aside :
           \E d \in On(q, "primary", WriteCuts(q.vault["primary"], new, MarkerFor("anonymous"))) :
              End(p, d, IF d.how = "ok" THEN FreshMemory ELSE m)
    BY <2>1
  <2>3. PICK d \in On(q, "primary", WriteCuts(q.vault["primary"], new, MarkerFor("anonymous"))) :
           End(p, d, IF d.how = "ok" THEN FreshMemory ELSE m)
    BY <2>2
  <2>4. q = h \/ q \in On(h, "primary", QuarantineCuts(h.vault["primary"]))
    BY <2>2
  <2>5. OneMemory(issued, IF d.how = "ok" THEN FreshMemory ELSE m)
    BY MemoryTypes
  <2>6. new \in Account \cup {Len(issued) + 1} /\ alive' \subseteq alive \cup {Len(issued) + 1}
    BY <2>1
  <2>7. "anonymous" \in {"anonymous", "registered"}
    OBVIOUS
  <2> QED
    BY <2>1, <2>3, <2>4, <2>5, <2>6, <2>7, ReplacedSafe
<1> QED
  BY <1>1, <1>2

LEMMA StartSafe ==
  ASSUME SessionInv, NEW p \in Process, NEW h \in Disks, VaultOK(issued, h.vault), h.how = "ok",
         StartAnonymous(p, h)
  PROVE  Safe(h.vault)
<1> DEFINE m == Dropping(issued, memory[p], "primary", h.vault["primary"])
           primary == Overlay(issued, m.held["primary"], h.vault["primary"])
           legacy == Overlay(issued, m.held["legacy"], h.vault["legacy"])
           s == h.vault["primary"]
<1>0. "primary" \in Kept /\ "legacy" \in Kept
  BY DEF Kept
<1>1. OneMemory(issued, m)
  BY <1>0, MemoryOf, MemoryDrops DEF SessionInv
<1> HIDE DEF m
<1>2. /\ primary.status = "ok" <=> Best(issued, s) > 0
      /\ primary.status = "missing" => s.main = Missing /\ s.bak = Missing /\ s.tmp = {}
      /\ primary.marker.rejected => s.marker.rejected
  BY <1>0, <1>1, ViewOf
<1>3. /\ legacy.status = "ok" => Ahead(issued, h.vault["legacy"], legacy.cred)
      /\ legacy.marker \in Marker
  BY <1>0, <1>1, ViewOf
<1> HIDE DEF primary, legacy
<1>4. CASE primary.status = "missing" /\ IsOk(legacy, "anonymous") /\ RestoreLegacy(p, h, legacy)
  BY <1>2, <1>3, <1>4, RestoreSafe DEF IsOk
<1>5. CASE /\ \/ primary.status = "missing" \/ primary.status = "unreadable"
              \/ Rejected(primary)
           /\ CreateAnonymous(p, h, m, primary)
  BY <1>1, <1>2, <1>5, CreateSafe DEF Rejected
<1>6. CASE End(p, h, m) /\ ServerUnchanged /\ NoReport
  BY <1>1, <1>6, EndSafe
<1> QED
  BY <1>4, <1>5, <1>6 DEF StartAnonymous, m, primary, legacy

(* The anonymous identity is preserved before the new session is stored.    *)
LEMMA PreservedSafe ==
  ASSUME SessionInv, NEW h \in Disks, VaultOK(issued, h.vault), h.how = "ok",
         Len(issued) < MaxIssued, NEW user \in Account, issued' = NewSession(issued, user),
         NEW c, Ahead(issued, h.vault["primary"], c), KindOf(issued, c) = "anonymous", NEW mark \in Marker,
         Best(issued, h.vault["legacy"]) > 0 => SameUser(issued, Best(issued, h.vault["legacy"]), c),
         NEW q \in On(h, "legacy", WriteCuts(h.vault["legacy"], c, mark)),
         NEW d \in On(q, "primary", WriteCuts(q.vault["primary"], Len(issued) + 1, MarkerFor("registered"))),
         NEW p \in Process, NEW m, OneMemory(issued', m) \/ OneMemory(issued, m), End(p, d, m), NoReport,
         alive' \subseteq alive \cup {Len(issued) + 1}
  PROVE  Safe(h.vault)
<1> DEFINE new == Len(issued) + 1
           s == h.vault["primary"]
           l == h.vault["legacy"]
           z == vault'["primary"]
           k == vault'["legacy"]
           b == Best(issued, s)
<1>0. /\ "primary" \in Role /\ "legacy" \in Role /\ "pending" \in Role /\ Role = {"primary", "legacy", "pending"}
      /\ IssuesOK(issued) /\ MemoryOK(issued, memory)
      /\ SlotOK(issued, "primary", s) /\ SlotOK(issued, "legacy", l)
  BY DEF Role, SessionInv, VaultOK
<1>1. Len(issued) \in Nat /\ MarkerFor("registered") \in Marker
  BY <1>0, IssueTypes, KindTypes
<1>2. IssuesOK(issued') /\ Grows(issued, issued') /\ Len(issued') = new
  BY <1>0, <1>1, IssueOpened
<1>3. new \in Credential /\ new \in 1 .. Len(issued')
  BY <1>1, <1>2, CompanionAssumption DEF Credential
<1>4. c \in 1 .. Len(issued) /\ c > 0 /\ SameUser(issued, c, b) /\ SameSession(issued, b, c)
  BY <1>0, <1>1, AheadFits DEF Ahead
<1>5. c \in Credential /\ Fits(issued, "legacy", c)
  BY <1>0, <1>4, IssueTypes DEF Fits
<1>6. \A e \in Readable(l) : SameUser(issued, c, e) /\ SameSession(issued, c, e) /\ e \in 1 .. Len(issued)
  <2>1. SUFFICES ASSUME NEW e \in Readable(l)
                 PROVE  SameUser(issued, c, e) /\ SameSession(issued, c, e) /\ e \in 1 .. Len(issued)
    OBVIOUS
  <2>2. Best(issued, l) > 0
    BY <1>0, <2>1, BestFacts DEF SlotOK
  <2>3. SameUser(issued, Best(issued, l), e) /\ e \in 1 .. Len(issued)
    BY <1>0, <2>2, BestOK DEF SlotOK, Fits
  <2>4. SameUser(issued, c, e)
    BY <2>2, <2>3 DEF SameUser
  <2> QED
    BY <1>0, <1>4, <2>3, <2>4, AnonymousSession
<1>7. /\ q \in Disks /\ Elsewhere(h.vault, "legacy", q.vault)
      /\ Wrote(l, c, q.vault["legacy"])
      /\ q.how = "ok" => q.vault["legacy"].main = c
  BY <1>0, <1>5, OnWrite
<1>8. /\ d \in Disks /\ Elsewhere(q.vault, "primary", d.vault)
      /\ \/ q.how # "ok" /\ d = q
         \/ q.how = "ok" /\ Wrote(q.vault["primary"], new, d.vault["primary"])
  <2> DEFINE n == MarkerFor("registered")
  <2>1. d \in On(q, "primary", WriteCuts(q.vault["primary"], new, n))
    OBVIOUS
  <2> HIDE DEF new, n
  <2>2. n \in Marker
    BY <1>1 DEF n
  <2> QED
    BY <1>0, <1>3, <1>7, <2>1, <2>2, OnWrite
<1>9. vault' = d.vault
  BY DEF End
<1>10. /\ vault'["pending"] = h.vault["pending"] /\ k = q.vault["legacy"] /\ q.vault["primary"] = s
       /\ Wrote(l, c, k)
  BY <1>0, <1>7, <1>8, <1>9 DEF Elsewhere
<1>11. VaultOK(issued', vault')
  <2>1. SlotOK(issued, "legacy", k)
    BY <1>0, <1>5, <1>6, <1>10, SlotWrote
  <2>2. VaultOK(issued, q.vault)
    BY <1>0, <1>7, <1>10, <2>1, DiskTypes, VaultStep
  <2>3. VaultOK(issued', q.vault)
    BY <1>0, <1>2, <2>2, VaultGrows
  <2>4. CASE d = q
    BY <1>9, <2>3, <2>4
  <2>5. CASE Wrote(q.vault["primary"], new, d.vault["primary"])
    <3>1. SlotOK(issued', "primary", q.vault["primary"]) /\ Fits(issued', "primary", new)
      BY <1>0, <1>3, <2>3 DEF VaultOK, Fits
    <3>2. SlotOK(issued', "primary", d.vault["primary"])
      <4> HIDE DEF new
      <4> QED
        BY <1>2, <2>5, <3>1, SlotWrote
    <3> QED
      BY <1>0, <1>8, <1>9, <2>3, <3>2, DiskTypes, VaultStep
  <2> QED
    BY <1>8, <2>4, <2>5
<1>12. Going(h.vault)
  BY <1>0, <1>2, <1>11 DEF Going
<1>13. issued'[b] = issued[b] /\ issued'[c] = issued[c] /\ \A e \in Readable(l) : issued'[e] = issued[e]
  <2>1. b \in Readable(s)
    BY <1>0, BestFacts DEF Ahead, SlotOK
  <2> QED
    BY <1>0, <1>2, <1>4, <1>12, <2>1, GoingTypes DEF Grows
\* Whatever cut it short, the identity is in the primary or the legacy slot.
<1>14. Held(issued', vault', issued[b].sid) # {}
  <2>1. CASE q.how # "ok"
    <3>1. z = s
      BY <1>8, <1>9, <1>10, <2>1
    <3>2. Best(issued', z) = b /\ b > 0
      BY <1>0, <1>12, <3>1, GoingTypes DEF Ahead
    <3> QED
      BY <1>0, <1>13, <3>2 DEF Held
  <2>2. CASE q.how = "ok"
    <3>1. k.main = c /\ k \in Slot
      BY <1>7, <1>10, <2>2 DEF Wrote
    <3>2. Best(issued', k) > 0 /\ Best(issued', k) \in Readable(k)
      BY <1>4, <3>1, BestFacts
    <3>3. Best(issued', k) \in Readable(l) \cup {c}
      <4>1. l \in Slot
        BY <1>0 DEF SlotOK
      <4> QED
        BY <1>5, <1>10, <3>2, <4>1, WroteReadable
    <3>4. issued'[Best(issued', k)].sid = issued[c].sid
      BY <1>6, <1>13, <3>3 DEF SameSession
    <3> QED
      BY <1>0, <1>4, <3>2, <3>4 DEF Held, SameSession
  <2> QED
    BY <2>1, <2>2
<1>15. SlotSafe(h.vault, "primary")
  <2>1. KeepsIn(h.vault, "primary")
    BY <1>14 DEF KeepsIn, Held
  <2>2. z.main = s.main \/ z.main = new
    BY <1>8, <1>9, <1>10 DEF Wrote
  <2>3. AdvancesIn(h.vault, "primary")
    BY <1>0, <1>12, <2>2, ReplacedAdvances
  <2> QED
    BY <2>1, <2>3 DEF SlotSafe
<1>16. SlotSafe(h.vault, "legacy")
  <2>1. KeepsIn(h.vault, "legacy")
    <3> SUFFICES ASSUME NEW sid \in alive', "legacy" \in Held(issued, h.vault, sid)
                 PROVE  sid = issued[b].sid
      BY <1>14 DEF KeepsIn
    <3>1. Best(issued, l) > 0 /\ issued[Best(issued, l)].sid = sid
      BY DEF Held
    <3>2. Best(issued, l) \in Readable(l)
      BY <1>0, <3>1, BestFacts DEF SlotOK
    <3> QED
      BY <1>4, <1>6, <3>1, <3>2 DEF SameSession
  <2>2. k.main = l.main \/ k.main = c
    BY <1>10 DEF Wrote
  <2>3. AdvancesIn(h.vault, "legacy")
    <3> SUFFICES ASSUME l.main > 0, k.main > 0, l.main # k.main
                 PROVE  SameUser(issued', l.main, k.main) /\ Twin(h.vault, l.main)
      BY DEF AdvancesIn
    <3>1. l.main \in Readable(l) /\ k.main = c
      BY <2>2 DEF Readable
    <3> QED
      BY <1>4, <1>6, <1>13, <3>1 DEF SameUser, UserOf, Twin, Ahead
  <2>4. Follows(h.vault)
    <3>1. SameUser(issued', b, c) /\ b > 0
      BY <1>4, <1>13 DEF SameUser, UserOf, Ahead
    <3>2. l.main > 0 => l.main \in Readable(l) /\ SameUser(issued', l.main, l.main)
      BY DEF Readable, SameUser
    <3> QED
      BY <2>2, <3>1, <3>2 DEF Follows
  <2> QED
    BY <2>1, <2>3, <2>4 DEF SlotSafe
<1>17. SlotSafe(h.vault, "pending")
  BY <1>0, <1>10, <1>12, SameSafe
<1>18. SessionInv'
  <2>1. MemoryOK(issued', memory) /\ OneMemory(issued', m)
    BY <1>0, <1>2, MemoryGrows, OneMemoryGrows
  <2>2. faults' \in 0 .. MaxFaults /\ MemoryOK(issued', memory')
    BY <1>8, <2>1, EndStep
  <2> QED
    BY <1>2, <1>11, <2>2, SessionInvNext DEF NoReport
<1> QED
  BY <1>0, <1>2, <1>15, <1>16, <1>17, <1>18 DEF Safe

LEMMA SignInSafe ==
  ASSUME SessionInv, NEW p \in Process, NEW h \in Disks, VaultOK(issued, h.vault), h.how = "ok",
         NEW user \in Account, SignIn(p, h, user)
  PROVE  Safe(h.vault)
<1> DEFINE m1 == Dropping(issued, memory[p], "primary", h.vault["primary"])
           m == Dropping(issued, m1, "legacy", h.vault["legacy"])
           primary == Overlay(issued, m.held["primary"], h.vault["primary"])
           legacy == Overlay(issued, m.held["legacy"], h.vault["legacy"])
           occupied == /\ IsOk(primary, "anonymous") /\ legacy.status = "ok"
                       /\ UserOf(issued, legacy.cred) # UserOf(issued, primary.cred)
           s == h.vault["primary"]
           l == h.vault["legacy"]
           new == Len(issued) + 1
<1>0. "primary" \in Kept /\ "legacy" \in Kept
  BY DEF Kept
<1>1. OneMemory(issued, m)
  <2>1. OneMemory(issued, m1)
    BY <1>0, MemoryOf, MemoryDrops DEF SessionInv
  <2> HIDE DEF m1
  <2> QED
    BY <1>0, <2>1, MemoryDrops
<1>2. /\ NoReport
      /\ \/ End(p, h, m) /\ ServerUnchanged
         \/ /\ Len(issued) < MaxIssued
            /\ ~ (IsOk(primary, "registered") /\ ~ Rejected(primary))
            /\ ~ occupied
            /\ StoreSignIn(p, h, m, primary, user)
  BY Zenon DEF SignIn
<1> HIDE DEF m
<1>3. /\ primary.status = "ok" <=> Best(issued, s) > 0
      /\ primary.status = "ok" => Ahead(issued, s, primary.cred)
      /\ primary.marker \in Marker
      /\ primary.marker.rejected => s.marker.rejected
  BY <1>0, <1>1, ViewOf
<1>4. /\ legacy.status = "ok" <=> Best(issued, l) > 0
      /\ legacy.status = "ok" => Ahead(issued, l, legacy.cred)
  BY <1>0, <1>1, ViewOf
<1> HIDE DEF primary, legacy
<1>5. CASE End(p, h, m) /\ ServerUnchanged
  BY <1>1, <1>2, <1>5, EndSafe
<1>6. CASE /\ Len(issued) < MaxIssued
           /\ ~ (IsOk(primary, "registered") /\ ~ Rejected(primary))
           /\ ~ occupied
           /\ StoreSignIn(p, h, m, primary, user)
  <2> DEFINE first == IF IsOk(primary, "anonymous")
                      THEN On(h, "legacy", WriteCuts(h.vault["legacy"], primary.cred, primary.marker))
                      ELSE IF primary.status # "missing"
                      THEN On(h, "primary", QuarantineCuts(h.vault["primary"]))
                      ELSE {h}
             n(d) == IF d.how = "ok" THEN [FreshMemory EXCEPT !.verified = user] ELSE m
  <2>1. PICK q \in first :
           \E d \in On(q, "primary", WriteCuts(q.vault["primary"], new, MarkerFor("registered"))) :
              /\ issued' = NewSession(issued, user)
              /\ alive' \in IF d.how = "failed" THEN {alive, alive \cup {new}} ELSE {alive \cup {new}}
              /\ End(p, d, n(d))
    BY <1>6 DEF StoreSignIn
  <2>2. PICK d \in On(q, "primary", WriteCuts(q.vault["primary"], new, MarkerFor("registered"))) :
              /\ issued' = NewSession(issued, user)
              /\ alive' \in IF d.how = "failed" THEN {alive, alive \cup {new}} ELSE {alive \cup {new}}
              /\ End(p, d, n(d))
    BY <2>1
  <2>3. alive' \subseteq alive \cup {new}
    BY <2>2
  <2>4. OneMemory(issued, n(d))
    BY <1>1, MemoryTypes, MemoryVerifies
  <2> HIDE DEF n
  <2>5. CASE IsOk(primary, "anonymous")
    <3>1. Ahead(issued, s, primary.cred) /\ KindOf(issued, primary.cred) = "anonymous"
      BY <1>3, <2>5 DEF IsOk
    <3>2. Best(issued, l) > 0 => SameUser(issued, Best(issued, l), primary.cred)
      <4>1. SUFFICES ASSUME Best(issued, l) > 0 PROVE SameUser(issued, Best(issued, l), primary.cred)
        OBVIOUS
      <4>2. Ahead(issued, l, legacy.cred) /\ SameUser(issued, legacy.cred, primary.cred)
        BY <1>4, <1>6, <2>5, <4>1 DEF SameUser
      <4>3. IssuesOK(issued) /\ SlotOK(issued, "legacy", l)
        BY <1>0, MemoryTypes DEF SessionInv, VaultOK
      <4>4. SameUser(issued, legacy.cred, Best(issued, l))
        BY <4>2, <4>3, AheadFits
      <4> QED
        BY <4>2, <4>4 DEF SameUser
    <3>3. q \in On(h, "legacy", WriteCuts(h.vault["legacy"], primary.cred, primary.marker))
      BY <2>1, <2>5
    <3> DEFINE c == primary.cred
               mark == primary.marker
    <3> HIDE DEF c, mark
    <3>4. /\ Ahead(issued, h.vault["primary"], c) /\ KindOf(issued, c) = "anonymous" /\ mark \in Marker
          /\ Best(issued, h.vault["legacy"]) > 0 => SameUser(issued, Best(issued, h.vault["legacy"]), c)
          /\ q \in On(h, "legacy", WriteCuts(h.vault["legacy"], c, mark))
      BY <1>3, <3>1, <3>2, <3>3 DEF c, mark
    <3> QED
      BY <1>2, <1>6, <2>2, <2>3, <2>4, <3>4, PreservedSafe
  <2>6. CASE ~ IsOk(primary, "anonymous")
    <3>1. q = h \/ q \in On(h, "primary", QuarantineCuts(h.vault["primary"]))
      BY <2>1, <2>6
    <3>2. Best(issued, s) > 0 => s.marker.rejected
      <4>1. primary.status = "ok" => IsOk(primary, "registered")
        BY <2>6, KindTypes DEF IsOk
      <4> QED
        BY <1>3, <1>6, <4>1 DEF Rejected
    <3>3. user \in Account \cup {Len(issued) + 1} /\ "registered" \in {"anonymous", "registered"}
      OBVIOUS
    <3> QED
      BY <1>2, <1>6, <2>2, <2>3, <2>4, <3>1, <3>2, <3>3, ReplacedSafe
  <2> QED
    BY <2>5, <2>6
<1> QED
  BY <1>2, <1>5, <1>6

(* The logout's own answer proves an end.                                   *)
LEMMA LogoutAnswer ==
  ASSUME NEW reply, NEW c, NEW i, NEW a, NEW x \in LogoutAnswers(Answer(reply, c, i, a))
  PROVE  /\ x.issued = i /\ x.cred = c /\ x.alive \subseteq a
         /\ x.reply \in {"unconfirmed", "confirmed", "ended"}
         /\ Proven(x) => i[c].sid \notin x.alive
<1> DEFINE r == Answer(reply, c, i, a)
           sid == i[c].sid
<1>0. r = [reply |-> reply, cred |-> c, issued |-> i, alive |-> a]
  BY DEF Answer
<1>1. r.issued[r.cred].sid = sid /\ r.alive = a
  BY <1>0
<1>2. CASE sid \in a
  <2>1. x \in {[r EXCEPT !.reply = "unconfirmed"],
               [r EXCEPT !.reply = "unconfirmed", !.alive = @ \ {sid}],
               [r EXCEPT !.reply = "confirmed", !.alive = @ \ {sid}]}
    BY <1>1, <1>2 DEF LogoutAnswers
  <2>2. CASE x = [r EXCEPT !.reply = "unconfirmed"]
    BY <1>0, <2>2 DEF Proven
  <2>3. CASE x = [r EXCEPT !.reply = "unconfirmed", !.alive = @ \ {sid}]
    BY <1>0, <2>3 DEF Proven
  <2>4. CASE x = [r EXCEPT !.reply = "confirmed", !.alive = @ \ {sid}]
    BY <1>0, <2>4 DEF Proven
  <2> QED
    BY <2>1, <2>2, <2>3, <2>4
<1>3. CASE sid \notin a
  <2>1. x \in {[r EXCEPT !.reply = "unconfirmed"], [r EXCEPT !.reply = "ended"]}
    BY <1>1, <1>3 DEF LogoutAnswers
  <2>2. \/ x = [reply |-> "unconfirmed", cred |-> c, issued |-> i, alive |-> a]
        \/ x = [reply |-> "ended", cred |-> c, issued |-> i, alive |-> a]
    BY <1>0, <2>1
  <2> QED
    BY <1>3, <2>2 DEF Proven
<1> QED
  BY <1>2, <1>3

LEMMA AnswerForm ==
  ASSUME NEW i, NEW a, NEW c, NEW x \in RefreshAnswers(i, a, c)
  PROVE  x = Answer(x.reply, x.cred, x.issued, x.alive)
<1>1. \E p, q, r, s : x = Answer(p, q, r, s)
  BY DEF RefreshAnswers
<1>2. PICK p, q, r, s : x = Answer(p, q, r, s)
  BY <1>1
<1> QED
  BY <1>2 DEF Answer

LEMMA RevokeAnswer ==
  ASSUME SessionInv, NEW c \in 1 .. Len(issued), NEW x \in RevokeAnswers(c)
  PROVE  /\ IssuesOK(x.issued) /\ Grows(issued, x.issued) /\ x.alive \subseteq alive
         /\ x.cred \in 1 .. Len(x.issued) /\ c <= x.cred /\ SameSession(x.issued, c, x.cred)
         /\ x.reply \in {"unconfirmed", "confirmed", "ended"}
         /\ Proven(x) => x.issued[x.cred].sid \notin x.alive
<1>0. IssuesOK(issued) /\ Grows(issued, issued) /\ Len(issued) \in Nat
  BY GrowsSelf, IssueTypes DEF SessionInv
<1>1. CASE x \in LogoutAnswers(Answer("valid", c, issued, alive))
  BY <1>0, <1>1, LogoutAnswer DEF SameSession
<1>2. CASE \E r \in RefreshAnswers(issued, alive, c) :
              r.reply = "granted" /\ x \in LogoutAnswers(r)
  <2>1. PICK r \in RefreshAnswers(issued, alive, c) : r.reply = "granted" /\ x \in LogoutAnswers(r)
    BY <1>2
  <2>2. r = Answer(r.reply, r.cred, r.issued, r.alive)
    BY <2>1, AnswerForm
  <2>3. /\ IssuesOK(r.issued) /\ Grows(issued, r.issued) /\ r.alive \subseteq alive
        /\ r.cred \in 1 .. Len(r.issued) /\ c <= r.cred /\ SameSession(r.issued, c, r.cred)
    BY <1>0, <2>1, RefreshAnswer
  <2> DEFINE i == r.issued
             d == r.cred
             a == r.alive
  <2>4. x \in LogoutAnswers(Answer(r.reply, d, i, a))
    BY <2>1, <2>2
  <2>5. /\ x.issued = i /\ x.cred = d /\ x.alive \subseteq a
        /\ x.reply \in {"unconfirmed", "confirmed", "ended"}
        /\ Proven(x) => i[d].sid \notin x.alive
    <3> HIDE DEF i, d, a
    <3> QED  BY <2>4, LogoutAnswer
  <2> QED
    BY <2>3, <2>5
<1>3. CASE \E r \in RefreshAnswers(issued, alive, c) : x = [r EXCEPT !.reply = "unconfirmed", !.cred = c]
  <2>1. PICK r \in RefreshAnswers(issued, alive, c) : x = [r EXCEPT !.reply = "unconfirmed", !.cred = c]
    BY <1>3
  <2>2. IssuesOK(r.issued) /\ Grows(issued, r.issued) /\ r.alive \subseteq alive
    BY <1>0, <2>1, RefreshAnswer
  <2>3. x.issued = r.issued /\ x.alive = r.alive /\ x.reply = "unconfirmed" /\ x.cred = c
    <3>1. r = [reply |-> r.reply, cred |-> r.cred, issued |-> r.issued, alive |-> r.alive]
      BY <2>1, AnswerForm DEF Answer
    <3> QED
      BY <2>1, <3>1
  <2>4. c \in 1 .. Len(r.issued) /\ c <= c
    BY <1>0, <2>2, IssueTypes DEF Grows
  <2> QED
    BY <2>2, <2>3, <2>4 DEF Proven, SameSession
<1> QED
  BY <1>1, <1>2, <1>3 DEF RevokeAnswers

(* A rejected session is taken for ended.                                   *)
LEMMA EndAnswer ==
  ASSUME SessionInv, NEW view, view.cred \in 1 .. Len(issued), NEW x \in EndAnswers(view)
  PROVE  /\ IssuesOK(x.issued) /\ Grows(issued, x.issued) /\ x.alive \subseteq alive
         /\ x.cred \in 1 .. Len(x.issued) /\ view.cred <= x.cred /\ SameSession(x.issued, view.cred, x.cred)
         /\ x.reply \in {"unconfirmed", "confirmed", "ended"}
         /\ Proven(x) => x.issued[x.cred].sid \notin x.alive \/ view.marker.rejected
<1>0. IssuesOK(issued) /\ Grows(issued, issued) /\ Len(issued) \in Nat
  BY GrowsSelf, IssueTypes DEF SessionInv
<1>1. CASE Rejected(view)
  <2>1. x = Answer("ended", view.cred, issued, alive) /\ view.marker.rejected
    BY <1>1 DEF EndAnswers, Rejected
  <2> DEFINE c == view.cred
  <2>2. c <= c
    BY <1>0
  <2> QED
    BY <1>0, <2>1, <2>2 DEF Answer, SameSession
<1>2. CASE ~ Rejected(view)
  <2>1. x \in RevokeAnswers(view.cred)
    BY <1>2 DEF EndAnswers
  <2> DEFINE c == view.cred
  <2> HIDE DEF c
  <2>2. c \in 1 .. Len(issued) /\ x \in RevokeAnswers(c)
    BY <2>1 DEF c
  <2>3. /\ IssuesOK(x.issued) /\ Grows(issued, x.issued) /\ x.alive \subseteq alive
        /\ x.cred \in 1 .. Len(x.issued) /\ c <= x.cred /\ SameSession(x.issued, c, x.cred)
        /\ x.reply \in {"unconfirmed", "confirmed", "ended"}
        /\ Proven(x) => x.issued[x.cred].sid \notin x.alive
    BY <2>2, RevokeAnswer
  <2> QED
    BY <2>3 DEF c
<1> QED
  BY <1>1, <1>2

(* An unproven end is parked before the slot is emptied.                    *)
LEMMA ParkedSafe ==
  ASSUME SessionInv, NEW h \in Disks, VaultOK(issued, h.vault), h.how = "ok",
         IssuesOK(issued'), Grows(issued, issued'),
         NEW c \in 1 .. Len(issued'), KindOf(issued', c) = "registered",
         Best(issued, h.vault["primary"]) > 0, Best(issued, h.vault["primary"]) <= c,
         SameSession(issued', Best(issued, h.vault["primary"]), c),
         NEW w \in On(h, "pending", WriteCuts(h.vault["pending"], c, MarkerFor("registered"))),
         NEW d \in On(w, "primary", DeleteCuts(w.vault["primary"])), vault' = d.vault
  PROVE  d \in Disks /\ Going(h.vault) /\ \A q \in Role : SlotSafe(h.vault, q)
<1> DEFINE v == h.vault
           b == Best(issued, v["primary"])
           e == Best(issued', vault'["pending"])
<1>0. /\ IssuesOK(issued) /\ VaultOK(issued', v) /\ v \in [Role -> Slot]
      /\ "primary" \in Role /\ "pending" \in Role /\ "legacy" \in Role
  BY VaultGrows DEF SessionInv, VaultOK, Role
<1>1. c \in Credential /\ c \in Int /\ c > 0
  <2>1. Len(issued') \in Nat /\ \A x \in 1 .. Len(issued') : x \in Credential
    BY IssueTypes
  <2> QED
    BY <2>1
<1>2. /\ w \in Disks /\ Elsewhere(v, "pending", w.vault)
      /\ Wrote(v["pending"], c, w.vault["pending"])
      /\ w.how = "ok" => w.vault["pending"].main = c
  <2>1. MarkerFor("registered") \in Marker
    BY KindTypes
  <2> QED
    BY <1>0, <1>1, <2>1, OnWrite
<1>3. /\ d \in Disks /\ Elsewhere(w.vault, "primary", vault')
      /\ Cleared(w.vault["primary"], vault'["primary"])
      /\ w.how # "ok" => vault' = w.vault
  BY <1>0, <1>2, OnClear
<1>4. /\ w.vault \in [Role -> Slot] /\ vault' \in [Role -> Slot]
      /\ w.vault["primary"] = v["primary"] /\ vault'["legacy"] = v["legacy"]
      /\ vault'["pending"] = w.vault["pending"]
      /\ w.how # "ok" => vault'["primary"] = v["primary"]
  BY <1>0, <1>2, <1>3, DiskTypes DEF Elsewhere, Role
<1>5. Going(v)
  <2>1. SlotOK(issued', "pending", w.vault["pending"])
    <3>1. Fits(issued', "pending", c)
      BY DEF Fits
    <3> QED
      BY <1>0, <1>2, <3>1, SlotWrote DEF VaultOK
  <2>2. VaultOK(issued', w.vault)
    BY <1>0, <1>2, <1>4, <2>1, VaultStep
  <2>3. SlotOK(issued', "primary", vault'["primary"])
    BY <1>0, <1>3, <1>4, <2>2, ClearedReadable, SlotReads DEF VaultOK
  <2>4. VaultOK(issued', vault')
    BY <1>0, <1>3, <1>4, <2>2, <2>3, VaultStep
  <2> QED
    BY <1>0, <2>4 DEF Going
<1>6. SlotSafe(v, "legacy")
  BY <1>0, <1>4, <1>5, SameSafe
<1>7. SlotSafe(v, "pending")
  <2>1. Best(issued, v["pending"]) > 0 => e > 0
    <3>1. SUFFICES ASSUME Best(issued, v["pending"]) > 0 PROVE e > 0
      OBVIOUS
    <3> DEFINE s == v["pending"]
               z == w.vault["pending"]
    <3>2. s \in Slot /\ z \in Slot
      BY <1>0, <1>4
    <3>3. Best(issued', s) > 0
      BY <1>0, <1>5, <3>1, GoingTypes
    <3>4. Readable(z) # {}
      <4>1. Best(issued', s) \in Readable(s)
        BY <3>2, <3>3, BestFacts
      <4>2. c \in Readable(z) \/ Readable(s) \subseteq Readable(z)
        BY <1>1, <1>2 DEF Wrote, Readable
      <4> QED
        BY <4>1, <4>2
    <3>5. Best(issued', z) > 0
      BY <3>2, <3>4, BestFacts
    <3> QED
      BY <1>4, <3>5
  <2>2. KeepsIn(v, "pending")
    <3>1. SUFFICES ASSUME NEW sid \in alive', "pending" \in Held(issued, v, sid)
                   PROVE  Excused(v, "pending")
      BY DEF KeepsIn
    <3>2. Best(issued, v["pending"]) > 0
      BY <3>1 DEF Held
    <3> QED
      BY <2>1, <3>2 DEF Excused
  <2> QED
    BY <2>2 DEF SlotSafe, Kept
<1>8. SlotSafe(v, "primary")
  <2>1. CASE w.how # "ok"
    BY <1>0, <1>4, <1>5, <2>1, SameSafe
  <2>2. CASE w.how = "ok"
    <3>1. AdvancesIn(v, "primary")
      <4>1. vault'["primary"].main = v["primary"].main \/ ~ (vault'["primary"].main > 0)
        BY <1>3, <1>4 DEF Cleared, Missing
      <4> QED
        BY <1>0, <1>5, <4>1, ReplacedAdvances
    <3>2. KeepsIn(v, "primary")
      <4>1. SUFFICES ASSUME NEW sid \in alive', "primary" \in Held(issued, v, sid)
                     PROVE  Held(issued', vault', sid) # {} \/ Excused(v, "primary")
        BY DEF KeepsIn
      <4>2. b \in Int /\ b \in 1 .. Len(issued') /\ issued[b].sid = sid /\ issued'[b] = issued[b]
        <5>1. b \in Readable(v["primary"])
          BY <1>0, BestFacts
        <5> QED
          BY <1>0, <1>5, <4>1, <5>1, GoingTypes DEF Held
      <4>3. issued'[c].sid = sid /\ SameUser(issued', c, b)
        <5>1. SameSession(issued', b, c) /\ SameSession(issued', c, b)
          BY DEF SameSession
        <5> QED
          BY <4>2, <5>1, UserOfSession DEF SameSession
      <4>4. /\ e \in Int /\ e > 0 /\ c <= e /\ SameUser(issued', e, c)
        <5>1. vault'["pending"] \in Slot /\ vault'["pending"].main = c
          BY <1>0, <1>2, <1>4, <2>2
        <5> QED
          BY <1>1, <5>1, BestFacts
      <4>5. CASE e = c
        BY <1>0, <4>3, <4>4, <4>5 DEF Held
      <4>6. CASE e # c
        <5>1. e > b
          BY <1>1, <4>2, <4>4, <4>6
        <5>2. IsNewer(issued', e, b)
          BY <4>3, <4>4, <5>1 DEF IsNewer, SameUser
        <5> QED
          BY <4>4, <5>2 DEF Excused
      <4> QED
        BY <4>5, <4>6
    <3> QED
      BY <3>1, <3>2 DEF SlotSafe
  <2> QED
    BY <2>1, <2>2
<1> QED
  BY <1>3, <1>5, <1>6, <1>7, <1>8 DEF Role

LEMMA SignedOutMemory ==
  ASSUME NEW i, NEW m, OneMemory(i, m)
  PROVE  /\ OneMemory(i, SignedOut(m))
         /\ OneMemory(i, [m EXCEPT !.held["legacy"] = NotHeld])
<1>0. /\ NoUser \in Account \cup {NoUser} /\ "primary" \in Kept /\ "legacy" \in Kept
      /\ NotHeld \in Unwritten /\ \A r : HeldOK(i, r, NotHeld)
  BY MemoryTypes DEF Kept, HeldOK
<1> DEFINE x == [m EXCEPT !.verified = NoUser]
<1>1. OneMemory(i, x)
  BY <1>0, MemoryVerifies
<1>2. SignedOut(m) = [x EXCEPT !.held["primary"] = NotHeld]
  BY DEF SignedOut
<1> HIDE DEF x
<1>3. OneMemory(i, SignedOut(m))
  BY <1>0, <1>1, <1>2, MemoryHolds
<1> QED
  BY <1>0, <1>3, MemoryHolds

LEMMA ReportBounds ==
  ASSUME NEW r, NEW d, r.alive \subseteq alive, Report(r, d)
  PROVE  reported' \subseteq reported \cup alive
BY DEF Report

(* What a step does to the server, the report and one process's memory.     *)
LEMMA ClosingSafe ==
  ASSUME SessionInv, NEW p \in Process, NEW d \in Disks, NEW m, OneMemory(issued, m), End(p, d, m),
         Served, reported' \subseteq reported \cup alive,
         NEW v, Going(v), \A q \in Role : SlotSafe(v, q)
  PROVE  Safe(v)
<1>1. IssuesOK(issued) /\ IssuesOK(issued') /\ Grows(issued, issued') /\ MemoryOK(issued, memory)
  BY DEF SessionInv, Served
<1>2. MemoryOK(issued', memory) /\ OneMemory(issued', m)
  BY <1>1, MemoryGrows, OneMemoryGrows
<1>3. MemoryOK(issued', memory') /\ faults' \in 0 .. MaxFaults
  BY <1>2, EndStep
<1>4. SessionInv'
  BY <1>1, <1>3, SessionInvNext DEF Going, Served
<1> QED
  BY <1>1, <1>4 DEF Safe

(* A slot may be emptied when its session is over, rejected or given up.    *)
LEMMA OverKeeps ==
  ASSUME NEW v, Going(v), NEW r \in Role,
         \/ ~ (Best(issued, v[r]) > 0)
         \/ issued'[Best(issued, v[r])].sid \notin alive'
         \/ v[r].marker.rejected
         \/ GivenUp
  PROVE  KeepsIn(v, r)
<1>1. SUFFICES ASSUME NEW sid \in alive', r \in Held(issued, v, sid)
               PROVE  Excused(v, r) \/ GivenUp
  BY DEF KeepsIn
<1>2. Best(issued, v[r]) > 0 /\ issued[Best(issued, v[r])].sid = sid
  BY <1>1 DEF Held
<1>3. issued'[Best(issued, v[r])] = issued[Best(issued, v[r])]
  <2>1. v[r] \in Slot
    BY GoingTypes
  <2>2. Best(issued, v[r]) \in Readable(v[r])
    BY <1>2, <2>1, BestFacts
  <2> QED
    BY <2>2, GoingTypes
<1> QED
  BY <1>1, <1>2, <1>3 DEF Excused

LEMMA ClearedSafe ==
  ASSUME SessionInv, NEW h \in Disks, VaultOK(issued, h.vault), Served, NEW r \in Role,
         NEW cuts, cuts \in {DeleteCuts(h.vault[r]), QuarantineCuts(h.vault[r])},
         NEW d \in On(h, r, cuts), vault' = d.vault,
         Going(h.vault) => KeepsIn(h.vault, r)
  PROVE  d \in Disks /\ Going(h.vault) /\ \A q \in Role : SlotSafe(h.vault, q)
<1> DEFINE v == h.vault
<1>0. IssuesOK(issued) /\ IssuesOK(issued') /\ Grows(issued, issued') /\ VaultOK(issued', v)
  BY VaultGrows DEF SessionInv, Served
<1>1. d \in Disks /\ Elsewhere(v, r, vault') /\ Cleared(v[r], vault'[r])
  BY OnClear
<1>2. v \in [Role -> Slot] /\ vault' \in [Role -> Slot]
  BY <1>1, DiskTypes
<1>3. Going(v)
  <2>1. SlotOK(issued', r, vault'[r])
    BY <1>0, <1>1, <1>2, ClearedReadable, SlotReads DEF VaultOK
  <2>2. VaultOK(issued', vault')
    BY <1>0, <1>1, <1>2, <2>1, VaultStep
  <2> QED
    BY <1>0, <2>2 DEF Going
<1>4. ASSUME NEW q \in Role, q # r PROVE SlotSafe(v, q)
  BY <1>1, <1>3, <1>4, SameSafe DEF Elsewhere
<1>5. SlotSafe(v, r)
  <2>1. KeepsIn(v, r)
    BY <1>3
  <2>2. AdvancesIn(v, r)
    <3>1. vault'[r].main = v[r].main \/ ~ (vault'[r].main > 0)
      BY <1>1 DEF Cleared, Missing
    <3> QED
      BY <1>3, <3>1, ReplacedAdvances
  <2>3. r = "legacy" => Follows(v)
    BY <1>1, <1>3, ClearedFollows
  <2> QED
    BY <2>1, <2>2, <2>3 DEF SlotSafe
<1> QED
  BY <1>1, <1>3, <1>4, <1>5

LEMMA SignOutSafe ==
  ASSUME SessionInv, NEW p \in Process, NEW h \in Disks, VaultOK(issued, h.vault), h.how = "ok",
         SignOut(p, h)
  PROVE  Safe(h.vault)
<1> DEFINE v == h.vault
           s == v["primary"]
           primary == Read(issued, s)
           m == memory[p]
           n(d) == IF d.how = "ok" THEN SignedOut(m) ELSE m
<1>0. /\ IssuesOK(issued) /\ "primary" \in Role /\ "pending" \in Role /\ s \in Slot /\ SlotOK(issued, "primary", s)
      /\ alive \subseteq alive
  BY DEF SessionInv, VaultOK, Role
<1>1. OneMemory(issued, m) /\ \A d : OneMemory(issued, n(d))
  <2>1. OneMemory(issued, m)
    BY MemoryOf DEF SessionInv
  <2> QED
    BY <2>1, SignedOutMemory
<1>2. /\ primary.status = Status(issued, s) /\ primary.cred = Best(issued, s) /\ primary.marker = s.marker
  BY DEF Read
<1>3. \/ /\ primary.status = "unreadable" /\ ServerUnchanged /\ NoReport
         /\ \E d \in On(h, "primary", QuarantineCuts(s)) : End(p, d, n(d))
      \/ End(p, h, m) /\ ServerUnchanged /\ NoReport
      \/ /\ IsOk(primary, "registered")
         /\ \E r \in EndAnswers(primary) :
            \E w \in IF Proven(r) THEN {h}
                    ELSE On(h, "pending", WriteCuts(v["pending"], r.cred, MarkerFor("registered"))) :
            \E d \in On(w, "primary", DeleteCuts(w.vault["primary"])) :
               Server(r.issued, r.alive) /\ End(p, d, n(d)) /\ Report(r, d)
  BY DEF SignOut
<1> HIDE DEF n, primary
<1>4. CASE /\ primary.status = "unreadable" /\ ServerUnchanged /\ NoReport
           /\ \E d \in On(h, "primary", QuarantineCuts(s)) : End(p, d, n(d))
  <2>1. PICK d \in On(h, "primary", QuarantineCuts(s)) : End(p, d, n(d))
    BY <1>4
  <2>2. Served /\ reported' \subseteq reported \cup alive /\ vault' = d.vault
    BY <1>4, <2>1, ServedSame DEF NoReport, End
  <2>3. ~ (Best(issued, s) > 0)
    BY <1>0, <1>2, <1>4, BestFacts
  <2>4. Going(v) => KeepsIn(v, "primary")
    BY <1>0, <2>3, OverKeeps
  <2>5. d \in Disks /\ Going(v) /\ \A q \in Role : SlotSafe(v, q)
    BY <1>0, <2>1, <2>2, <2>4, ClearedSafe
  <2> QED
    BY <1>1, <2>1, <2>2, <2>5, ClosingSafe
<1>5. CASE End(p, h, m) /\ ServerUnchanged /\ NoReport
  BY <1>1, <1>5, EndSafe
<1>6. CASE /\ IsOk(primary, "registered")
           /\ \E r \in EndAnswers(primary) :
              \E w \in IF Proven(r) THEN {h}
                      ELSE On(h, "pending", WriteCuts(v["pending"], r.cred, MarkerFor("registered"))) :
              \E d \in On(w, "primary", DeleteCuts(w.vault["primary"])) :
                 Server(r.issued, r.alive) /\ End(p, d, n(d)) /\ Report(r, d)
  <2>1. PICK r \in EndAnswers(primary) :
              \E w \in IF Proven(r) THEN {h}
                      ELSE On(h, "pending", WriteCuts(v["pending"], r.cred, MarkerFor("registered"))) :
              \E d \in On(w, "primary", DeleteCuts(w.vault["primary"])) :
                 Server(r.issued, r.alive) /\ End(p, d, n(d)) /\ Report(r, d)
    BY <1>6
  <2>2. PICK w \in IF Proven(r) THEN {h}
                  ELSE On(h, "pending", WriteCuts(v["pending"], r.cred, MarkerFor("registered"))) :
              \E d \in On(w, "primary", DeleteCuts(w.vault["primary"])) :
                 Server(r.issued, r.alive) /\ End(p, d, n(d)) /\ Report(r, d)
    BY <2>1
  <2>3. PICK d \in On(w, "primary", DeleteCuts(w.vault["primary"])) :
                 Server(r.issued, r.alive) /\ End(p, d, n(d)) /\ Report(r, d)
    BY <2>2
  <2> DEFINE b == Best(issued, s)
  <2>4. b > 0 /\ b \in 1 .. Len(issued) /\ KindOf(issued, b) = "registered"
    <3>1. Status(issued, s) = "ok" /\ KindOf(issued, b) = "registered"
      BY <1>2, <1>6 DEF IsOk
    <3>2. b > 0
      BY <1>0, <3>1, BestFacts
    <3> QED
      BY <1>0, <3>1, <3>2, BestOK
  <2>5. /\ IssuesOK(r.issued) /\ Grows(issued, r.issued) /\ r.alive \subseteq alive
        /\ r.cred \in 1 .. Len(r.issued) /\ b <= r.cred /\ SameSession(r.issued, b, r.cred)
        /\ Proven(r) => r.issued[r.cred].sid \notin r.alive \/ s.marker.rejected
    BY <1>2, <2>1, <2>4, EndAnswer
  <2>6. issued' = r.issued /\ alive' = r.alive /\ vault' = d.vault /\ Served
    BY <2>3, <2>5 DEF Server, End, Served
  <2>7. reported' \subseteq reported \cup alive
    BY <2>3, <2>5, ReportBounds
  <2>8. d \in Disks /\ Going(v) /\ \A q \in Role : SlotSafe(v, q)
    <3>1. CASE Proven(r)
      <4>1. w = h
        BY <2>2, <3>1
      <4>2. issued'[b].sid \notin alive' \/ s.marker.rejected
        BY <2>5, <2>6, <3>1 DEF SameSession
      <4>3. Going(v) => KeepsIn(v, "primary")
        BY <1>0, <4>2, OverKeeps
      <4> QED
        BY <1>0, <2>3, <2>6, <4>1, <4>3, ClearedSafe
    <3>2. CASE ~ Proven(r)
      <4> DEFINE c == r.cred
      <4>1. w \in On(h, "pending", WriteCuts(v["pending"], c, MarkerFor("registered")))
        BY <2>2, <3>2
      <4>2. c \in 1 .. Len(issued') /\ b <= c /\ SameSession(issued', b, c)
        BY <2>5, <2>6
      <4>3. KindOf(issued', c) = "registered"
        <5>1. IssuesOK(issued') /\ b \in 1 .. Len(issued') /\ issued'[b] = issued[b]
          BY <1>0, <2>4, <2>5, <2>6, IssueTypes DEF Grows
        <5>2. KindOf(issued', b) = "registered"
          BY <2>4, <5>1 DEF KindOf, UserOf
        <5> QED
          BY <4>2, <5>1, <5>2, UserOfSession
      <4> HIDE DEF c
      <4> QED
        BY <2>3, <2>4, <2>6, <4>1, <4>2, <4>3, ParkedSafe DEF Served
    <3> QED
      BY <3>1, <3>2
  <2> QED
    BY <1>1, <2>3, <2>6, <2>7, <2>8, ClosingSafe
<1> QED
  BY <1>3, <1>4, <1>5, <1>6

LEMMA DiskIs ==
  ASSUME SessionInv
  PROVE  Disk \in Disks /\ Disk.vault = vault /\ VaultOK(issued, vault)
<1>1. MaxFaults - faults \in 0 .. MaxFaults
  BY CompanionAssumption DEF SessionInv
<1> QED
  BY <1>1 DEF Disk, Disks, Ways, SessionInv, VaultOK

LEMMA RetrySafe ==
  ASSUME SessionInv, NEW p \in Process, RetryPendingRevocation(p)
  PROVE  Safe(vault)
<1> DEFINE s == vault["pending"]
           b == Best(issued, s)
           m == memory[p]
<1>0. /\ IssuesOK(issued) /\ "pending" \in Role /\ s \in Slot /\ SlotOK(issued, "pending", s)
      /\ Disk \in Disks /\ Disk.vault = vault /\ VaultOK(issued, vault) /\ OneMemory(issued, m)
  BY DiskIs, MemoryOf DEF SessionInv, VaultOK, Role
<1>1. PICK r \in RevokeAnswers(b) :
         /\ Server(r.issued, r.alive)
         /\ \E d \in IF Proven(r) THEN On(Disk, "pending", DeleteCuts(s)) ELSE {Disk} :
               End(p, d, m) /\ Report(r, d)
  BY DEF RetryPendingRevocation, Read
<1>2. PICK d \in IF Proven(r) THEN On(Disk, "pending", DeleteCuts(s)) ELSE {Disk} :
               End(p, d, m) /\ Report(r, d)
  BY <1>1
<1>3. b > 0 /\ b \in 1 .. Len(issued)
  <2>1. Status(issued, s) = "ok"
    BY DEF RetryPendingRevocation, Read
  <2> QED
    BY <1>0, <2>1, BestFacts, BestOK
<1>4. /\ IssuesOK(r.issued) /\ Grows(issued, r.issued) /\ r.alive \subseteq alive
      /\ SameSession(r.issued, b, r.cred)
      /\ Proven(r) => r.issued[r.cred].sid \notin r.alive
  BY <1>1, <1>3, RevokeAnswer
<1>5. issued' = r.issued /\ alive' = r.alive /\ vault' = d.vault /\ Served
  BY <1>1, <1>2, <1>4 DEF Server, End, Served
<1>6. reported' \subseteq reported \cup alive
  BY <1>2, <1>4, ReportBounds
<1>7. CASE Proven(r)
  <2>1. issued'[b].sid \notin alive'
    BY <1>4, <1>5, <1>7 DEF SameSession
  <2>2. Going(vault) => KeepsIn(vault, "pending")
    BY <1>0, <2>1, OverKeeps
  <2>3. d \in On(Disk, "pending", DeleteCuts(Disk.vault["pending"]))
    BY <1>0, <1>2, <1>7
  <2>4. d \in Disks /\ Going(Disk.vault) /\ \A q \in Role : SlotSafe(Disk.vault, q)
    BY <1>0, <1>5, <2>2, <2>3, ClearedSafe
  <2> QED
    BY <1>0, <1>2, <1>5, <1>6, <2>4, ClosingSafe
<1>8. CASE ~ Proven(r)
  <2>1. d = Disk
    BY <1>2, <1>8
  <2>2. MemoryOK(issued', memory') /\ faults' \in 0 .. MaxFaults
    <3>1. MemoryOK(issued', memory) /\ OneMemory(issued', m)
      BY <1>0, <1>5, MemoryGrows, OneMemoryGrows DEF Served, SessionInv
    <3> QED
      BY <1>0, <1>2, <2>1, <3>1, EndStep
  <2> QED
    BY <1>0, <1>5, <1>6, <2>1, <2>2, IdleSafe
<1> QED
  BY <1>7, <1>8

LEMMA DiscardSafe ==
  ASSUME SessionInv, NEW p \in Process, DiscardPendingRevocation(p)
  PROVE  Safe(vault)
<1>0. /\ "pending" \in Role /\ GivenUp
      /\ Disk \in Disks /\ Disk.vault = vault /\ VaultOK(issued, vault) /\ OneMemory(issued, memory[p])
  BY DiskIs, MemoryOf DEF SessionInv, Role, GivenUp
<1>1. PICK d \in On(Disk, "pending", DeleteCuts(vault["pending"])) : End(p, d, memory[p])
  BY DEF DiscardPendingRevocation
<1>2. Served /\ reported' \subseteq reported \cup alive /\ vault' = d.vault
  BY <1>1, ServedSame DEF DiscardPendingRevocation, NoReport, End
<1>3. Going(vault) => KeepsIn(vault, "pending")
  BY <1>0, OverKeeps
<1>4. d \in Disks /\ Going(Disk.vault) /\ \A q \in Role : SlotSafe(Disk.vault, q)
  BY <1>0, <1>1, <1>2, <1>3, ClearedSafe
<1> QED
  BY <1>0, <1>1, <1>2, <1>4, ClosingSafe

LEMMA ForgetSafe ==
  ASSUME SessionInv, NEW p \in Process, NEW h \in HealStorage, h \in Disks, VaultOK(issued, h.vault),
         NEW discard \in BOOLEAN, ForgetLegacyOwner(p, h, discard)
  PROVE  Safe(h.vault)
<1> DEFINE v == h.vault
           s == v["legacy"]
           b == Best(issued, s)
           legacy == Read(issued, s)
           m == memory[p]
           n(d) == IF d.how = "ok" THEN [m EXCEPT !.held["legacy"] = NotHeld] ELSE m
           gone(r) == Proven(r) \/ (discard /\ r.reply = "unconfirmed") \/ r.reply = "unreadable"
           answers == IF legacy.status = "ok" THEN EndAnswers(legacy)
                      ELSE {Answer(legacy.status, 0, issued, alive)}
<1>0. IssuesOK(issued) /\ "legacy" \in Role /\ s \in Slot /\ SlotOK(issued, "legacy", s)
  BY DEF SessionInv, VaultOK, Role
<1>1. OneMemory(issued, m) /\ \A d : OneMemory(issued, n(d))
  <2>1. OneMemory(issued, m)
    BY MemoryOf DEF SessionInv
  <2> QED
    BY <2>1, SignedOutMemory
<1>2. legacy.status = Status(issued, s) /\ legacy.cred = b /\ legacy.marker = s.marker
  BY DEF Read
<1>3. PICK r \in answers :
         /\ Server(r.issued, r.alive)
         /\ IF gone(r)
            THEN \E d \in On(h, "legacy", DeleteCuts(s)) : End(p, d, n(d)) /\ Report(r, d)
            ELSE End(p, h, m) /\ NoReport
  BY DEF ForgetLegacyOwner
<1>4. discard => GivenUp
  BY DEF GivenUp
<1> HIDE DEF n, legacy
<1>5. /\ r.alive \subseteq alive /\ IssuesOK(r.issued) /\ Grows(issued, r.issued)
      /\ gone(r) => \/ ~ (b > 0)
                    \/ r.issued[b].sid \notin r.alive
                    \/ s.marker.rejected
                    \/ GivenUp
  <2>1. CASE legacy.status = "ok"
    <3>1. b > 0 /\ b \in 1 .. Len(issued)
      BY <1>0, <1>2, <2>1, BestFacts, BestOK
    <3>2. r \in EndAnswers(legacy)
      BY <1>3, <2>1
    <3>3. /\ IssuesOK(r.issued) /\ Grows(issued, r.issued) /\ r.alive \subseteq alive
          /\ SameSession(r.issued, b, r.cred)
          /\ r.reply \in {"unconfirmed", "confirmed", "ended"}
          /\ Proven(r) => r.issued[r.cred].sid \notin r.alive \/ s.marker.rejected
      BY <1>2, <3>1, <3>2, EndAnswer
    <3> QED
      BY <1>4, <3>3 DEF SameSession
  <2>2. CASE legacy.status # "ok"
    <3>1. r.issued = issued /\ r.alive = alive
      BY <1>3, <2>2 DEF Answer
    <3>2. ~ (b > 0)
      BY <1>0, <1>2, <2>2, BestFacts
    <3> QED
      BY <1>0, <3>1, <3>2, GrowsSelf
  <2> QED
    BY <2>1, <2>2
<1>6. issued' = r.issued /\ alive' = r.alive /\ Served
  BY <1>3, <1>5 DEF Server, Served
<1>7. CASE gone(r)
  <2>1. PICK d \in On(h, "legacy", DeleteCuts(s)) : End(p, d, n(d)) /\ Report(r, d)
    BY <1>3, <1>7
  <2>2. vault' = d.vault /\ reported' \subseteq reported \cup alive
    BY <1>5, <2>1, ReportBounds DEF End
  <2>3. Going(v) => KeepsIn(v, "legacy")
    BY <1>0, <1>5, <1>6, <1>7, OverKeeps
  <2>4. d \in Disks /\ Going(v) /\ \A q \in Role : SlotSafe(v, q)
    BY <1>0, <1>6, <2>1, <2>2, <2>3, ClearedSafe
  <2> QED
    BY <1>1, <1>6, <2>1, <2>2, <2>4, ClosingSafe
<1>8. CASE ~ gone(r)
  <2>1. End(p, h, m) /\ NoReport
    BY <1>3, <1>8
  <2>2. vault' = v /\ reported' \subseteq reported \cup alive
    BY <2>1 DEF End, NoReport
  <2>3. MemoryOK(issued', memory') /\ faults' \in 0 .. MaxFaults
    <3>1. MemoryOK(issued', memory) /\ OneMemory(issued', m)
      BY <1>0, <1>1, <1>6, MemoryGrows, OneMemoryGrows DEF Served, SessionInv
    <3> QED
      BY <2>1, <3>1, EndStep
  <2> QED
    BY <1>6, <2>2, <2>3, IdleSafe
<1> QED
  BY <1>7, <1>8

LEMMA RestartSafe ==
  ASSUME SessionInv, NEW p \in Process, Restart(p)
  PROVE  Safe(vault)
<1>1. ServerUnchanged /\ vault' = vault /\ faults' = faults /\ reported' = reported
  BY DEF Restart, ServerUnchanged
<1>2. MemoryOK(issued', memory')
  <2>1. memory' = [memory EXCEPT ![p] = FreshMemory] /\ MemoryOK(issued, memory)
    BY DEF Restart, SessionInv
  <2>2. OneMemory(issued, FreshMemory)
    BY MemoryTypes
  <2>3. memory' \in [Process -> Memory]
    BY <2>1, <2>2 DEF MemoryOK, OneMemory
  <2>4. \A q \in Process : OneMemory(issued, memory'[q])
    BY <2>1, <2>2, MemoryOf DEF MemoryOK
  <2> QED
    BY <1>1, <2>3, <2>4 DEF MemoryOK, OneMemory, ServerUnchanged
<1>3. faults' \in 0 .. MaxFaults /\ reported' \subseteq reported \cup alive /\ VaultOK(issued, vault)
  BY <1>1 DEF SessionInv
<1> QED
  BY <1>1, <1>2, <1>3, ServedSame, IdleSafe

LEMMA EndsSafe ==
  ASSUME SessionInv, NEW sid \in alive, ServerEnds(sid)
  PROVE  Safe(vault)
<1>1. /\ issued' = issued /\ vault' = vault /\ memory' = memory /\ faults' = faults /\ reported' = reported
      /\ alive' \subseteq alive
  BY DEF ServerEnds
<1>2. Served
  BY <1>1, GrowsSelf DEF Served, SessionInv
<1>3. /\ MemoryOK(issued', memory') /\ faults' \in 0 .. MaxFaults /\ VaultOK(issued, vault)
      /\ reported' \subseteq reported \cup alive
  BY <1>1 DEF SessionInv
<1> QED
  BY <1>1, <1>2, <1>3, IdleSafe

LEMMA DamageSafe ==
  ASSUME SessionInv, NEW r \in Role, Damage(r)
  PROVE  Safe(vault)
<1> DEFINE s == vault[r]
           z == [s EXCEPT !.main = Damaged]
<1>0. /\ IssuesOK(issued) /\ VaultOK(issued, vault) /\ vault \in [Role -> Slot] /\ s \in Slot /\ Grows(issued, issued)
      /\ SlotOK(issued, r, s)
  BY GrowsSelf DEF SessionInv, VaultOK
<1>1. /\ issued' = issued /\ alive' = alive /\ memory' = memory /\ reported' = reported
      /\ faults' = faults + 1 /\ faults < MaxFaults /\ vault' = [vault EXCEPT ![r].main = Damaged]
  BY DEF Damage
<1>2. /\ z \in Slot /\ z.main = Damaged /\ z.bak = s.bak /\ z.tmp = s.tmp
  <2>1. s = [main |-> s.main, bak |-> s.bak, tmp |-> s.tmp, marker |-> s.marker]
    BY <1>0, SlotFields
  <2>2. z = [main |-> Damaged, bak |-> s.bak, tmp |-> s.tmp, marker |-> s.marker]
    BY <2>1
  <2>3. Damaged \in File
    BY FileTypes
  <2> QED
    BY <1>0, <2>2, <2>3, SlotFields, SlotOf
<1>3. vault' \in [Role -> Slot] /\ vault'[r] = z /\ Elsewhere(vault, r, vault')
  <2>1. vault' = [vault EXCEPT ![r] = z]
    BY <1>1
  <2> HIDE DEF z
  <2> QED
    BY <1>0, <1>2, <2>1 DEF Elsewhere
<1>4. Going(vault)
  <2>1. Readable(z) \subseteq Readable(s)
    BY <1>2 DEF Readable, Damaged
  <2>2. SlotOK(issued, r, vault'[r])
    BY <1>0, <1>2, <1>3, <2>1, SlotReads
  <2>3. VaultOK(issued', vault')
    BY <1>0, <1>1, <1>3, <2>2, VaultStep
  <2> QED
    BY <1>0, <1>1, <2>3 DEF Going
<1>5. ASSUME NEW q \in Role, q # r PROVE SlotSafe(vault, q)
  BY <1>3, <1>4, <1>5, SameSafe DEF Elsewhere
<1>6. SlotSafe(vault, r)
  <2>1. KeepsIn(vault, r)
    BY <1>2, <1>3 DEF KeepsIn, Excused
  <2>2. vault'[r].main = Damaged /\ ~ (Damaged > 0)
    BY <1>2, <1>3 DEF Damaged
  <2>3. AdvancesIn(vault, r)
    BY <1>4, <2>2, ReplacedAdvances
  <2>4. r = "legacy" => Follows(vault)
    BY <2>2 DEF Follows
  <2> QED
    BY <2>1, <2>3, <2>4 DEF SlotSafe
<1>7. SessionInv'
  <2>1. faults' \in 0 .. MaxFaults
    BY <1>1, CompanionAssumption DEF SessionInv
  <2> QED
    BY <1>0, <1>1, <1>4, <2>1 DEF SessionInv, Going
<1> QED
  BY <1>0, <1>1, <1>5, <1>6, <1>7 DEF Safe

LEMMA HealedSelf ==
  ASSUME SessionInv
  PROVE  Healed(issued, vault, vault)
<1>1. VaultOK(issued, vault) /\ vault["primary"] \in Slot /\ vault["legacy"] \in Slot
  BY DEF SessionInv, VaultOK, Role
<1>2. \A s \in Slot : Repaired(issued, s, s)
  BY OnwardSelf DEF Repaired
<1> QED
  BY <1>1, <1>2 DEF Healed

(* A step is safe for the vault it found, or for the one its own healing    *)
(* of the storage made of it.                                              *)
LEMMA NextSafe ==
  ASSUME SessionInv, Next
  PROVE  \E w : Healed(issued, vault, w) /\ Safe(w)
<1>1. ASSUME NEW p \in Process, NEW h \in HealStorage, Initialize(p, h) \/ (h.how = "ok" /\ Operation(p, h))
      PROVE  Healed(issued, vault, h.vault) /\ Safe(h.vault)
  <2>1. h \in Disks /\ Healed(issued, vault, h.vault) /\ VaultOK(issued, h.vault)
    BY HealStep DEF Healed
  <2>2. CASE Initialize(p, h)
    <3>1. OneMemory(issued, memory[p])
      BY MemoryOf DEF SessionInv
    <3>2. End(p, h, memory[p]) /\ ServerUnchanged /\ NoReport
      BY <2>2 DEF Initialize
    <3> QED
      BY <2>1, <3>1, <3>2, EndSafe
  <2>3. ASSUME h.how = "ok", NEW r \in Kept, GetAccessToken(p, h, r) PROVE Safe(h.vault)
    BY <2>1, <2>3, TokenSafe
  <2>4. ASSUME h.how = "ok", StartAnonymous(p, h) PROVE Safe(h.vault)
    BY <2>1, <2>4, StartSafe
  <2>5. ASSUME h.how = "ok", NEW user \in Account, SignIn(p, h, user) PROVE Safe(h.vault)
    BY <2>1, <2>5, SignInSafe
  <2>6. ASSUME h.how = "ok", SignOut(p, h) PROVE Safe(h.vault)
    BY <2>1, <2>6, SignOutSafe
  <2>7. ASSUME NEW discard \in BOOLEAN, ForgetLegacyOwner(p, h, discard) PROVE Safe(h.vault)
    BY <2>1, <2>7, ForgetSafe
  <2> QED
    BY <1>1, <2>1, <2>2, <2>3, <2>4, <2>5, <2>6, <2>7 DEF Operation
<1>2. ASSUME Safe(vault) PROVE Healed(issued, vault, vault) /\ Safe(vault)
  BY <1>2, HealedSelf
<1>3. ASSUME NEW p \in Process, RetryPendingRevocation(p) \/ DiscardPendingRevocation(p) \/ Restart(p)
      PROVE  Safe(vault)
  BY <1>3, RetrySafe, DiscardSafe, RestartSafe
<1>4. ASSUME NEW sid \in alive, ServerEnds(sid) PROVE Safe(vault)
  BY <1>4, EndsSafe
<1>5. ASSUME NEW r \in Role, Damage(r) PROVE Safe(vault)
  BY <1>5, DamageSafe
<1> QED
  BY <1>1, <1>2, <1>3, <1>4, <1>5 DEF Next

LEMMA InitInv ==
  ASSUME Init
  PROVE  SessionInv
<1>1. issued = << >> /\ alive = {} /\ faults = 0 /\ reported = {}
  BY DEF Init
<1>2. IssuesOK(issued) /\ Len(issued) = 0
  BY <1>1, CompanionAssumption DEF IssuesOK
<1>3. VaultOK(issued, vault)
  <2>1. vault = [r \in Role |-> Blank]
    BY DEF Init
  <2>2. Blank \in Slot /\ Readable(Blank) = {}
    BY BlankTypes DEF Blank, Readable, Missing
  <2> HIDE DEF Blank
  <2> QED
    BY <2>1, <2>2 DEF VaultOK, SlotOK
<1>4. MemoryOK(issued, memory)
  <2>1. memory = [p \in Process |-> FreshMemory]
    BY DEF Init
  <2>2. OneMemory(issued, FreshMemory)
    BY MemoryTypes
  <2> QED
    BY <2>1, <2>2 DEF MemoryOK, OneMemory
<1>5. faults \in 0 .. MaxFaults
  BY <1>1, CompanionAssumption
<1> QED
  BY <1>1, <1>2, <1>3, <1>4, <1>5 DEF SessionInv

LEMMA InvNext ==
  ASSUME SessionInv, [Next]_vars
  PROVE  SessionInv'
<1>1. CASE Next
  BY <1>1, NextSafe DEF Safe
<1>2. CASE UNCHANGED vars
  BY <1>2 DEF vars, SessionInv, IssuesOK, VaultOK, SlotOK, Readable, Fits, KindOf, UserOf, MemoryOK, HeldOK
<1> QED
  BY <1>1, <1>2

(* The server's issues, the files of the three slots and the sessions held  *)
(* in memory stay sound, through every crash, disk failure and damaged file.*)
THEOREM SessionInvariant == Spec => []SessionInv
<1>1. Init => SessionInv
  BY InitInv
<1>2. SessionInv /\ [Next]_vars => SessionInv'
  BY InvNext
<1> QED
  BY <1>1, <1>2, PTL DEF Spec

LEMMA TypesFollow ==
  ASSUME SessionInv
  PROVE  CompanionTypeOK
<1>1. ASSUME NEW c \in DOMAIN issued PROVE issued[c] \in [sid : 1 .. c, user : Account \cup 1 .. c]
  <2>1. c \in 1 .. Len(issued) /\ IssuesOK(issued)
    BY <1>1, IssueTypes DEF SessionInv
  <2>2. /\ issued[c].sid \in 1 .. c
        /\ issued[c].user \in Account \cup {issued[c].sid}
        /\ issued[c] = [sid |-> issued[c].sid, user |-> issued[c].user]
    BY <2>1, IssueTypes
  <2>3. issued[c].user \in Account \cup 1 .. c
    BY <2>2
  <2> QED
    BY <2>2, <2>3
<1>2. ASSUME NEW r \in Role, Best(issued, vault[r]) > 0
      PROVE  /\ Best(issued, vault[r]) <= Len(issued)
             /\ r = "legacy" => KindOf(issued, Best(issued, vault[r])) = "anonymous"
             /\ r = "pending" => KindOf(issued, Best(issued, vault[r])) = "registered"
  <2> DEFINE b == Best(issued, vault[r])
  <2>1. IssuesOK(issued) /\ SlotOK(issued, r, vault[r])
    BY DEF SessionInv, VaultOK
  <2>2. b \in 1 .. Len(issued) /\ Fits(issued, r, b) /\ Len(issued) \in Nat
    BY <1>2, <2>1, BestOK, IssueTypes
  <2> HIDE DEF b
  <2>3. /\ b <= Len(issued)
        /\ r = "legacy" => KindOf(issued, b) = "anonymous"
        /\ r = "pending" => KindOf(issued, b) = "registered"
    BY <2>2 DEF Fits
  <2> QED
    BY <2>3 DEF b
<1> QED
  BY <1>1, <1>2 DEF CompanionTypeOK, SessionInv, IssuesOK, VaultOK

(* A slot only ever yields a credential that was issued, the preserved slot *)
(* an anonymous identity and the parked revocation a registered session.    *)
THEOREM CompanionTypes == Spec => []CompanionTypeOK
<1>1. SessionInv => CompanionTypeOK
  BY TypesFollow
<1> QED
  BY <1>1, SessionInvariant, PTL

LEMMA SessionsKept ==
  ASSUME SessionInv, Next, NEW sid \in alive'
  PROVE  \/ Held(issued, vault, sid) = {}
         \/ Held(issued', vault', sid) # {}
         \/ \E r \in Held(issued, vault, sid) : Excused(vault, r)
         \/ GivenUp
<1>1. PICK w : Healed(issued, vault, w) /\ Safe(w)
  BY NextSafe
<1> QED
  BY <1>1, HealedSafe

(* Whatever a step is cut short by, a session that lives keeps a credential *)
(* on the disk, unless the user, the server or a damaged file ended that, or*)
(* a sign-out of the same account took its place as the pending revocation. *)
THEOREM SessionsAreKept == Spec => NoSessionIsDropped
<1>1. ASSUME SessionInv, Next, NEW sid \in alive'
      PROVE  \/ Held(issued, vault, sid) = {}
             \/ Held(issued', vault', sid) # {}
             \/ \E r \in Held(issued, vault, sid) :
                   LET parked == Best(issued', vault'["pending"])
                   IN \/ vault'[r].main = Damaged
                      \/ vault[r].marker.rejected
                      \/ r = "pending" /\ parked > 0
                      \/ r = "primary" /\ parked > 0 /\ IsNewer(issued', parked, Best(issued, vault[r]))
             \/ \E p \in Process :
                   \/ DiscardPendingRevocation(p)
                   \/ \E h \in HealStorage : ForgetLegacyOwner(p, h, TRUE)
  <2>1. \/ Held(issued, vault, sid) = {}
        \/ Held(issued', vault', sid) # {}
        \/ \E r \in Held(issued, vault, sid) : Excused(vault, r)
        \/ GivenUp
    BY <1>1, SessionsKept
  <2> QED
    BY <2>1, Zenon DEF Excused, GivenUp
<1>2. SessionInv /\ [Next]_vars =>
      [\A sid \in alive' :
          \/ Held(issued, vault, sid) = {}
          \/ Held(issued', vault', sid) # {}
          \/ \E r \in Held(issued, vault, sid) :
                LET parked == Best(issued', vault'["pending"])
                IN \/ vault'[r].main = Damaged
                   \/ vault[r].marker.rejected
                   \/ r = "pending" /\ parked > 0
                   \/ r = "primary" /\ parked > 0 /\ IsNewer(issued', parked, Best(issued, vault[r]))
          \/ \E p \in Process :
                \/ DiscardPendingRevocation(p)
                \/ \E h \in HealStorage : ForgetLegacyOwner(p, h, TRUE)]_vars
  BY <1>1
<1> QED
  BY <1>2, SessionInvariant, PTL DEF Spec, NoSessionIsDropped

(* A session in memory or a half-finished write never puts an earlier token *)
(* or another identity over what a slot holds; only the preserved copy of   *)
(* the identity that the primary slot still holds may go back.              *)
THEOREM TokensAdvance == Spec => TokensNeverGoBack
<1>1. ASSUME SessionInv, Next, NEW r \in Kept, vault[r].main > 0, vault'[r].main > 0, vault[r].main # vault'[r].main
      PROVE  LET c == vault[r].main
                 d == vault'[r].main
             IN \/ UserOf(issued', c) = UserOf(issued', d) /\ (d > c \/ (r = "legacy" /\ CopyOfPrimary(c)))
                \/ UserOf(issued', c) # UserOf(issued', d) /\ d > Len(issued)
  <2> DEFINE c == vault[r].main
             d == vault'[r].main
  <2>1. PICK w : Healed(issued, vault, w) /\ Safe(w)
    BY <1>1, NextSafe
  <2>2. AdvancesIn(vault, r)
    BY <1>1, <2>1, HealedSafe
  <2>3. \/ SameUser(issued', c, d) /\ (d > c \/ (r = "legacy" /\ Twin(vault, c)))
        \/ ~ SameUser(issued', c, d) /\ d > Len(issued)
    BY <1>1, <2>2 DEF AdvancesIn
  <2>4. Twin(vault, c) => CopyOfPrimary(c)
    BY DEF Twin, CopyOfPrimary, SameUser
  <2> QED
    BY <2>3, <2>4 DEF SameUser
<1>2. SessionInv /\ [Next]_vars =>
      [\A r \in Kept :
          LET c == vault[r].main
              d == vault'[r].main
          IN c > 0 /\ d > 0 /\ c # d =>
                \/ UserOf(issued', c) = UserOf(issued', d) /\ (d > c \/ (r = "legacy" /\ CopyOfPrimary(c)))
                \/ UserOf(issued', c) # UserOf(issued', d) /\ d > Len(issued)]_vars
  BY <1>1
<1> QED
  BY <1>2, SessionInvariant, PTL DEF Spec, TokensNeverGoBack

==============================================================================
