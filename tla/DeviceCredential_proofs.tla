----------------------- MODULE DeviceCredential_proofs -----------------------
(***************************************************************************)
(* Proofs about DeviceCredential.                                          *)
(***************************************************************************)
EXTENDS DeviceCredentialInv, SequenceTheorems, WellFoundedInduction, FiniteSetTheorems, TLAPS

----------------------------------------------------------------------------
(* Sequences.                                                              *)

LEMMA MinExists ==
  ASSUME NEW T \in SUBSET Nat, T # {}
  PROVE  Min(T) \in T /\ \A i \in T : Min(T) <= i
<1> DEFINE R == OpToRel(<, Nat)
<1>1. \A x, y \in Nat : <<y, x>> \in R <=> y < x
  BY Zenon DEF OpToRel
<1>2. IsWellFoundedOn(R, Nat)
  BY Zenon, NatLessThanWellFounded
<1> HIDE DEF R
<1>3. \E x \in T : \A y \in T : ~ (<<y, x>> \in R)
  BY <1>2, WFMin
<1>4. PICK x \in T : \A y \in T : ~ (<<y, x>> \in R)
  BY <1>3
<1>5. \A y \in T : ~ (y < x)
  BY <1>1, <1>4
<1>6. \A y \in T : x <= y
  BY <1>5
<1> QED  BY <1>6 DEF Min

LEMMA InsertedAt ==
  ASSUME NEW S, NEW s \in Seq(S), NEW e \in S, NEW i \in 1 .. Len(s) + 1
  PROVE  /\ InsertAt(s, i, e) \in Seq(S)
         /\ Len(InsertAt(s, i, e)) = Len(s) + 1
         /\ InsertAt(s, i, e)[i] = e
         /\ \A j \in 1 .. i - 1 : InsertAt(s, i, e)[j] = s[j]
         /\ \A j \in i .. Len(s) : InsertAt(s, i, e)[j + 1] = s[j]
<1> DEFINE a == SubSeq(s, 1, i - 1)
           b == SubSeq(s, i, Len(s))
<1>0. Len(s) \in Nat /\ \A j \in 1 .. Len(s) : s[j] \in S  BY LenProperties
<1>1. a \in Seq(S) /\ Len(a) = i - 1 /\ \A j \in 1 .. i - 1 : a[j] = s[j]
  BY <1>0, SubSeqProperties
<1>2. b \in Seq(S) /\ Len(b) = Len(s) - i + 1 /\ \A j \in 1 .. Len(s) - i + 1 : b[j] = s[i + j - 1]
  <2>1. \A j \in i .. Len(s) : s[j] \in S  BY <1>0
  <2>2. /\ SubSeq(s,i,Len(s)) \in Seq(S)
        /\ Len(SubSeq(s,i,Len(s))) = IF i<=Len(s) THEN Len(s)-i+1 ELSE 0
        /\ \A j \in 1 .. Len(s)-i+1 : SubSeq(s,i,Len(s))[j] = s[i+j-1]
    BY <2>1, <1>0, SubSeqProperties
  <2> QED  BY <2>2, <1>0
<1>3. <<e>> \in Seq(S) /\ Len(<<e>>) = 1 /\ <<e>>[1] = e  OBVIOUS
<1> HIDE DEF a, b
<1>4. /\ a \o <<e>> \in Seq(S) /\ Len(a \o <<e>>) = i
      /\ \A j \in 1 .. i : (a \o <<e>>)[j] = IF j <= i - 1 THEN a[j] ELSE <<e>>[j - (i - 1)]
  BY <1>0, <1>1, <1>3, ConcatProperties
<1> DEFINE c == a \o <<e>>
<1> HIDE DEF c
<1>c. c \in Seq(S) /\ Len(c) = i  BY <1>4 DEF c
<1>d. /\ c \o b \in Seq(S) /\ Len(c \o b) = Len(c) + Len(b)
      /\ \A j \in 1 .. Len(c) + Len(b) : (c \o b)[j] = IF j <= Len(c) THEN c[j] ELSE b[j - Len(c)]
  BY <1>c, <1>2, ConcatProperties
<1>5. /\ c \o b \in Seq(S) /\ Len(c \o b) = Len(s) + 1
      /\ \A j \in 1 .. Len(s) + 1 : (c \o b)[j] = IF j <= i THEN c[j] ELSE b[j - i]
  BY <1>0, <1>c, <1>2, <1>d
<1>6. InsertAt(s, i, e) = c \o b  BY DEF InsertAt, a, b, c
<1>e. i \in 1 .. i /\ i - (i - 1) = 1 /\ ~ (i <= i - 1)  BY <1>0
<1>f. c[i] = <<e>>[1]  BY <1>4, <1>e DEF c
<1>7. c[i] = e /\ \A j \in 1 .. i - 1 : c[j] = s[j]
  BY <1>0, <1>1, <1>3, <1>4, <1>f DEF c
<1> DEFINE q == c \o b
<1> HIDE DEF q
<1>8. \A j \in i .. Len(s) : q[j + 1] = b[j + 1 - i]
  <2> TAKE j \in i .. Len(s)
  <2>1. j + 1 \in 1 .. Len(s) + 1 /\ ~ (j + 1 <= i)  BY <1>0
  <2> QED  BY <2>1, <1>5 DEF q
<1>9. \A j \in i .. Len(s) : b[j + 1 - i] = s[j]
  <2> TAKE j \in i .. Len(s)
  <2>1. j + 1 - i \in 1 .. Len(s) - i + 1 /\ i + (j + 1 - i) - 1 = j  BY <1>0
  <2> QED  BY <2>1, <1>2
<1>10. q[i] = e /\ \A j \in 1 .. i - 1 : q[j] = s[j]  BY <1>0, <1>5, <1>7 DEF q
<1> QED  BY <1>5, <1>6, <1>8, <1>9, <1>10 DEF q

----------------------------------------------------------------------------
(* The credential on disk.                                                 *)

Readable(t) == {i \in DOMAIN t : t[i] > 0}
FirstOf(t) == IF Readable(t) = {} THEN NoSecret ELSE t[Min(Readable(t))]

LEMMA Contents ==
  ASSUME NEW n \in Nat
  PROVE  /\ Content(n) \subseteq Int
         /\ \A x \in Content(n) : x > 0 => x \in 1 .. n
         /\ 1 .. n \subseteq Content(n) /\ Damaged \in Content(n) /\ Missing \in Content(n)
BY DEF Content, Missing, Damaged

LEMMA SeqDomain ==
  ASSUME NEW S, NEW t \in Seq(S)
  PROVE  Len(t) \in Nat /\ DOMAIN t = 1 .. Len(t) /\ \A i \in 1 .. Len(t) : t[i] \in S
BY LenProperties

(* The first readable file is the one no readable file comes before.        *)
IsFirst(t, v) ==
  \/ v = NoSecret /\ \A i \in 1 .. Len(t) : ~ (t[i] > 0)
  \/ \E i \in 1 .. Len(t) : t[i] = v /\ v > 0 /\ \A j \in 1 .. i - 1 : ~ (t[j] > 0)

LEMMA FirstIsFirst ==
  ASSUME NEW n \in Nat, NEW t \in Seq(Content(n))
  PROVE  IsFirst(t, FirstOf(t))
<1>1. Len(t) \in Nat /\ DOMAIN t = 1 .. Len(t)  BY SeqDomain
<1>2. CASE Readable(t) = {}
  <2>1. FirstOf(t) = NoSecret  BY <1>2 DEF FirstOf
  <2>2. \A i \in 1 .. Len(t) : ~ (t[i] > 0)  BY <1>1, <1>2 DEF Readable
  <2> QED  BY <2>1, <2>2 DEF IsFirst
<1>3. CASE Readable(t) # {}
  <2>1. Readable(t) \in SUBSET Nat  BY <1>1 DEF Readable
  <2>2. PICK m : m = Min(Readable(t))  OBVIOUS
  <2>3. m \in Readable(t) /\ \A i \in Readable(t) : m <= i  BY <2>1, <2>2, <1>3, MinExists
  <2>4. FirstOf(t) = t[m]  BY <1>3, <2>2 DEF FirstOf
  <2>5. m \in 1 .. Len(t) /\ t[m] > 0  BY <2>3, <1>1 DEF Readable
  <2>6. \A j \in 1 .. m - 1 : ~ (t[j] > 0)
    <3> SUFFICES ASSUME NEW j \in 1 .. m - 1, t[j] > 0 PROVE FALSE  OBVIOUS
    <3>1. j \in 1 .. Len(t)  BY <2>5, <1>1
    <3>2. j \in Readable(t)  BY <3>1, <1>1 DEF Readable
    <3> QED  BY <3>2, <2>3, <2>5
  <2> QED  BY <2>4, <2>5, <2>6 DEF IsFirst
<1> QED  BY <1>2, <1>3

LEMMA FirstIsUnique ==
  ASSUME NEW n \in Nat, NEW t \in Seq(Content(n)), NEW v, NEW w, IsFirst(t, v), IsFirst(t, w)
  PROVE  v = w
<1>1. Len(t) \in Nat  BY SeqDomain
<1>2. CASE v = NoSecret /\ \A i \in 1 .. Len(t) : ~ (t[i] > 0)
  BY <1>2 DEF IsFirst
<1>3. CASE \E i \in 1 .. Len(t) : t[i] = v /\ v > 0 /\ \A j \in 1 .. i - 1 : ~ (t[j] > 0)
  <2>1. PICK i \in 1 .. Len(t) : t[i] = v /\ v > 0 /\ \A j \in 1 .. i - 1 : ~ (t[j] > 0)  BY <1>3
  <2>2. PICK k \in 1 .. Len(t) : t[k] = w /\ w > 0 /\ \A j \in 1 .. k - 1 : ~ (t[j] > 0)
    BY <2>1 DEF IsFirst
  <2>3. ~ (i < k)  BY <2>1, <2>2, <1>1
  <2>4. ~ (k < i)  BY <2>1, <2>2, <1>1
  <2>5. i = k  BY <2>3, <2>4, <1>1
  <2> QED  BY <2>1, <2>2, <2>5
<1> QED  BY <1>2, <1>3 DEF IsFirst

(* A temporary file more, wherever its name puts it, is read first or not.  *)
LEMMA FirstOfInserted ==
  ASSUME NEW n \in Nat, NEW t \in Seq(Content(n)), NEW x \in Content(n), NEW i \in 1 .. Len(t) + 1
  PROVE  /\ InsertAt(t, i, x) \in Seq(Content(n))
         /\ FirstOf(InsertAt(t, i, x)) \in {FirstOf(t), x}
         /\ ~ (x > 0) => FirstOf(InsertAt(t, i, x)) = FirstOf(t)
<1>1. PICK u : u = InsertAt(t, i, x)  OBVIOUS
<1>2. Len(t) \in Nat /\ i \in Nat  BY SeqDomain
<1>3. /\ u \in Seq(Content(n)) /\ Len(u) = Len(t) + 1 /\ u[i] = x
      /\ \A j \in 1 .. i - 1 : u[j] = t[j]
      /\ \A j \in i .. Len(t) : u[j + 1] = t[j]
  BY <1>1, InsertedAt
<1>4. PICK v : v = FirstOf(t)  OBVIOUS
<1>5. IsFirst(t, v)  BY <1>4, FirstIsFirst
<1>6. \E w \in {v, x} : IsFirst(u, w) /\ (~ (x > 0) => w = v)
  <2>1. CASE v = NoSecret /\ \A k \in 1 .. Len(t) : ~ (t[k] > 0)
    <3>1. \A k \in 1 .. Len(u) : k # i => ~ (u[k] > 0)
      <4> SUFFICES ASSUME NEW k \in 1 .. Len(u), k # i PROVE ~ (u[k] > 0)  OBVIOUS
      <4>1. CASE k < i  BY <4>1, <2>1, <1>2, <1>3
      <4>2. CASE k > i
        <5>1. PICK j \in i .. Len(t) : k = j + 1
          <6>1. k - 1 \in i .. Len(t) /\ k = (k - 1) + 1  BY <4>2, <1>2, <1>3
          <6> QED  BY <6>1
        <5> QED  BY <5>1, <2>1, <1>2, <1>3
      <4> QED  BY <4>1, <4>2, <1>2, <1>3
    <3>2. CASE x > 0
      <4>1. IsFirst(u, x)
        <5>1. i \in 1 .. Len(u) /\ \A j \in 1 .. i - 1 : ~ (u[j] > 0)  BY <3>1, <1>2, <1>3
        <5> QED  BY <5>1, <3>2, <1>3 DEF IsFirst
      <4> QED  BY <4>1, <3>2
    <3>3. CASE ~ (x > 0)
      <4>1. \A k \in 1 .. Len(u) : ~ (u[k] > 0)  BY <3>1, <3>3, <1>3
      <4> QED  BY <4>1, <2>1 DEF IsFirst
    <3> QED  BY <3>2, <3>3
  <2>2. CASE \E k \in 1 .. Len(t) : t[k] = v /\ v > 0 /\ \A j \in 1 .. k - 1 : ~ (t[j] > 0)
    <3>1. PICK k \in 1 .. Len(t) : t[k] = v /\ v > 0 /\ \A j \in 1 .. k - 1 : ~ (t[j] > 0)  BY <2>2
    <3>2. CASE k < i
      <4>1. k \in 1 .. Len(u) /\ u[k] = v  BY <3>1, <3>2, <1>2, <1>3
      <4>2. \A j \in 1 .. k - 1 : ~ (u[j] > 0)  BY <3>1, <3>2, <1>2, <1>3
      <4>3. IsFirst(u, v)  BY <4>1, <4>2, <3>1 DEF IsFirst
      <4> QED  BY <4>3
    <3>3. CASE ~ (k < i) /\ x > 0
      <4>1. i \in 1 .. Len(u)  BY <1>2, <1>3
      <4>2. \A j \in 1 .. i - 1 : ~ (u[j] > 0)  BY <3>1, <3>3, <1>2, <1>3
      <4>3. IsFirst(u, x)  BY <4>1, <4>2, <3>3, <1>3 DEF IsFirst
      <4> QED  BY <4>3, <3>3
    <3>4. CASE ~ (k < i) /\ ~ (x > 0)
      <4>1. k + 1 \in 1 .. Len(u) /\ u[k + 1] = v  BY <3>1, <3>4, <1>2, <1>3
      <4>2. \A j \in 1 .. k : ~ (u[j] > 0)
        <5> SUFFICES ASSUME NEW j \in 1 .. k PROVE ~ (u[j] > 0)  OBVIOUS
        <5>1. CASE j < i  BY <5>1, <3>1, <3>4, <1>2, <1>3
        <5>2. CASE j = i  BY <5>2, <3>4, <1>3
        <5>3. CASE j > i
          <6>1. PICK m \in i .. Len(t) : j = m + 1
            <7>1. j - 1 \in i .. Len(t) /\ j = (j - 1) + 1  BY <5>3, <1>2, <3>1
            <7> QED  BY <7>1
          <6>2. u[j] = t[m] /\ m \in 1 .. k - 1  BY <6>1, <1>2, <1>3, <3>1
          <6> QED  BY <6>2, <3>1
        <5> QED  BY <5>1, <5>2, <5>3, <1>2, <3>1
      <4>3. PICK m \in 1 .. Len(u) : m = k + 1  BY <4>1
      <4>4. \A j \in 1 .. m - 1 : ~ (u[j] > 0)  BY <4>2, <4>3, <3>1
      <4>5. IsFirst(u, v)  BY <4>1, <4>3, <4>4, <3>1 DEF IsFirst
      <4> QED  BY <4>5
    <3> QED  BY <3>2, <3>3, <3>4, <1>2
  <2> QED  BY <2>1, <2>2, <1>5 DEF IsFirst
<1>7. PICK w \in {v, x} : IsFirst(u, w) /\ (~ (x > 0) => w = v)  BY <1>6
<1>8. IsFirst(u, FirstOf(u))  BY <1>3, FirstIsFirst
<1>9. FirstOf(u) = w  BY <1>3, <1>7, <1>8, FirstIsUnique
<1> QED  BY <1>1, <1>3, <1>4, <1>7, <1>9

LEMMA StoreFields ==
  ASSUME NEW n \in Nat, NEW s \in Stores(n)
  PROVE  /\ s.main \in Content(n) /\ s.bak \in Content(n) /\ s.tmp \in Seq(Content(n))
         /\ s.marker \in BOOLEAN
         /\ s = [main |-> s.main, bak |-> s.bak, tmp |-> s.tmp, marker |-> s.marker]
BY DEF Stores

LEMMA StoreMember ==
  ASSUME NEW n \in Nat, NEW a \in Content(n), NEW b \in Content(n), NEW t \in Seq(Content(n)),
         NEW k \in BOOLEAN
  PROVE  [main |-> a, bak |-> b, tmp |-> t, marker |-> k] \in Stores(n)
BY DEF Stores

LEMMA FirstOfType ==
  ASSUME NEW n \in Nat, NEW t \in Seq(Content(n))
  PROVE  FirstOf(t) \in 0 .. n
<1>1. IsFirst(t, FirstOf(t))  BY FirstIsFirst
<1>2. \A i \in 1 .. Len(t) : t[i] \in Content(n)  BY SeqDomain
<1>3. CASE FirstOf(t) = NoSecret  BY <1>3 DEF NoSecret
<1>4. CASE FirstOf(t) > 0 /\ FirstOf(t) \in Content(n)  BY <1>4, Contents
<1> QED  BY <1>1, <1>2, <1>3, <1>4 DEF IsFirst

SecretOf(s) == IF s.main > 0 THEN s.main ELSE IF s.bak > 0 THEN s.bak ELSE FirstOf(s.tmp)

(* What Read returns: a secret, or that there is none or none to be read.   *)
LEMMA ReadIs ==
  ASSUME NEW n \in Nat, NEW s \in Stores(n)
  PROVE  /\ Read(s).secret = SecretOf(s)
         /\ Read(s).secret \in 0 .. n
         /\ Read(s).status \in {"ok", "missing", "unreadable"}
         /\ Read(s).status = "ok" <=> Read(s).secret # NoSecret
<1>1. /\ s.main \in Content(n) /\ s.bak \in Content(n) /\ s.tmp \in Seq(Content(n))  BY StoreFields
<1>2. FirstOf(s.tmp) \in 0 .. n  BY <1>1, FirstOfType
<1>3. IsFirst(s.tmp, FirstOf(s.tmp))  BY <1>1, FirstIsFirst
<1>4. CASE s.main > 0
  <2>1. Read(s) = ReadOf("ok", s.main, FALSE)  BY <1>4 DEF Read
  <2> QED  BY <2>1, <1>1, <1>4, Contents DEF ReadOf, SecretOf, NoSecret
<1>5. CASE ~ (s.main > 0) /\ s.bak > 0
  <2>1. Read(s) = ReadOf("ok", s.bak, TRUE)  BY <1>5 DEF Read
  <2> QED  BY <2>1, <1>1, <1>5, Contents DEF ReadOf, SecretOf, NoSecret
<1>6. CASE ~ (s.main > 0) /\ ~ (s.bak > 0) /\ Readable(s.tmp) # {}
  <2>1. FirstOf(s.tmp) = s.tmp[Min(Readable(s.tmp))]  BY <1>6 DEF FirstOf
  <2>2. Read(s) = ReadOf("ok", FirstOf(s.tmp), TRUE)  BY <1>6, <2>1 DEF Read, Readable
  <2>3. FirstOf(s.tmp) > 0
    <3>1. ~ (\A i \in 1 .. Len(s.tmp) : ~ (s.tmp[i] > 0))  BY <1>1, <1>6, SeqDomain DEF Readable
    <3> QED  BY <3>1, <1>3 DEF IsFirst
  <2> QED  BY <2>2, <2>3, <1>2, <1>6 DEF ReadOf, SecretOf, NoSecret
<1>7. CASE ~ (s.main > 0) /\ ~ (s.bak > 0) /\ Readable(s.tmp) = {}
  <2>1. FirstOf(s.tmp) = NoSecret  BY <1>7 DEF FirstOf
  <2>2. Read(s) = ReadOf("missing", NoSecret, FALSE) \/ Read(s) = ReadOf("unreadable", NoSecret, FALSE)
    BY <1>7 DEF Read, Readable
  <2>3. SecretOf(s) = NoSecret  BY <2>1, <1>7 DEF SecretOf
  <2> QED  BY <2>2, <2>3 DEF ReadOf, NoSecret
<1> QED  BY <1>4, <1>5, <1>6, <1>7

Disks(n) == [store : Stores(n), how : {"ok", "failed", "died"}, left : 0 .. MaxFaults]

LEMMA DiskFields ==
  ASSUME NEW n \in Nat, NEW d \in Disks(n)
  PROVE  /\ d.store \in Stores(n) /\ d.how \in {"ok", "failed", "died"} /\ d.left \in 0 .. MaxFaults
         /\ d = [store |-> d.store, how |-> d.how, left |-> d.left]
BY DEF Disks

(* The states a write passes: nothing done, a temporary file more, or the    *)
(* new main file.                                                          *)
Writing(n, s, c, w) ==
  /\ w \in Stores(n)
  /\ \/ w = s
     \/ /\ w.main = s.main /\ w.bak = s.bak
        /\ \E x \in {c, Damaged}, i \in 1 .. Len(s.tmp) + 1 : w.tmp = InsertAt(s.tmp, i, x)
     \/ w.main = c

LEMMA WritingReads ==
  ASSUME NEW n \in Nat, NEW s \in Stores(n), NEW c \in 1 .. n, NEW w, Writing(n, s, c, w)
  PROVE  /\ w \in Stores(n)
         /\ Read(w).secret \in {Read(s).secret, c}
         /\ w.main = c => Read(w).secret = c
<1>1. /\ s.main \in Content(n) /\ s.bak \in Content(n) /\ s.tmp \in Seq(Content(n))
  BY StoreFields
<1>2. c \in Content(n) /\ Damaged \in Content(n) /\ c > 0 /\ ~ (Damaged > 0)
  BY Contents DEF Damaged
<1>3. Read(s).secret = SecretOf(s)  BY ReadIs
<1>4. w \in Stores(n)  BY DEF Writing
<1>5. Read(w).secret = SecretOf(w)  BY <1>4, ReadIs
<1>6. w.main = c => SecretOf(w) = c  BY <1>2 DEF SecretOf
<1>7. SecretOf(w) \in {SecretOf(s), c}
  <2>1. CASE w = s  BY <2>1
  <2>2. CASE w.main = c  BY <2>2, <1>6
  <2>3. ASSUME w.main = s.main, w.bak = s.bak,
               NEW x \in {c, Damaged}, NEW i \in 1 .. Len(s.tmp) + 1, w.tmp = InsertAt(s.tmp, i, x)
        PROVE  SecretOf(w) \in {SecretOf(s), c}
    <3>1. x \in Content(n)  BY <1>2
    <3>2. FirstOf(w.tmp) \in {FirstOf(s.tmp), x} /\ (~ (x > 0) => FirstOf(w.tmp) = FirstOf(s.tmp))
      BY <2>3, <3>1, <1>1, FirstOfInserted
    <3>3. FirstOf(w.tmp) \in {FirstOf(s.tmp), c}  BY <3>2, <1>2
    <3> QED  BY <2>3, <3>3 DEF SecretOf
  <2> QED  BY <2>1, <2>2, <2>3 DEF Writing
<1> QED  BY <1>3, <1>4, <1>5, <1>6, <1>7

(* Wherever it is cut short, a write leaves the secret that was read before  *)
(* or the one it writes, and one that ends well leaves the latter.         *)
LEMMA Writes ==
  ASSUME NEW n \in Nat, NEW d \in Disks(n), d.how = "ok", NEW c \in 1 .. n, NEW w \in Write(d, c)
  PROVE  /\ w \in Disks(n)
         /\ Read(w.store).secret \in {Read(d.store).secret, c}
         /\ w.how = "ok" => Read(w.store).secret = c
<1> DEFINE s == d.store
           temp(x) == {[s EXCEPT !.tmp = InsertAt(@, i, x)] : i \in 1 .. Len(s.tmp) + 1}
           blob == [s EXCEPT !.main = c, !.bak = IF s.main = Missing THEN @ ELSE s.main]
           both == [blob EXCEPT !.marker = TRUE]
           done == [both EXCEPT !.tmp = << >>]
           cut(x, how) == [store |-> x, how |-> how, left |-> d.left - 1]
<1>1. s \in Stores(n) /\ d.left \in 0 .. MaxFaults  BY DiskFields
<1>2. s.tmp \in Seq(Content(n)) /\ << >> \in Seq(Content(n))  BY <1>1, StoreFields, EmptySeq
<1>3. c \in Content(n) /\ Damaged \in Content(n)  BY Contents
<1>4. blob \in Stores(n) /\ blob.main = c  BY <1>1, <1>3 DEF Stores
<1>5. both \in Stores(n) /\ both.main = c  BY <1>4 DEF Stores
<1>6. done \in Stores(n) /\ done.main = c  BY <1>5, <1>2 DEF Stores
<1>7. \A x \in {c, Damaged} : \A u \in temp(x) : Writing(n, s, c, u)
  <2> SUFFICES ASSUME NEW x \in {c, Damaged}, NEW i \in 1 .. Len(s.tmp) + 1
               PROVE  Writing(n, s, c, [s EXCEPT !.tmp = InsertAt(@, i, x)])
    OBVIOUS
  <2>1. PICK t : t = InsertAt(s.tmp, i, x)  OBVIOUS
  <2>2. t \in Seq(Content(n))  BY <2>1, <1>2, <1>3, FirstOfInserted
  <2>3. [s EXCEPT !.tmp = t] \in Stores(n)  BY <1>1, <2>2 DEF Stores
  <2>4. /\ [s EXCEPT !.tmp = t].main = s.main /\ [s EXCEPT !.tmp = t].bak = s.bak
        /\ [s EXCEPT !.tmp = t].tmp = t
    BY <1>1, <2>2 DEF Stores
  <2> QED  BY <2>1, <2>3, <2>4 DEF Writing
<1> HIDE DEF blob, both, done, temp
<1>8. Writing(n, s, c, s) /\ Writing(n, s, c, blob) /\ Writing(n, s, c, both) /\ Writing(n, s, c, done)
  BY <1>1, <1>4, <1>5, <1>6 DEF Writing
<1>9. w \in {[d EXCEPT !.store = done]}
       \cup (IF d.left = 0 THEN {}
             ELSE {cut(both, "ok")}
                  \cup {cut(x, "failed") : x \in {s, blob} \cup temp(c)}
                  \cup {cut(x, "died") : x \in {s, blob, both} \cup temp(c) \cup temp(Damaged)})
  BY DEF Write, blob, both, done, temp
<1>10. /\ w \in Disks(n) /\ Writing(n, s, c, w.store)
       /\ w.how = "ok" => w.store.main = c
  <2>1. CASE w \in {[d EXCEPT !.store = done]}
    BY <2>1, <1>6, <1>8 DEF Disks
  <2>2. CASE d.left # 0 /\ w \notin {[d EXCEPT !.store = done]}
    <3>1. d.left - 1 \in 0 .. MaxFaults  BY <2>2, <1>1, DeviceAssumption
    <3>2. \A x, how : /\ Writing(n, s, c, x) /\ how \in {"ok", "failed", "died"}
                      => cut(x, how) \in Disks(n) /\ cut(x, how).store = x /\ cut(x, how).how = how
      BY <3>1 DEF Disks, Writing
    <3> HIDE DEF cut
    <3>3. CASE w = cut(both, "ok")  BY <3>2, <3>3, <1>5, <1>8
    <3>4. CASE \E x \in {s, blob} \cup temp(c) : w = cut(x, "failed")
      BY <3>2, <3>4, <1>7, <1>8
    <3>5. CASE \E x \in {s, blob, both} \cup temp(c) \cup temp(Damaged) : w = cut(x, "died")
      BY <3>2, <3>5, <1>7, <1>8
    <3> QED  BY <2>2, <3>3, <3>4, <3>5, <1>9
  <2> QED  BY <2>1, <2>2, <1>9
<1> QED  BY <1>1, <1>10, WritingReads

----------------------------------------------------------------------------
(* The device's row.                                                       *)

RowOf(b, c) == b.device[b.made[c]]

LEMMA DatabaseFields ==
  ASSUME NEW b, DatabaseFits(b)
  PROVE  /\ b.device \in Seq(Row) /\ b.made \in Seq(Nat) /\ b.ticket \in [Ticket -> TicketState]
         /\ Len(b.made) \in Nat /\ Len(b.device) \in Nat
         /\ DOMAIN b.made = 1 .. Len(b.made) /\ DOMAIN b.device = 1 .. Len(b.device)
         /\ \A d \in DOMAIN b.device : b.device[d] \in Row
         /\ \A c \in DOMAIN b.made : b.made[c] \in DOMAIN b.device /\ RowOf(b, c) \in Row
<1>1. b.device \in Seq(Row) /\ b.made \in Seq(Nat) /\ b.ticket \in [Ticket -> TicketState]
  BY DEF DatabaseFits, Database
<1>2. /\ Len(b.device) \in Nat /\ DOMAIN b.device = 1 .. Len(b.device)
      /\ \A d \in 1 .. Len(b.device) : b.device[d] \in Row
  BY <1>1, SeqDomain
<1>3. Len(b.made) \in Nat /\ DOMAIN b.made = 1 .. Len(b.made)  BY <1>1, SeqDomain
<1> QED  BY <1>1, <1>2, <1>3 DEF DatabaseFits, RowOf

LEMMA RowFields ==
  ASSUME NEW row \in Row
  PROVE  /\ row.status \in {"active", "revoked"} /\ row.reason \in Reason /\ row.ticket \in Ticket
         /\ row.current \in Nat /\ row.next \in Nat /\ row.retired \in Nat
         /\ row.grace \in BOOLEAN /\ row.due \in BOOLEAN
BY DEF Row

(* The secrets of a row, in their order.                                    *)
Ordered(row) == /\ row.retired < row.current
                /\ row.next # NoSecret => row.current < row.next

LEMMA FittingRow ==
  ASSUME NEW b, DatabaseFits(b), NEW d \in DOMAIN b.device
  PROVE  /\ b.device[d] \in Row /\ Ordered(b.device[d])
         /\ b.device[d].current \in DOMAIN b.made /\ b.made[b.device[d].current] = d
         /\ b.device[d].next # NoSecret =>
              b.device[d].next \in DOMAIN b.made /\ b.made[b.device[d].next] = d
         /\ b.device[d].retired # NoSecret =>
              b.device[d].retired \in DOMAIN b.made /\ b.made[b.device[d].retired] = d
<1>1. RowFits(b, d) /\ b.device[d] \in Row  BY DatabaseFields DEF DatabaseFits
<1> QED  BY <1>1 DEF RowFits, Ordered

(* What a call may do to the row of its secret c: nothing, promote it, or    *)
(* revoke the device for it.                                               *)
MovesTo(row, c, to) ==
  \/ to = row
  \/ Active(row) /\ row.next = c /\ c # NoSecret /\ to = Promoted(row)
  \/ Active(row) /\ row.retired = c /\ ~row.grace /\ to = Revoked(row, "credential_reuse")

LEMMA PromotedRow ==
  ASSUME NEW row \in Row, Ordered(row), row.next # NoSecret
  PROVE  /\ Promoted(row) \in Row /\ Ordered(Promoted(row))
         /\ Promoted(row).status = row.status /\ Promoted(row).reason = row.reason
         /\ Promoted(row).retired = row.current /\ Promoted(row).current = row.next
         /\ Promoted(row).next = NoSecret /\ Promoted(row).grace = TRUE
BY DEF Promoted, Ordered, Row, NoSecret

LEMMA RevokedRow ==
  ASSUME NEW row \in Row, NEW why \in Reason
  PROVE  /\ Revoked(row, why) \in Row /\ (Ordered(row) => Ordered(Revoked(row, why)))
         /\ Revoked(row, why).status = "revoked" /\ Revoked(row, why).reason = why
         /\ Revoked(row, why).retired = row.retired /\ Revoked(row, why).current = row.current
         /\ Revoked(row, why).next = row.next /\ Revoked(row, why).grace = row.grace
BY DEF Revoked, Row, Ordered

LEMMA Moved ==
  ASSUME NEW row \in Row, Ordered(row), NEW c \in Nat \ {0}, NEW to, MovesTo(row, c, to)
  PROVE  /\ to \in Row /\ Ordered(to)
         /\ {to.current, to.next, to.retired} \subseteq {row.current, row.next, row.retired, NoSecret}
         /\ to.current \in {row.current, row.next} \ {NoSecret}
         /\ Active(to) => Active(row)
<1>1. row.current # NoSecret  BY RowFields DEF Ordered, NoSecret
<1>2. CASE to = row  BY <1>1, <1>2
<1>3. CASE Active(row) /\ row.next = c /\ c # NoSecret /\ to = Promoted(row)
  BY <1>3, PromotedRow
<1>4. CASE Active(row) /\ row.retired = c /\ ~row.grace /\ to = Revoked(row, "credential_reuse")
  <2>1. "credential_reuse" \in Reason  BY DEF Reason
  <2>2. to \in Row /\ Ordered(to) /\ to.retired = row.retired /\ to.current = row.current
        /\ to.next = row.next
    BY <1>4, <2>1, RevokedRow
  <2> QED  BY <2>2, <1>1, <1>4
<1> QED  BY <1>2, <1>3, <1>4 DEF MovesTo

(* fdb_device_authorize: a secret that is let through is the current one     *)
(* afterwards.                                                             *)
LEMMA Authorizing ==
  ASSUME NEW row \in Row, Ordered(row), NEW c \in Nat \ {0}, NEW standing \in Standing
  PROVE  /\ MovesTo(row, c, Authorize(row, c, standing).row)
         /\ Authorize(row, c, standing).reason \in {"ok", "unknown", "revoked", "stale"} \cup Conflicts
         /\ Authorize(row, c, standing).reason = "ok" =>
              /\ Active(Authorize(row, c, standing).row)
              /\ Authorize(row, c, standing).row.current = c
<1> DEFINE m == Match(row, c)
<1>1. m \in {"none", "current", "next", "retired"}  BY DEF Match
<1>2. /\ m = "current" => row.current = c
      /\ m = "next" => row.next = c
      /\ m = "retired" => row.retired = c
  BY DEF Match
<1> HIDE DEF m
<1>3. standing \in {"ok"} \cup Conflicts  BY DEF Standing
<1>4. Authorize(row, c, standing) =
        IF m = "none" THEN Judged(row, "unknown")
        ELSE IF ~Active(row) THEN Judged(row, "revoked")
        ELSE IF m = "retired" /\ row.grace THEN Judged(row, "stale")
        ELSE IF m = "retired" THEN Judged(Revoked(row, "credential_reuse"), "revoked")
        ELSE Judged(IF m = "next" THEN Promoted(row) ELSE row, standing)
  BY DEF Authorize, m
<1>5. \A x, reason : Judged(x, reason).row = x /\ Judged(x, reason).reason = reason
  BY DEF Judged
<1>6. MovesTo(row, c, row)  BY DEF MovesTo
<1>7. PICK a : a = Authorize(row, c, standing)  OBVIOUS
<1>8. CASE m = "none"  BY <1>4, <1>5, <1>6, <1>8
<1>9. CASE m # "none" /\ ~Active(row)  BY <1>4, <1>5, <1>6, <1>9
<1>10. CASE m = "retired" /\ Active(row) /\ row.grace  BY <1>4, <1>5, <1>6, <1>10
<1>11. CASE m = "retired" /\ Active(row) /\ ~row.grace
  <2>1. Authorize(row, c, standing) = Judged(Revoked(row, "credential_reuse"), "revoked")
    BY <1>4, <1>11
  <2>2. MovesTo(row, c, Revoked(row, "credential_reuse"))  BY <1>2, <1>11 DEF MovesTo
  <2> QED  BY <2>1, <2>2, <1>5
<1>12. CASE m = "next" /\ Active(row)
  <2>1. Authorize(row, c, standing) = Judged(Promoted(row), standing)  BY <1>4, <1>12
  <2>2. MovesTo(row, c, Promoted(row))  BY <1>2, <1>12 DEF MovesTo, NoSecret
  <2>3. row.next # NoSecret  BY <1>2, <1>12 DEF NoSecret
  <2>4. Active(Promoted(row)) /\ Promoted(row).current = c
    BY <2>3, <1>2, <1>12, PromotedRow DEF Active
  <2> QED  BY <2>1, <2>2, <2>4, <1>3, <1>5
<1>13. CASE m = "current" /\ Active(row)
  <2>1. Authorize(row, c, standing) = Judged(row, standing)  BY <1>4, <1>13
  <2> QED  BY <2>1, <1>2, <1>3, <1>5, <1>6, <1>13
<1> QED  BY <1>1, <1>8, <1>9, <1>10, <1>11, <1>12, <1>13

----------------------------------------------------------------------------
(* The database along a step.                                              *)

LEMMA SetDevices ==
  ASSUME NEW b \in Database, NEW t \in Seq(Row)
  PROVE  /\ [b EXCEPT !.device = t] \in Database
         /\ [b EXCEPT !.device = t].device = t
         /\ [b EXCEPT !.device = t].made = b.made
         /\ [b EXCEPT !.device = t].ticket = b.ticket
BY DEF Database

LEMMA SetRow ==
  ASSUME NEW b, DatabaseFits(b), NEW d \in DOMAIN b.device, NEW to \in Row
  PROVE  /\ [b EXCEPT !.device[d] = to] \in Database
         /\ [b EXCEPT !.device[d] = to].device = [b.device EXCEPT ![d] = to]
         /\ [b EXCEPT !.device[d] = to].made = b.made
         /\ [b EXCEPT !.device[d] = to].ticket = b.ticket
<1>1. b \in Database /\ b.device \in Seq(Row) /\ DOMAIN b.device = 1 .. Len(b.device)
  BY DatabaseFields DEF DatabaseFits
<1>2. PICK t : t = [b.device EXCEPT ![d] = to]  OBVIOUS
<1>3. t \in Seq(Row)  BY <1>1, <1>2, ExceptSeq
<1>4. [b EXCEPT !.device[d] = to] = [b EXCEPT !.device = t]  BY <1>2
<1> QED  BY <1>1, <1>2, <1>3, <1>4, SetDevices

(* Nothing that was issued goes, and no device comes back to life.          *)
Evolves(b, c) ==
  /\ Len(b.made) <= Len(c.made)
  /\ \A x \in DOMAIN b.made : x \in DOMAIN c.made /\ c.made[x] = b.made[x]
  /\ \A d \in DOMAIN b.device :
        d \in DOMAIN c.device /\ (Active(c.device[d]) => Active(b.device[d]))

LEMMA EvolvesToItself ==
  ASSUME NEW b, DatabaseFits(b), NEW c, c.device = b.device, c.made = b.made
  PROVE  Evolves(b, c)
BY DatabaseFields DEF Evolves

(* One row changes, and keeps the secrets it may have.                      *)
OneRow(b, c, d, to) ==
  /\ c \in Database
  /\ c.device = [b.device EXCEPT ![d] = to]
  /\ c.made = b.made

Inherits(to, row) ==
  /\ to \in Row /\ Ordered(to)
  /\ {to.current, to.next, to.retired} \subseteq {row.current, row.next, row.retired, NoSecret}
  /\ to.current \in {row.current, row.next} \ {NoSecret}
  /\ Active(to) => Active(row)

LEMMA OneRowFits ==
  ASSUME NEW b, DatabaseFits(b), NEW d \in DOMAIN b.device, NEW to,
         Inherits(to, b.device[d]), NEW c, OneRow(b, c, d, to)
  PROVE  DatabaseFits(c) /\ Evolves(b, c)
<1>1. /\ b.device \in Seq(Row) /\ DOMAIN b.device = 1 .. Len(b.device) /\ Len(b.device) \in Nat
      /\ DOMAIN b.made = 1 .. Len(b.made) /\ Len(b.made) \in Nat
      /\ \A x \in DOMAIN b.made : b.made[x] \in DOMAIN b.device
  BY DatabaseFields
<1>2. /\ DOMAIN c.device = DOMAIN b.device
      /\ c.device[d] = to
      /\ \A e \in DOMAIN b.device : e # d => c.device[e] = b.device[e]
      /\ c.made = b.made
  BY <1>1 DEF OneRow
<1>3. \A e \in DOMAIN c.device : RowFits(c, e)
  <2> SUFFICES ASSUME NEW e \in DOMAIN b.device PROVE RowFits(c, e)  BY <1>2
  <2>1. RowFits(b, e)  BY DEF DatabaseFits
  <2>2. CASE e # d  BY <2>1, <2>2, <1>2 DEF RowFits
  <2>3. CASE e = d
    <3>1. PICK row : row = b.device[d]  OBVIOUS
    <3>2. PICK own : own = {x \in DOMAIN b.made : b.made[x] = d}  OBVIOUS
    <3>3. row.current \in own /\ {row.next, row.retired} \subseteq own \cup {NoSecret}
      BY <2>1, <2>3, <3>1, <3>2 DEF RowFits
    <3>4. /\ Ordered(to)
          /\ {to.current, to.next, to.retired} \subseteq {row.current, row.next, row.retired, NoSecret}
          /\ to.current \in {row.current, row.next} \ {NoSecret}
      BY <3>1 DEF Inherits
    <3>5. to.current \in own /\ {to.next, to.retired} \subseteq own \cup {NoSecret}
      BY <3>3, <3>4
    <3>6. own = {x \in DOMAIN c.made : c.made[x] = e}  BY <3>2, <2>3, <1>2
    <3> QED  BY <3>4, <3>5, <3>6, <2>3, <1>2 DEF RowFits, Ordered
  <2> QED  BY <2>2, <2>3
<1>4. \A e \in DOMAIN b.device : Active(c.device[e]) => Active(b.device[e])
  BY <1>2 DEF Inherits
<1>5. \A e, f \in LiveDevices(c) : e = f
  BY <1>2, <1>4 DEF LiveDevices, DatabaseFits
<1>6. Evolves(b, c)  BY <1>1, <1>2, <1>4 DEF Evolves
<1>7. c \in Database /\ Len(c.made) <= MaxSecrets /\ \A x \in DOMAIN c.made : c.made[x] \in DOMAIN c.device
  BY <1>1, <1>2 DEF OneRow, DatabaseFits
<1> QED  BY <1>3, <1>5, <1>6, <1>7 DEF DatabaseFits

(* Appending to the issued secrets.                                         *)
LEMMA OneMore ==
  ASSUME NEW S, NEW t \in Seq(S), NEW e \in S
  PROVE  /\ Append(t, e) \in Seq(S) /\ Len(Append(t, e)) = Len(t) + 1
         /\ DOMAIN Append(t, e) = 1 .. Len(t) + 1
         /\ DOMAIN t = 1 .. Len(t) /\ Len(t) \in Nat
         /\ Append(t, e)[Len(t) + 1] = e
         /\ \A i \in 1 .. Len(t) : Append(t, e)[i] = t[i]
BY AppendProperties, LenProperties

(* The rotation of secret x, which the row takes as its current one: g waits *)
(* next to it.                                                             *)
Rotates(b, c, x, g) ==
  /\ g = Len(b.made) + 1 /\ g <= MaxSecrets
  /\ c \in Database
  /\ c.made = Append(b.made, b.made[x])
  /\ \E to : /\ MovesTo(RowOf(b, x), x, to) /\ Active(to) /\ to.current = x
             /\ c.device = [b.device EXCEPT ![b.made[x]] = [to EXCEPT !.next = g]]

LEMMA NextSet ==
  ASSUME NEW row \in Row, Ordered(row), NEW g \in Nat, row.current < g
  PROVE  /\ [row EXCEPT !.next = g] \in Row /\ Ordered([row EXCEPT !.next = g])
         /\ [row EXCEPT !.next = g].next = g
         /\ [row EXCEPT !.next = g].current = row.current
         /\ [row EXCEPT !.next = g].retired = row.retired
         /\ [row EXCEPT !.next = g].status = row.status
         /\ [row EXCEPT !.next = g].reason = row.reason
         /\ [row EXCEPT !.next = g].grace = row.grace
BY DEF Row, Ordered

LEMMA RotatesFits ==
  ASSUME NEW b, DatabaseFits(b), NEW x \in DOMAIN b.made, NEW c, NEW g, Rotates(b, c, x, g)
  PROVE  DatabaseFits(c) /\ Evolves(b, c)
<1>1. /\ b.device \in Seq(Row) /\ DOMAIN b.device = 1 .. Len(b.device) /\ Len(b.device) \in Nat
      /\ b.made \in Seq(Nat) /\ DOMAIN b.made = 1 .. Len(b.made) /\ Len(b.made) \in Nat
      /\ \A y \in DOMAIN b.made : b.made[y] \in DOMAIN b.device
  BY DatabaseFields
<1>2. PICK d : d = b.made[x]  OBVIOUS
<1>3. d \in DOMAIN b.device /\ d \in Nat  BY <1>1, <1>2
<1>4. PICK row : row = b.device[d]  OBVIOUS
<1>5. row \in Row /\ Ordered(row)  BY <1>3, <1>4, FittingRow
<1>6. PICK to : /\ MovesTo(row, x, to) /\ Active(to) /\ to.current = x
                /\ c.device = [b.device EXCEPT ![d] = [to EXCEPT !.next = g]]
  BY <1>2, <1>4 DEF Rotates, RowOf
<1>7. x \in Nat \ {0}  BY <1>1
<1>8. /\ to \in Row /\ Ordered(to) /\ Active(row)
      /\ {to.current, to.next, to.retired} \subseteq {row.current, row.next, row.retired, NoSecret}
  BY <1>5, <1>6, <1>7, Moved
<1>9. g = Len(b.made) + 1 /\ g <= MaxSecrets /\ c \in Database /\ c.made = Append(b.made, d)
  BY <1>2 DEF Rotates
<1>10. x < g /\ g \in Nat  BY SMTT(40), <1>1, <1>9
<1>11. PICK new : new = [to EXCEPT !.next = g]  OBVIOUS
<1>12. /\ new \in Row /\ Ordered(new) /\ new.next = g /\ new.current = x
       /\ new.retired = to.retired /\ new.status = to.status
  BY <1>6, <1>8, <1>10, <1>11, NextSet
<1>13. /\ DOMAIN c.made = 1 .. g /\ c.made[g] = d /\ Len(c.made) = g
       /\ \A y \in DOMAIN b.made : c.made[y] = b.made[y]
  BY <1>1, <1>3, <1>9, OneMore
<1>14. /\ DOMAIN c.device = DOMAIN b.device /\ c.device[d] = new
       /\ \A e \in DOMAIN b.device : e # d => c.device[e] = b.device[e]
  BY <1>3, <1>6, <1>11
<1>15. \A e \in DOMAIN c.device : RowFits(c, e)
  <2> SUFFICES ASSUME NEW e \in DOMAIN b.device PROVE RowFits(c, e)  BY <1>14
  <2>1. RowFits(b, e)  BY DEF DatabaseFits
  <2>2. {y \in DOMAIN b.made : b.made[y] = e} \subseteq {y \in DOMAIN c.made : c.made[y] = e}
    BY <1>1, <1>10, <1>9, <1>13
  <2>3. CASE e # d
    <3>1. c.device[e] = b.device[e]  BY <2>3, <1>14
    <3> QED  BY <2>1, <2>2, <3>1 DEF RowFits
  <2>4. CASE e = d
    <3>1. PICK own : own = {y \in DOMAIN c.made : c.made[y] = d}  OBVIOUS
    <3>2. row.current \in own /\ {row.next, row.retired} \subseteq own \cup {NoSecret}
      BY <2>1, <2>2, <2>4, <3>1, <1>4 DEF RowFits
    <3>3. g \in own
      <4>1. g \in DOMAIN c.made  BY <1>1, <1>9, <1>13
      <4> QED  BY <4>1, <3>1, <1>13
    <3>4. x \in own  BY <1>1, <1>2, <1>9, <1>10, <1>13, <3>1
    <3>5. new.current \in own /\ {new.next, new.retired} \subseteq own \cup {NoSecret}
      BY <3>2, <3>3, <3>4, <1>8, <1>12
    <3>6. new.retired < new.current /\ (new.next # NoSecret => new.current < new.next)
      BY <1>12 DEF Ordered
    <3> QED  BY <3>1, <3>5, <3>6, <2>4, <1>14 DEF RowFits
  <2> QED  BY <2>3, <2>4
<1>16. \A e \in DOMAIN b.device : Active(c.device[e]) => Active(b.device[e])
  BY <1>4, <1>8, <1>14
<1>17. \A e, f \in LiveDevices(c) : e = f
  BY <1>14, <1>16 DEF LiveDevices, DatabaseFits
<1>18. Evolves(b, c)  BY SMTT(40), <1>1, <1>9, <1>10, <1>13, <1>14, <1>16 DEF Evolves
<1>19. \A y \in DOMAIN c.made : c.made[y] \in DOMAIN c.device
  <2> SUFFICES ASSUME NEW y \in 1 .. g PROVE c.made[y] \in DOMAIN b.device  BY <1>13, <1>14
  <2>1. CASE y = g  BY <2>1, <1>3, <1>13
  <2>2. CASE y # g
    <3>1. y \in DOMAIN b.made  BY <2>2, <1>1, <1>9
    <3> QED  BY <3>1, <1>1, <1>13
  <2> QED  BY <2>1, <2>2
<1> QED  BY <1>9, <1>13, <1>15, <1>17, <1>18, <1>19 DEF DatabaseFits

(* An enrollment: the live devices are replaced and the new one has secret g. *)
Replaced(row) == IF Active(row) THEN Revoked(row, "replaced") ELSE row
Enrolls(b, c, k, g) ==
  /\ g = Len(b.made) + 1 /\ g <= MaxSecrets
  /\ c \in Database
  /\ c.device = Append([d \in DOMAIN b.device |-> Replaced(b.device[d])], NewRow(g, k))
  /\ c.made = Append(b.made, Len(b.device) + 1)

LEMMA NewRowFields ==
  ASSUME NEW g \in Nat \ {0}, NEW k \in Ticket
  PROVE  /\ NewRow(g, k) \in Row /\ NewRow(g, k).current = g /\ NewRow(g, k).next = NoSecret
         /\ NewRow(g, k).retired = NoSecret /\ NewRow(g, k).reason = "none"
BY DEF NewRow, Row, Reason, NoSecret

LEMMA ReplacedRow ==
  ASSUME NEW row \in Row
  PROVE  /\ Replaced(row) \in Row /\ ~Active(Replaced(row))
         /\ Replaced(row).retired = row.retired /\ Replaced(row).current = row.current
         /\ Replaced(row).next = row.next /\ Replaced(row).grace = row.grace
         /\ Replaced(row).reason \in {row.reason, "replaced"}
         /\ Active(row) => Replaced(row).reason = "replaced"
<1>1. "replaced" \in Reason  BY DEF Reason
<1>2. CASE Active(row)
  <2>1. Replaced(row) = Revoked(row, "replaced")  BY <1>2 DEF Replaced
  <2> QED  BY <2>1, <1>1, RevokedRow DEF Active
<1>3. CASE ~Active(row)  BY <1>3 DEF Replaced
<1> QED  BY <1>2, <1>3

LEMMA EnrolledRows ==
  ASSUME NEW b, DatabaseFits(b), NEW k \in Ticket, NEW c, NEW g, Enrolls(b, c, k, g)
  PROVE  /\ DOMAIN c.device = 1 .. Len(b.device) + 1
         /\ c.device[Len(b.device) + 1] = NewRow(g, k)
         /\ \A d \in DOMAIN b.device : c.device[d] = Replaced(b.device[d])
         /\ Len(c.made) = g /\ DOMAIN c.made = 1 .. g /\ c.made[g] = Len(b.device) + 1
         /\ \A x \in DOMAIN b.made : c.made[x] = b.made[x]
         /\ g = Len(b.made) + 1 /\ g \in Nat \ {0}
<1>1. /\ b.device \in Seq(Row) /\ DOMAIN b.device = 1 .. Len(b.device) /\ Len(b.device) \in Nat
      /\ b.made \in Seq(Nat) /\ DOMAIN b.made = 1 .. Len(b.made) /\ Len(b.made) \in Nat
      /\ \A d \in DOMAIN b.device : b.device[d] \in Row
  BY DatabaseFields
<1>2. PICK t : t = [d \in DOMAIN b.device |-> Replaced(b.device[d])]  OBVIOUS
<1>3. t \in Seq(Row) /\ Len(t) = Len(b.device)
  <2>1. t \in [1 .. Len(b.device) -> Row]  BY <1>1, <1>2, ReplacedRow
  <2>2. t \in Seq(Row) /\ DOMAIN t = 1 .. Len(b.device)  BY <2>1, <1>1
  <2>3. Len(t) \in Nat /\ DOMAIN t = 1 .. Len(t)  BY <2>2, SeqDomain
  <2>4. \A i \in Nat : i \in 1 .. Len(b.device) <=> i \in 1 .. Len(t)  BY <2>2, <2>3
  <2>5. ~ (Len(t) < Len(b.device)) /\ ~ (Len(b.device) < Len(t))
    <3>1. CASE Len(t) < Len(b.device)  BY SMTT(40), <2>3, <2>4, <3>1, <1>1
    <3>2. CASE Len(b.device) < Len(t)  BY <2>3, <2>4, <3>2, <1>1
    <3> QED  BY <3>1, <3>2
  <2> QED  BY <2>2, <2>3, <2>5, <1>1
<1>4. g = Len(b.made) + 1 /\ g \in Nat \ {0}  BY <1>1 DEF Enrolls
<1>5. NewRow(g, k) \in Row  BY <1>4, NewRowFields
<1>6. PICK row : row = NewRow(g, k)  OBVIOUS
<1>7. c.device = Append(t, row)  BY <1>2, <1>6 DEF Enrolls
<1>8. /\ DOMAIN c.device = 1 .. Len(b.device) + 1 /\ c.device[Len(b.device) + 1] = row
      /\ \A d \in 1 .. Len(b.device) : c.device[d] = t[d]
  BY <1>3, <1>5, <1>6, <1>7, OneMore
<1>9. Len(b.device) + 1 \in Nat /\ c.made = Append(b.made, Len(b.device) + 1)
  BY <1>1 DEF Enrolls
<1>10. /\ Len(c.made) = g /\ DOMAIN c.made = 1 .. g /\ c.made[g] = Len(b.device) + 1
       /\ \A x \in DOMAIN b.made : c.made[x] = b.made[x]
  BY <1>1, <1>4, <1>9, OneMore
<1> QED  BY <1>1, <1>2, <1>4, <1>6, <1>8, <1>10

LEMMA EnrollsFits ==
  ASSUME NEW b, DatabaseFits(b), NEW k \in Ticket, NEW c, NEW g, Enrolls(b, c, k, g)
  PROVE  DatabaseFits(c) /\ Evolves(b, c) /\ Superseded(c, g)
<1>1. /\ DOMAIN b.device = 1 .. Len(b.device) /\ Len(b.device) \in Nat
      /\ DOMAIN b.made = 1 .. Len(b.made) /\ Len(b.made) \in Nat
      /\ \A d \in DOMAIN b.device : b.device[d] \in Row
      /\ \A x \in DOMAIN b.made : b.made[x] \in DOMAIN b.device
  BY DatabaseFields
<1>2. PICK n \in Nat : n = Len(b.device) + 1  BY <1>1
<1>3. /\ DOMAIN c.device = 1 .. n /\ c.device[n] = NewRow(g, k)
      /\ \A d \in DOMAIN b.device : c.device[d] = Replaced(b.device[d])
      /\ Len(c.made) = g /\ DOMAIN c.made = 1 .. g /\ c.made[g] = n
      /\ \A x \in DOMAIN b.made : c.made[x] = b.made[x]
      /\ g = Len(b.made) + 1 /\ g \in Nat \ {0}
  BY <1>2, EnrolledRows
<1>4. \A d \in DOMAIN b.device : ~Active(c.device[d])  BY <1>1, <1>3, ReplacedRow
<1>5. Evolves(b, c)  BY <1>1, <1>2, <1>3, <1>4 DEF Evolves
<1>6. Superseded(c, g)
  <2> SUFFICES ASSUME NEW x \in 1 .. g, x < g PROVE ~Active(c.device[c.made[x]])
    BY <1>3 DEF Superseded
  <2>1. x \in DOMAIN b.made  BY <1>1, <1>3
  <2> QED  BY <2>1, <1>1, <1>3, <1>4
<1>7. \A d \in DOMAIN c.device : RowFits(c, d)
  <2> SUFFICES ASSUME NEW d \in 1 .. n PROVE RowFits(c, d)  BY <1>3
  <2>1. PICK own : own = {x \in DOMAIN c.made : c.made[x] = d}  OBVIOUS
  <2>2. CASE d = n
    <3>1. g \in DOMAIN c.made  BY <1>3
    <3>2. g \in own  BY <3>1, <2>1, <2>2, <1>3
    <3>3. /\ c.device[d].current = g /\ c.device[d].next = NoSecret /\ c.device[d].retired = NoSecret
      BY <2>2, <1>3, NewRowFields
    <3> QED  BY <2>1, <3>2, <3>3, <1>3 DEF RowFits, NoSecret
  <2>3. CASE d # n
    <3>1. d \in DOMAIN b.device  BY <2>3, <1>1, <1>2
    <3>2. RowFits(b, d)  BY <3>1 DEF DatabaseFits
    <3>3. {x \in DOMAIN b.made : b.made[x] = d} \subseteq own  BY <2>1, <1>1, <1>3
    <3>4. /\ c.device[d].current = b.device[d].current /\ c.device[d].next = b.device[d].next
          /\ c.device[d].retired = b.device[d].retired
      BY <3>1, <1>1, <1>3, ReplacedRow
    <3> QED  BY <2>1, <3>2, <3>3, <3>4 DEF RowFits
  <2> QED  BY <2>2, <2>3
<1>8. \A d, e \in LiveDevices(c) : d = e
  <2>1. \A d \in LiveDevices(c) : d = n  BY <1>1, <1>2, <1>3, <1>4 DEF LiveDevices
  <2> QED  BY <2>1
<1>9. \A x \in DOMAIN c.made : c.made[x] \in DOMAIN c.device
  <2> SUFFICES ASSUME NEW x \in 1 .. g PROVE c.made[x] \in 1 .. n  BY <1>3
  <2>1. CASE x = g  BY <2>1, <1>2, <1>3, <1>1
  <2>2. CASE x # g
    <3>1. x \in DOMAIN b.made  BY <2>2, <1>1, <1>3
    <3> QED  BY <3>1, <1>1, <1>2, <1>3
  <2> QED  BY <2>1, <2>2
<1>10. c \in Database /\ Len(c.made) <= MaxSecrets  BY <1>3 DEF Enrolls
<1> QED  BY <1>5, <1>6, <1>7, <1>8, <1>9, <1>10 DEF DatabaseFits

(* How old the rows are after a call with secret x: a row is new, or as old  *)
(* as it was, or promoted to x, or revoked because x was retired.          *)
Ages(b, c, x) ==
  \A d \in DOMAIN c.device :
    LET row == c.device[d] IN
    \/ row.retired = NoSecret /\ row.reason = "none"
    \/ /\ d \in DOMAIN b.device
       /\ \/ /\ row.retired = b.device[d].retired /\ row.current = b.device[d].current
             /\ row.grace = b.device[d].grace
             /\ row.reason \in {b.device[d].reason, "replaced", "owner_revoked"}
          \/ row.current = x /\ row.grace = TRUE /\ row.reason = b.device[d].reason
          \/ b.device[d].retired = x /\ x # NoSecret /\ b.device[d].grace = FALSE

LEMMA UnchangedAges ==
  ASSUME NEW b, NEW c, c.device = b.device, NEW x
  PROVE  Ages(b, c, x)
BY DEF Ages

LEMMA MovedAges ==
  ASSUME NEW b, DatabaseFits(b), NEW x \in DOMAIN b.made, NEW to, MovesTo(RowOf(b, x), x, to),
         NEW new, new.retired = to.retired, new.current = to.current, new.grace = to.grace,
         new.reason = to.reason,
         NEW c, c.device = [b.device EXCEPT ![b.made[x]] = new]
  PROVE  Ages(b, c, x)
<1>1. PICK d : d = b.made[x]  OBVIOUS
<1>2. d \in DOMAIN b.device /\ x \in Nat \ {0}  BY <1>1, DatabaseFields
<1>3. PICK row : row = b.device[d]  OBVIOUS
<1>4. row \in Row /\ Ordered(row) /\ MovesTo(row, x, to)  BY <1>1, <1>2, <1>3, FittingRow DEF RowOf
<1>5. \/ /\ new.retired = row.retired /\ new.current = row.current
         /\ new.grace = row.grace /\ new.reason = row.reason
      \/ new.current = x /\ new.grace = TRUE /\ new.reason = row.reason
      \/ row.retired = x /\ row.grace = FALSE
  <2>1. CASE to = row  BY <2>1
  <2>2. CASE row.next = x /\ x # NoSecret /\ to = Promoted(row)
    BY <2>2, <1>4, PromotedRow
  <2>3. CASE row.retired = x /\ ~row.grace
    BY <2>3, <1>4, RowFields
  <2> QED  BY <2>1, <2>2, <2>3, <1>4 DEF MovesTo
<1>6. c.device = [b.device EXCEPT ![d] = new]  BY <1>1
<1>7. DOMAIN c.device = DOMAIN b.device /\ c.device[d] = new
      /\ \A e \in DOMAIN b.device : e # d => c.device[e] = b.device[e]
  BY <1>2, <1>6
<1> QED  BY <1>2, <1>3, <1>5, <1>7 DEF Ages, NoSecret

LEMMA EnrolledAges ==
  ASSUME NEW b, DatabaseFits(b), NEW k \in Ticket, NEW c, NEW g, Enrolls(b, c, k, g), NEW x
  PROVE  Ages(b, c, x)
<1>1. /\ DOMAIN b.device = 1 .. Len(b.device) /\ Len(b.device) \in Nat
      /\ \A d \in DOMAIN b.device : b.device[d] \in Row
  BY DatabaseFields
<1>2. PICK n \in Nat : n = Len(b.device) + 1  BY <1>1
<1>3. /\ DOMAIN c.device = 1 .. n /\ c.device[n] = NewRow(g, k)
      /\ \A d \in DOMAIN b.device : c.device[d] = Replaced(b.device[d])
      /\ g \in Nat \ {0}
  BY <1>2, EnrolledRows
<1> SUFFICES ASSUME NEW d \in 1 .. n
             PROVE  LET row == c.device[d] IN
                    \/ row.retired = NoSecret /\ row.reason = "none"
                    \/ /\ d \in DOMAIN b.device
                       /\ row.retired = b.device[d].retired /\ row.current = b.device[d].current
                       /\ row.grace = b.device[d].grace
                       /\ row.reason \in {b.device[d].reason, "replaced", "owner_revoked"}
  BY <1>3 DEF Ages
<1>4. CASE d = n
  <2>1. NewRow(g, k).retired = NoSecret /\ NewRow(g, k).reason = "none"  BY <1>3, NewRowFields
  <2>2. c.device[d] = NewRow(g, k)  BY <1>3, <1>4
  <2> QED  BY <2>1, <2>2
<1>5. CASE d # n
  <2>1. d \in DOMAIN b.device  BY <1>5, <1>1, <1>2
  <2>2. PICK row \in Row : row = b.device[d]  BY <2>1, <1>1
  <2>3. c.device[d] = Replaced(row)  BY <2>1, <2>2, <1>3
  <2>4. /\ Replaced(row).retired = row.retired /\ Replaced(row).current = row.current
        /\ Replaced(row).grace = row.grace /\ Replaced(row).reason \in {row.reason, "replaced"}
    BY ReplacedRow
  <2> QED  BY <2>1, <2>2, <2>3, <2>4
<1> QED  BY <1>4, <1>5

----------------------------------------------------------------------------
(* The server's functions.                                                 *)

Effect(s, r) ==
  \/ r.fn = "rotate" /\ s.answer = "ok" /\ Rotates(db, s.db, r.secret, s.secret)
  \/ r.fn = "enroll" /\ s.answer = "ok" /\ Enrolls(db, s.db, r.ticket, s.secret)
  \/ /\ s.secret = NoSecret
     /\ r.fn \in {"rotate", "enroll"} => s.answer # "ok"
     /\ \/ s.db = db
        \/ /\ r.fn # "enroll"
           /\ \E to : /\ MovesTo(RowOf(db, r.secret), r.secret, to)
                      /\ OneRow(db, s.db, db.made[r.secret], to)

LEMMA VerdictIs ==
  ASSUME DatabaseFits(db), NEW c \in DOMAIN db.made, NEW a \in Verdicts(c)
  PROVE  /\ MovesTo(RowOf(db, c), c, a.row)
         /\ a.reason \in {"ok", "unknown", "revoked", "stale"} \cup Conflicts
         /\ a.reason = "ok" => Active(a.row) /\ a.row.current = c
         /\ a.row \in Row /\ Ordered(a.row)
<1>1. PICK standing \in Standing : a = Authorize(RowOf(db, c), c, standing)
  BY DEF Verdicts, RowOf
<1>2. PICK row : row = RowOf(db, c)  OBVIOUS
<1>3. row \in Row /\ Ordered(row) /\ c \in Nat \ {0}
  BY SMTT(40), <1>2, DatabaseFields, FittingRow DEF RowOf
<1>4. a = Authorize(row, c, standing)  BY <1>1, <1>2
<1>5. /\ MovesTo(row, c, a.row)
      /\ a.reason \in {"ok", "unknown", "revoked", "stale"} \cup Conflicts
      /\ a.reason = "ok" => Active(a.row) /\ a.row.current = c
  BY <1>3, <1>4, Authorizing
<1> QED  BY <1>2, <1>3, <1>5, Moved

LEMMA WithRowIs ==
  ASSUME DatabaseFits(db), NEW c \in DOMAIN db.made, NEW to \in Row
  PROVE  OneRow(db, WithRow(c, to), db.made[c], to)
<1>1. db.made[c] \in DOMAIN db.device  BY DatabaseFields
<1> QED  BY <1>1, SetRow DEF WithRow, OneRow

LEMMA ServedFields ==
  ASSUME NEW b, NEW answer, NEW c
  PROVE  Served(b, answer, c).db = b /\ Served(b, answer, c).answer = answer
         /\ Served(b, answer, c).secret = c
BY DEF Served

LEMMA RefusalIs ==
  ASSUME DatabaseFits(db), NEW c \in DOMAIN db.made, NEW s \in Refusals(c)
  PROVE  /\ s.secret = NoSecret /\ s.answer \in {"unknown", "revoked", "stale"} \cup Conflicts
         /\ \E to : MovesTo(RowOf(db, c), c, to) /\ OneRow(db, s.db, db.made[c], to)
         /\ s = Served(s.db, s.answer, NoSecret)
<1>1. PICK a \in Verdicts(c) : a \notin Allowed(c) /\ s = Served(WithRow(c, a.row), a.reason, NoSecret)
  BY DEF Refusals
<1>2. a.reason # "ok"  BY <1>1 DEF Allowed
<1>3. s.db = WithRow(c, a.row) /\ s.answer = a.reason /\ s.secret = NoSecret
  BY <1>1, ServedFields
<1>4. OneRow(db, s.db, db.made[c], a.row)  BY <1>3, VerdictIs, WithRowIs
<1> QED  BY <1>1, <1>2, <1>3, <1>4, VerdictIs

LEMMA AllowedIs ==
  ASSUME DatabaseFits(db), NEW c \in DOMAIN db.made, NEW a \in Allowed(c)
  PROVE  /\ MovesTo(RowOf(db, c), c, a.row) /\ OneRow(db, WithRow(c, a.row), db.made[c], a.row)
         /\ a.row \in Row /\ Ordered(a.row) /\ Active(a.row) /\ a.row.current = c
<1>1. a \in Verdicts(c) /\ a.reason = "ok"  BY DEF Allowed
<1> QED  BY <1>1, VerdictIs, WithRowIs

LEMMA StatusEffect ==
  ASSUME DatabaseFits(db), NEW r, r.fn = "status", r.secret \in DOMAIN db.made, NEW s \in Status(r.secret)
  PROVE  Effect(s, r) /\ s.answer \in Answer \ {"none", "waiting", "ok"}
<1>1. PICK c : c = r.secret  OBVIOUS
<1>2. c \in DOMAIN db.made /\ s \in Status(c)  BY <1>1
<1>3. CASE \E a \in Allowed(c) : s = Served(WithRow(c, a.row), IF a.row.due THEN "rotate" ELSE "active", NoSecret)
  <2>1. PICK a \in Allowed(c) : s = Served(WithRow(c, a.row), IF a.row.due THEN "rotate" ELSE "active", NoSecret)
    BY <1>3
  <2>2. PICK answer \in {"rotate", "active"} : s = Served(WithRow(c, a.row), answer, NoSecret)
    BY <2>1
  <2>3. s.secret = NoSecret /\ s.db = WithRow(c, a.row) /\ s.answer \in {"rotate", "active"}
    BY <2>2, ServedFields
  <2>4. MovesTo(RowOf(db, c), c, a.row) /\ OneRow(db, s.db, db.made[c], a.row)
    BY <1>2, <2>3, AllowedIs
  <2> QED  BY <1>1, <2>3, <2>4 DEF Effect, Answer
<1>4. CASE \E x \in Refusals(c) : s = IF x.answer = "stale" THEN [x EXCEPT !.answer = "unknown"] ELSE x
  <2>1. PICK x \in Refusals(c) : s = IF x.answer = "stale" THEN [x EXCEPT !.answer = "unknown"] ELSE x
    BY <1>4
  <2>2. /\ x.secret = NoSecret /\ x.answer \in {"unknown", "revoked", "stale"} \cup Conflicts
        /\ \E to : MovesTo(RowOf(db, c), c, to) /\ OneRow(db, x.db, db.made[c], to)
        /\ x = Served(x.db, x.answer, NoSecret)
    BY <1>2, RefusalIs
  <2>3. PICK b, answer : b = x.db /\ answer = x.answer  OBVIOUS
  <2>4. x = [db |-> b, answer |-> answer, secret |-> NoSecret]  BY <2>2, <2>3 DEF Served
  <2>5. s.db = b /\ s.secret = NoSecret /\ s.answer \in {"unknown", "revoked"} \cup Conflicts
    <3>1. CASE answer = "stale"
      <4>1. s = [x EXCEPT !.answer = "unknown"]  BY <2>1, <2>3, <3>1
      <4> QED  BY <4>1, <2>4
    <3>2. CASE answer # "stale"  BY <2>1, <2>2, <2>3, <3>2
    <3> QED  BY <3>1, <3>2
  <2>6. s.answer \in Answer \ {"none", "waiting", "ok"}  BY <2>5 DEF Answer, Conflicts
  <2>7. \E to : MovesTo(RowOf(db, c), c, to) /\ OneRow(db, s.db, db.made[c], to)
    BY <2>2, <2>3, <2>5
  <2> QED  BY <1>1, <2>5, <2>6, <2>7 DEF Effect
<1> QED  BY <1>2, <1>3, <1>4 DEF Status

LEMMA RefusalEffect ==
  ASSUME DatabaseFits(db), NEW r, r.fn # "enroll", r.secret \in DOMAIN db.made,
         NEW s \in Refusals(r.secret)
  PROVE  Effect(s, r) /\ s.answer \in Answer \ {"none", "waiting", "ok"}
<1>1. PICK c : c = r.secret  OBVIOUS
<1>2. /\ s.secret = NoSecret /\ s.answer \in {"unknown", "revoked", "stale"} \cup Conflicts
      /\ \E to : MovesTo(RowOf(db, c), c, to) /\ OneRow(db, s.db, db.made[c], to)
  BY <1>1, RefusalIs
<1>3. s.answer \in Answer \ {"none", "waiting", "ok"}  BY <1>2 DEF Answer, Conflicts
<1> QED  BY <1>1, <1>2, <1>3 DEF Effect

LEMMA IngestEffect ==
  ASSUME DatabaseFits(db), NEW r, r.fn = "ingest", r.secret \in DOMAIN db.made, NEW s \in Ingest(r.secret)
  PROVE  Effect(s, r) /\ s.answer \in Answer \ {"none", "waiting"}
<1>1. PICK c : c = r.secret  OBVIOUS
<1>2. CASE s \in Refusals(c)  BY <1>1, <1>2, RefusalEffect
<1>3. CASE \E a \in Allowed(c) : s = Served(WithRow(c, a.row), "ok", NoSecret)
  <2>1. PICK a \in Allowed(c) : s = Served(WithRow(c, a.row), "ok", NoSecret)  BY <1>3
  <2>2. s.secret = NoSecret /\ s.db = WithRow(c, a.row) /\ s.answer = "ok"
    BY <2>1, ServedFields
  <2>3. MovesTo(RowOf(db, c), c, a.row) /\ OneRow(db, s.db, db.made[c], a.row)
    BY <1>1, <2>2, AllowedIs
  <2> QED  BY <1>1, <2>2, <2>3 DEF Effect, Answer
<1> QED  BY <1>1, <1>2, <1>3 DEF Ingest

LEMMA SetMade ==
  ASSUME NEW b \in Database, NEW t \in Seq(Nat)
  PROVE  /\ [b EXCEPT !.made = t] \in Database /\ [b EXCEPT !.made = t].device = b.device
         /\ [b EXCEPT !.made = t].made = t
BY DEF Database

LEMMA RotateEffect ==
  ASSUME DatabaseFits(db), NEW r, r.fn = "rotate", r.secret \in DOMAIN db.made, NEW s \in Rotate(r.secret)
  PROVE  Effect(s, r) /\ s.answer \in Answer \ {"none", "waiting"}
<1>1. PICK c : c = r.secret  OBVIOUS
<1>2. CASE s \in Refusals(c)  BY <1>1, <1>2, RefusalEffect
<1>3. CASE \E a \in {x \in Allowed(c) : Issued \in Secret} :
             s = Served([WithRow(c, [a.row EXCEPT !.next = Issued]) EXCEPT !.made = Append(@, db.made[c])],
                        "ok", Issued)
  <2>1. PICK a \in Allowed(c) :
           /\ Issued \in Secret
           /\ s = Served([WithRow(c, [a.row EXCEPT !.next = Issued]) EXCEPT !.made = Append(@, db.made[c])],
                         "ok", Issued)
    BY <1>3
  <2>2. /\ MovesTo(RowOf(db, c), c, a.row) /\ a.row \in Row /\ Ordered(a.row)
        /\ Active(a.row) /\ a.row.current = c
    BY <1>1, AllowedIs
  <2>3. PICK g : g = Issued  OBVIOUS
  <2>4. g = Len(db.made) + 1 /\ g <= MaxSecrets /\ g \in Nat
    BY <2>1, <2>3, DatabaseFields DEF Issued, Secret
  <2>5. c < g  BY <1>1, <2>4, DatabaseFields
  <2>6. PICK new : new = [a.row EXCEPT !.next = g]  OBVIOUS
  <2>7. new \in Row  BY <2>2, <2>4, <2>5, <2>6, NextSet
  <2>8. PICK b : b = WithRow(c, new)  OBVIOUS
  <2>9. OneRow(db, b, db.made[c], new)  BY <1>1, <2>7, <2>8, WithRowIs
  <2>10. PICK t : t = Append(db.made, db.made[c])  OBVIOUS
  <2>11. t \in Seq(Nat)
    <3>1. db.made \in Seq(Nat) /\ db.made[c] \in Nat  BY <1>1, DatabaseFields
    <3> QED  BY <3>1, <2>10, AppendProperties
  <2>12. PICK e : e = [b EXCEPT !.made = t]  OBVIOUS
  <2>13. e \in Database /\ e.device = [db.device EXCEPT ![db.made[c]] = new] /\ e.made = t
    BY <2>9, <2>11, <2>12, SetMade DEF OneRow
  <2>14. [b EXCEPT !.made = Append(@, db.made[c])] = e
    <3>1. b.made = db.made  BY <2>9 DEF OneRow
    <3> QED  BY <3>1, <2>10, <2>12
  <2>15. s = Served(e, "ok", g)  BY <2>1, <2>3, <2>6, <2>8, <2>14
  <2>16. s.db = e /\ s.answer = "ok" /\ s.secret = g  BY <2>15, ServedFields
  <2>17. Rotates(db, e, c, g)
    BY <2>2, <2>4, <2>6, <2>10, <2>13 DEF Rotates
  <2> QED  BY <1>1, <2>16, <2>17 DEF Effect, Answer
<1> QED  BY <1>1, <1>2, <1>3 DEF Rotate

LEMMA EnrollEffect ==
  ASSUME DatabaseFits(db), NEW r, r.fn = "enroll", r.ticket \in Ticket, NEW s \in Enroll(r.ticket)
  PROVE  Effect(s, r) /\ s.answer \in Answer \ {"none", "waiting"}
<1>1. PICK k \in Ticket : k = r.ticket  OBVIOUS
<1>2. PICK rows : rows = [d \in DOMAIN db.device |-> Replaced(db.device[d])]  OBVIOUS
<1>3. s \in Enrollment(k, rows)  BY <1>1, <1>2 DEF Enroll, Replaced
<1>4. /\ db.ticket[k] \in TicketState /\ Len(db.made) \in Nat /\ Len(db.device) \in Nat
      /\ db.device \in Seq(Row) /\ db.made \in Seq(Nat) /\ DOMAIN db.device = 1 .. Len(db.device)
      /\ db.ticket \in [Ticket -> TicketState]
      /\ \A d \in DOMAIN db.device : db.device[d] \in Row
  BY DatabaseFields
<1>5. CASE db.ticket[k] # "pending"
  <2>1. s = Served(db, db.ticket[k], NoSecret)  BY <1>3, <1>5 DEF Enrollment
  <2>2. s.db = db /\ s.answer = db.ticket[k] /\ s.secret = NoSecret  BY <2>1, ServedFields
  <2>3. s.answer \in TicketState  BY <2>2, <1>4
  <2> QED  BY <2>2, <2>3, <1>1 DEF Effect, Answer, TicketState
<1>6. CASE db.ticket[k] = "pending" /\ \E x \in Conflicts : s = Served(db, x, NoSecret)
  <2>1. PICK x \in Conflicts : s = Served(db, x, NoSecret)  BY <1>6
  <2>2. s.db = db /\ s.answer = x /\ s.secret = NoSecret  BY <2>1, ServedFields
  <2>3. x # "ok" /\ x \in Answer \ {"none", "waiting"}  BY DEF Conflicts, Answer
  <2> QED  BY <2>2, <2>3 DEF Effect
<1>7. CASE \E c \in {Issued} \cap Secret :
             s = Served([device |-> Append(rows, NewRow(Issued, k)),
                         made |-> Append(db.made, Len(db.device) + 1),
                         ticket |-> [db.ticket EXCEPT ![k] = "consumed"]], "ok", c)
  <2>1. PICK g : g = Issued  OBVIOUS
  <2>2. /\ g \in Secret
        /\ s = Served([device |-> Append(rows, NewRow(g, k)),
                       made |-> Append(db.made, Len(db.device) + 1),
                       ticket |-> [db.ticket EXCEPT ![k] = "consumed"]], "ok", g)
    BY <1>7, <2>1
  <2>3. g = Len(db.made) + 1 /\ g <= MaxSecrets /\ g \in Nat \ {0}
    BY <2>1, <2>2, <1>4 DEF Issued, Secret
  <2>4. PICK row : row = NewRow(g, k)  OBVIOUS
  <2>5. row \in Row  BY <2>3, <2>4, NewRowFields
  <2>6. rows \in Seq(Row)
    <3>1. rows \in [1 .. Len(db.device) -> Row]  BY <1>2, <1>4, ReplacedRow
    <3> QED  BY SMTT(40), <3>1, <1>4
  <2>7. PICK t : t = Append(rows, row)  OBVIOUS
  <2>8. t \in Seq(Row)  BY <2>5, <2>6, <2>7, AppendProperties
  <2>9. PICK u : u = Append(db.made, Len(db.device) + 1)  OBVIOUS
  <2>10. u \in Seq(Nat)
    <3>1. Len(db.device) + 1 \in Nat  BY <1>4
    <3> QED  BY <3>1, <1>4, <2>9, AppendProperties
  <2>11. PICK v : v = [db.ticket EXCEPT ![k] = "consumed"]  OBVIOUS
  <2>12. v \in [Ticket -> TicketState]  BY <2>11, <1>4 DEF TicketState
  <2>13. PICK e : e = [device |-> t, made |-> u, ticket |-> v]  OBVIOUS
  <2>14. e \in Database /\ e.device = t /\ e.made = u  BY <2>8, <2>10, <2>12, <2>13 DEF Database
  <2>15. s = Served(e, "ok", g)  BY <2>2, <2>4, <2>7, <2>9, <2>11, <2>13
  <2>16. s.db = e /\ s.answer = "ok" /\ s.secret = g  BY <2>15, ServedFields
  <2>17. Enrolls(db, e, k, g)
    BY <1>2, <2>3, <2>4, <2>7, <2>9, <2>14 DEF Enrolls
  <2> QED  BY <1>1, <2>16, <2>17 DEF Effect, Answer
<1> QED  BY <1>3, <1>5, <1>6, <1>7 DEF Enrollment

LEMMA RequestFields ==
  ASSUME NEW n \in Nat, NEW r \in Requests(n), RequestFits(r)
  PROVE  /\ r.fn \in Fn /\ r.secret \in 0 .. n
         /\ r.fn # "enroll" => r.secret \in 1 .. n
         /\ r.fn = "enroll" => r.ticket \in Ticket
BY DEF Requests, RequestFits, NoSecret

(* What any of the four functions does.                                     *)
LEMMA ServingEffect ==
  ASSUME DatabaseFits(db), NEW r \in Requests(Len(db.made)), RequestFits(r), NEW s \in Serving(r)
  PROVE  /\ Effect(s, r) /\ s.answer \in Answer \ {"none", "waiting"}
         /\ DatabaseFits(s.db) /\ Evolves(db, s.db) /\ Ages(db, s.db, r.secret)
         /\ s.secret \in 0 .. Len(s.db.made)
         /\ r.fn \in {"rotate", "enroll"} /\ s.answer = "ok" =>
              s.secret # NoSecret /\ s.secret = Len(db.made) + 1
<1>1. Len(db.made) \in Nat /\ DOMAIN db.made = 1 .. Len(db.made)  BY DatabaseFields
<1>2. /\ r.fn \in Fn
      /\ r.fn # "enroll" => r.secret \in DOMAIN db.made
      /\ r.fn = "enroll" => r.ticket \in Ticket
  BY <1>1, RequestFields
<1>3. Effect(s, r) /\ s.answer \in Answer \ {"none", "waiting"}
  <2>1. CASE r.fn = "status"
    <3>1. s \in Status(r.secret)  BY <2>1 DEF Serving
    <3> QED  BY <3>1, <2>1, <1>2, StatusEffect
  <2>2. CASE r.fn = "ingest"
    <3>1. s \in Ingest(r.secret)  BY <2>2 DEF Serving
    <3> QED  BY <3>1, <2>2, <1>2, IngestEffect
  <2>3. CASE r.fn = "rotate"
    <3>1. s \in Rotate(r.secret)  BY <2>3 DEF Serving
    <3> QED  BY <3>1, <2>3, <1>2, RotateEffect
  <2>4. CASE r.fn = "enroll"
    <3>1. s \in Enroll(r.ticket)  BY <2>4 DEF Serving
    <3> QED  BY <3>1, <2>4, <1>2, EnrollEffect
  <2> QED  BY <1>2, <2>1, <2>2, <2>3, <2>4 DEF Fn
<1>4. CASE r.fn = "rotate" /\ s.answer = "ok" /\ Rotates(db, s.db, r.secret, s.secret)
  <2>1. DatabaseFits(s.db) /\ Evolves(db, s.db)  BY <1>2, <1>4, RotatesFits
  <2>2. PICK x \in DOMAIN db.made : x = r.secret  BY <1>2, <1>4
  <2>3. PICK g : g = s.secret  OBVIOUS
  <2>4. g = Len(db.made) + 1 /\ s.db.made = Append(db.made, db.made[x])
    BY <1>4, <2>2, <2>3 DEF Rotates
  <2>5. db.made \in Seq(Nat) /\ db.made[x] \in Nat  BY DatabaseFields
  <2>6. Len(s.db.made) = g  BY <2>4, <2>5, OneMore
  <2>7. PICK to : /\ MovesTo(RowOf(db, x), x, to) /\ to.current = x
                  /\ s.db.device = [db.device EXCEPT ![db.made[x]] = [to EXCEPT !.next = g]]
    BY <1>4, <2>2, <2>3 DEF Rotates
  <2>8. to \in Row /\ Ordered(to)
    <3>1. RowOf(db, x) \in Row /\ Ordered(RowOf(db, x)) /\ x \in Nat \ {0}
      BY SMTT(40), <1>1, DatabaseFields, FittingRow DEF RowOf
    <3> QED  BY <3>1, <2>7, Moved
  <2>9. PICK new : new = [to EXCEPT !.next = g]  OBVIOUS
  <2>10. /\ new.retired = to.retired /\ new.current = to.current /\ new.grace = to.grace
         /\ new.reason = to.reason
    BY <2>4, <2>7, <2>8, <2>9, <1>1, NextSet
  <2>16. PICK c : c = s.db  OBVIOUS
  <2>17. c.device = [db.device EXCEPT ![db.made[x]] = new]  BY <2>7, <2>9, <2>16
  <2>18. Ages(db, c, x)  BY <2>7, <2>10, <2>17, MovedAges
  <2>11. Ages(db, s.db, x)  BY <2>16, <2>18
  <2>12. g \in 0 .. g /\ g # NoSecret  BY <1>1, <2>4 DEF NoSecret
  <2>13. s.secret \in 0 .. Len(s.db.made)  BY <2>3, <2>6, <2>12
  <2>14. s.secret # NoSecret /\ s.secret = Len(db.made) + 1  BY <2>3, <2>4, <2>12
  <2>15. Ages(db, s.db, r.secret)  BY <2>2, <2>11
  <2> QED  BY <1>3, <2>1, <2>13, <2>14, <2>15
<1>5. CASE r.fn = "enroll" /\ s.answer = "ok" /\ Enrolls(db, s.db, r.ticket, s.secret)
  <2>1. DatabaseFits(s.db) /\ Evolves(db, s.db)  BY <1>2, <1>5, EnrollsFits
  <2>2. Ages(db, s.db, r.secret)  BY <1>2, <1>5, EnrolledAges
  <2>3. s.secret = Len(db.made) + 1 /\ Len(s.db.made) = s.secret /\ s.secret \in Nat \ {0}
    BY <1>2, <1>5, EnrolledRows
  <2> QED  BY <1>3, <2>1, <2>2, <2>3 DEF NoSecret
<1>6. CASE s.secret = NoSecret /\ s.db = db /\ (r.fn \in {"rotate", "enroll"} => s.answer # "ok")
  <2>1. Evolves(db, s.db) /\ Ages(db, s.db, r.secret)  BY <1>6, EvolvesToItself, UnchangedAges
  <2> QED  BY <1>1, <1>3, <1>6, <2>1 DEF NoSecret
<1>7. CASE /\ s.secret = NoSecret /\ r.fn # "enroll" /\ (r.fn \in {"rotate", "enroll"} => s.answer # "ok")
           /\ \E to : /\ MovesTo(RowOf(db, r.secret), r.secret, to)
                      /\ OneRow(db, s.db, db.made[r.secret], to)
  <2>1. PICK x \in DOMAIN db.made : x = r.secret  BY <1>2, <1>7
  <2>2. PICK to : MovesTo(RowOf(db, x), x, to) /\ OneRow(db, s.db, db.made[x], to)  BY <1>7, <2>1
  <2>3. PICK d : d = db.made[x]  OBVIOUS
  <2>11. d \in DOMAIN db.device  BY <2>3, DatabaseFields
  <2>12. db.device[d] \in Row /\ Ordered(db.device[d])  BY <2>11, FittingRow
  <2>13. x \in Nat \ {0}  BY <1>1
  <2>4. /\ d \in DOMAIN db.device /\ x \in Nat \ {0}
        /\ db.device[d] \in Row /\ Ordered(db.device[d]) /\ RowOf(db, x) = db.device[d]
    BY <2>3, <2>11, <2>12, <2>13 DEF RowOf
  <2>5. Inherits(to, db.device[d])  BY <2>2, <2>4, Moved DEF Inherits
  <2>6. DatabaseFits(s.db) /\ Evolves(db, s.db)  BY <2>2, <2>3, <2>4, <2>5, OneRowFits
  <2>7. Ages(db, s.db, x)  BY <2>2, MovedAges DEF OneRow
  <2>8. Len(s.db.made) = Len(db.made)  BY <2>2 DEF OneRow
  <2>9. s.secret \in 0 .. Len(s.db.made)  BY <1>1, <1>7, <2>8 DEF NoSecret
  <2>10. Ages(db, s.db, r.secret)  BY <2>1, <2>7
  <2> QED  BY <1>3, <1>7, <2>6, <2>9, <2>10
<1> QED  BY <1>3, <1>4, <1>5, <1>6, <1>7 DEF Effect

----------------------------------------------------------------------------
(* A step of a service call.                                               *)

Known == Len(db.made)

(* What the invariant says of a step whose harm is h.                       *)
Ready(h) == /\ Types /\ HeldSupersedes
            /\ Calm(h) => SecretsAge
            /\ h = {} => RotationFits

(* The disk d after the step has not lost what was on it.                   *)
Kept(h, d) ==
  /\ Calm(h) => Stored <= Read(d.store).secret
  /\ h = {} /\ Usable(db, store) => Usable(db, d.store)

(* The call c goes on from the disk d.                                      *)
Goes(h, d, c) ==
  /\ CallFits(Known, c) /\ ~Granted(c)
  /\ Calm(h) => /\ c.secret <= Read(d.store).secret
                /\ c.secret # NoSecret => Working <= c.secret
  /\ h = {} => (c.at \in {"probe", "rotate"} => c.secret = Read(d.store).secret)

MemoryFits(m) == m \in Memory(Known) /\ Superseded(db, m.held)

ClientStep(h) ==
  /\ store' \in Stores(Known) /\ faults' \in 0 .. MaxFaults
  /\ memory' \in [Process -> Memory(Known)]
  /\ \A q \in Process : Superseded(db, memory'[q].held)
  /\ CallFits(Known, call') /\ ~Granted(call')
  /\ Calm(h) => /\ Stored <= Read(store').secret
                /\ call'.secret <= Read(store').secret
                /\ call'.secret # NoSecret => Working <= call'.secret
  /\ h = {} => /\ call'.at \in {"probe", "rotate"} => call'.secret = Read(store').secret
               /\ Usable(db, store) => Usable(db, store')

LEMMA KnownIsNat ==
  ASSUME Types
  PROVE  /\ Known \in Nat /\ DOMAIN db.made = 1 .. Known /\ DatabaseFits(db)
         /\ store \in Stores(Known) /\ Stored \in 0 .. Known
         /\ memory \in [Process -> Memory(Known)] /\ CallFits(Known, call)
         /\ files \subseteq Ticket
<1>1. Known \in Nat /\ DOMAIN db.made = 1 .. Known /\ DatabaseFits(db)
  BY DatabaseFields DEF Types, Known
<1>2. store \in Stores(Known)  BY DEF Types, Known
<1> QED  BY <1>1, <1>2, ReadIs DEF Types, Known, Stored

LEMMA UsableIs ==
  ASSUME Types, NEW s \in Stores(Known), NEW b
  PROVE  Usable(b, s) <=> Read(s).secret # NoSecret /\ Accepted(b, Read(s).secret)
BY KnownIsNat, ReadIs DEF Usable

LEMMA KeptDisk ==
  ASSUME Types
  PROVE  /\ Disk \in Disks(Known) /\ Disk.store = store /\ Disk.how = "ok" /\ \A h : Kept(h, Disk)
<1>1. Disk \in Disks(Known) /\ Disk.store = store /\ Disk.how = "ok"
  <2>1. faults \in 0 .. MaxFaults  BY DEF Types
  <2>2. MaxFaults - faults \in 0 .. MaxFaults  BY <2>1, DeviceAssumption
  <2> QED  BY <2>2, KnownIsNat DEF Disk, Disks
<1>2. Stored \in Nat  BY KnownIsNat
<1> QED  BY <1>1, <1>2 DEF Kept, Stored

LEMMA KeptSame ==
  ASSUME Types, NEW h, NEW d \in Disks(Known), NEW w \in Disks(Known), Kept(h, d),
         Read(w.store).secret = Read(d.store).secret
  PROVE  Kept(h, w)
<1>1. d.store \in Stores(Known) /\ w.store \in Stores(Known)  BY DiskFields, KnownIsNat
<1>2. Usable(db, d.store) <=> Usable(db, w.store)  BY <1>1, UsableIs
<1> QED  BY <1>2 DEF Kept

LEMMA CaughtDisk ==
  ASSUME NEW n \in Nat, NEW d \in Disks(n)
  PROVE  /\ Caught(d) \in Disks(n) /\ Caught(d).store = d.store
         /\ d.how = "failed" => Caught(d).how = "ok"
         /\ Caught(d).how = "died" <=> d.how = "died"
BY DEF Caught, Disks

LEMMA OwnMemory ==
  ASSUME Types, HeldSupersedes, NEW p \in Process
  PROVE  MemoryFits(memory[p])
BY KnownIsNat DEF HeldSupersedes, MemoryFits

LEMMA NothingHeld ==
  ASSUME Types
  PROVE  Superseded(db, NoSecret)
BY KnownIsNat DEF Superseded, NoSecret

LEMMA FreshFits ==
  ASSUME Types
  PROVE  MemoryFits(FreshMemory)
<1>1. FreshMemory \in Memory(Known)
  BY KnownIsNat DEF FreshMemory, Memory, StaleLimit, NoSecret
<1>2. FreshMemory.held = NoSecret  BY DEF FreshMemory
<1> QED  BY <1>1, <1>2, NothingHeld DEF MemoryFits

(* Changes of a service's fields that leave the held secret alone.          *)
LEMMA MemoryChanges ==
  ASSUME Types, NEW m, MemoryFits(m)
  PROVE  /\ \A s \in {"open", "revoked", "damaged"} : MemoryFits(InState(m, s))
         /\ MemoryFits(MarkLocalRegistered(m))
         /\ \A answer : MemoryFits(ApplyServerState(m, answer))
         /\ MemoryFits([m EXCEPT !.checked = FALSE])
         /\ MemoryFits([m EXCEPT !.due = FALSE])
         /\ MemoryFits([m EXCEPT !.strikes = 0])
         /\ \A k \in Ticket : MemoryFits([m EXCEPT !.refused = @ \cup {k}])
         /\ \A due \in BOOLEAN : MemoryFits([m EXCEPT !.checked = TRUE, !.due = due])
         /\ \A n \in 0 .. StaleLimit, s \in {"open", "revoked", "damaged"} :
               MemoryFits([m EXCEPT !.strikes = n, !.state = s])
         /\ MemoryFits([m EXCEPT !.held = NoSecret])
         /\ \A g \in 0 .. Known : Superseded(db, g) => MemoryFits([m EXCEPT !.held = g])
<1>1. m \in Memory(Known) /\ Superseded(db, m.held) /\ Known \in Nat  BY KnownIsNat DEF MemoryFits
<1>2. \A s \in {"open", "revoked", "damaged"} : MemoryFits(InState(m, s))
  BY <1>1 DEF InState, Memory, MemoryFits
<1>3. MemoryFits(MarkLocalRegistered(m))
  <2>1. CASE m.state = "damaged"  BY <2>1, <1>2 DEF MarkLocalRegistered
  <2>2. CASE m.state # "damaged"  BY <2>2 DEF MarkLocalRegistered
  <2> QED  BY <2>1, <2>2
<1>4. ASSUME NEW answer PROVE MemoryFits(ApplyServerState(m, answer))
  <2>1. \E s \in {"open", "revoked", "damaged"} : ApplyServerState(m, answer) = InState(m, s)
    <3>1. CASE answer = "revoked"  BY <3>1 DEF ApplyServerState
    <3>2. CASE answer = "unknown"  BY <3>2 DEF ApplyServerState
    <3>3. CASE answer \notin {"revoked", "unknown"}
      <4>1. ApplyServerState(m, answer) = InState(m, "open")  BY <3>3 DEF ApplyServerState
      <4> QED  BY <4>1
    <3> QED  BY <3>1, <3>2, <3>3
  <2> QED  BY <2>1, <1>2
<1>5. /\ MemoryFits([m EXCEPT !.checked = FALSE]) /\ MemoryFits([m EXCEPT !.due = FALSE])
  BY <1>1 DEF Memory, MemoryFits
<1>6. \A due \in BOOLEAN : MemoryFits([m EXCEPT !.checked = TRUE, !.due = due])
  BY <1>1 DEF Memory, MemoryFits
<1>7. \A k \in Ticket : MemoryFits([m EXCEPT !.refused = @ \cup {k}])
  BY <1>1 DEF Memory, MemoryFits
<1>8. 0 \in 0 .. StaleLimit  BY DEF StaleLimit
<1>9. MemoryFits([m EXCEPT !.strikes = 0])
  BY <1>1, <1>8 DEF Memory, MemoryFits
<1>10. \A n \in 0 .. StaleLimit, s \in {"open", "revoked", "damaged"} :
          MemoryFits([m EXCEPT !.strikes = n, !.state = s])
  BY <1>1 DEF Memory, MemoryFits
<1>11. \A g \in 0 .. Known : Superseded(db, g) => MemoryFits([m EXCEPT !.held = g])
  BY <1>1 DEF Memory, MemoryFits
<1>12. MemoryFits([m EXCEPT !.held = NoSecret])
  <2>1. NoSecret \in 0 .. Known  BY <1>1 DEF NoSecret
  <2> QED  BY <2>1, <1>11, NothingHeld
<1> QED  BY ZenonT(40), <1>2, <1>3, <1>4, <1>5, <1>6, <1>7, <1>9, <1>10, <1>11, <1>12

LEMMA NoCallFields ==
  /\ NoCall.by = Nobody /\ NoCall.at = "none" /\ NoCall.secret = NoSecret
  /\ NoCall.answer = "none" /\ NoCall.granted = NoSecret
BY DEF NoCall

LEMMA GoesNowhere ==
  ASSUME Types, NEW h, NEW d \in Disks(Known)
  PROVE  Goes(h, d, NoCall)
<1>1. Read(d.store).secret \in 0 .. Known  BY KnownIsNat, DiskFields, ReadIs
<1> QED  BY <1>1, NoCallFields, KnownIsNat DEF Goes, CallFits, Granted, NoSecret

LEMMA Finishes ==
  ASSUME Types, HeldSupersedes, NEW h, NEW p \in Process, NEW d \in Disks(Known),
         NEW m, MemoryFits(m), Kept(h, d), NEW c, d.how # "died" => Goes(h, d, c),
         Finish(p, d, m, c)
  PROVE  ClientStep(h)
<1>1. PICK e : e = IF d.how = "died" THEN NoCall ELSE c  OBVIOUS
<1>2. Goes(h, d, e)
  <2>1. CASE d.how = "died"  BY <2>1, <1>1, GoesNowhere
  <2>2. CASE d.how # "died"  BY <2>2, <1>1
  <2> QED  BY <2>1, <2>2
<1>3. PICK x : x = IF d.how = "died" THEN FreshMemory ELSE m  OBVIOUS
<1>4. MemoryFits(x)
  <2>1. CASE d.how = "died"  BY <2>1, <1>3, FreshFits
  <2>2. CASE d.how # "died"  BY <2>2, <1>3
  <2> QED  BY <2>1, <2>2
<1>5. /\ store' = d.store /\ faults' = MaxFaults - d.left /\ call' = e
      /\ memory' = [memory EXCEPT ![p] = x]
  BY <1>1, <1>3 DEF Finish
<1>6. d.store \in Stores(Known) /\ d.left \in 0 .. MaxFaults  BY KnownIsNat, DiskFields
<1>7. faults' \in 0 .. MaxFaults  BY <1>5, <1>6, DeviceAssumption
<1>8. /\ memory' \in [Process -> Memory(Known)]
      /\ \A q \in Process : Superseded(db, memory'[q].held)
  <2>1. memory \in [Process -> Memory(Known)] /\ x \in Memory(Known)  BY <1>4, KnownIsNat DEF MemoryFits
  <2>2. memory' \in [Process -> Memory(Known)]  BY <2>1, <1>5
  <2>3. \A q \in Process : memory'[q] = IF q = p THEN x ELSE memory[q]  BY <2>1, <1>5
  <2> QED  BY <2>2, <2>3, <1>4 DEF MemoryFits, HeldSupersedes
<1>9. /\ CallFits(Known, call') /\ ~Granted(call')
      /\ Calm(h) => call'.secret <= Read(store').secret /\ (call'.secret # NoSecret => Working <= call'.secret)
      /\ h = {} => (call'.at \in {"probe", "rotate"} => call'.secret = Read(store').secret)
  BY <1>2, <1>5 DEF Goes
<1>10. /\ Calm(h) => Stored <= Read(store').secret
       /\ h = {} /\ Usable(db, store) => Usable(db, store')
  BY <1>5 DEF Kept
<1> QED  BY <1>5, <1>6, <1>7, <1>8, <1>9, <1>10 DEF ClientStep

LEMMA Returns ==
  ASSUME Types, HeldSupersedes, NEW h, NEW p \in Process, NEW d \in Disks(Known),
         NEW m, MemoryFits(m), Kept(h, d), Return(p, d, m)
  PROVE  ClientStep(h)
BY GoesNowhere, Finishes DEF Return

AskCall(p, op, at, c, k) == [by |-> p, op |-> op, at |-> at, secret |-> c, ticket |-> k,
                             answer |-> "waiting", granted |-> NoSecret]

LEMMA AskCallFits ==
  ASSUME NEW n \in Nat, NEW p \in Process, NEW op \in Operation, NEW at \in Asked, NEW c \in 0 .. n,
         NEW k \in Ticket \cup {NoTicket}, at \in {"classify", "enroll"} => k \in Ticket,
         at # "enroll" => c # NoSecret
  PROVE  /\ CallFits(n, AskCall(p, op, at, c, k)) /\ ~Granted(AskCall(p, op, at, c, k))
         /\ AskCall(p, op, at, c, k).secret = c /\ AskCall(p, op, at, c, k).at = at
<1>1. PICK e : e = AskCall(p, op, at, c, k)  OBVIOUS
<1>2. /\ e.by = p /\ e.op = op /\ e.at = at /\ e.secret = c /\ e.ticket = k
      /\ e.answer = "waiting" /\ e.granted = NoSecret
  BY <1>1 DEF AskCall
<1>3. NoSecret \in 0 .. n /\ "waiting" \in Answer  BY DEF NoSecret, Answer
<1>4. e \in Calls(n)  BY <1>1, <1>3 DEF AskCall, Calls
<1> QED  BY <1>1, <1>2, <1>4 DEF CallFits, Granted

(* It asks with the secret just read.                                       *)
LEMMA AsksWithStored ==
  ASSUME NEW h, Ready(h), NEW p \in Process, NEW d \in Disks(Known), NEW m, MemoryFits(m), Kept(h, d),
         NEW op \in Operation, NEW at \in Asked, NEW c, c = Read(d.store).secret, c # NoSecret,
         NEW k \in Ticket \cup {NoTicket}, at \in {"classify", "enroll"} => k \in Ticket,
         Ask(p, d, m, op, at, c, k)
  PROVE  ClientStep(h)
<1>1. PICK e : e = AskCall(p, op, at, c, k)  OBVIOUS
<1>2. Types /\ HeldSupersedes  BY DEF Ready
<1>3. Known \in Nat /\ c \in 0 .. Known /\ Stored \in 0 .. Known
  BY <1>2, KnownIsNat, DiskFields, ReadIs
<1>4. CallFits(Known, e) /\ ~Granted(e) /\ e.secret = c /\ e.at = at  BY <1>1, <1>3, AskCallFits
<1>5. Calm(h) => Working <= c
  <2> SUFFICES ASSUME Calm(h) PROVE Working <= c  OBVIOUS
  <2>1. Stored <= c  BY DEF Kept
  <2>2. call.secret <= Stored  BY DEF Ready, SecretsAge
  <2>3. CallFits(Known, call)  BY <1>2, KnownIsNat
  <2>4. call.secret \in 0 .. Known
    BY <1>3, <2>3, NoCallFields DEF CallFits, Calls, NoSecret
  <2> QED  BY <2>1, <2>2, <2>4, <1>3 DEF Working
<1>6. Goes(h, d, e)  BY <1>3, <1>4, <1>5 DEF Goes
<1> QED  BY <1>1, <1>2, <1>6, Finishes DEF Ask, AskCall

(* It asks again with the secret of the call.                               *)
LEMMA AsksAgain ==
  ASSUME NEW h, Ready(h), NEW p \in Process, NEW d \in Disks(Known), NEW m, MemoryFits(m), Kept(h, d),
         NEW op \in Operation, NEW at \in Asked, at # "enroll" => call.secret # NoSecret,
         NEW k \in Ticket \cup {NoTicket}, at \in {"classify", "enroll"} => k \in Ticket,
         at \in {"probe", "rotate"} /\ h = {} => call.secret = Read(d.store).secret,
         Ask(p, d, m, op, at, call.secret, k)
  PROVE  ClientStep(h)
<1>1. PICK c : c = call.secret  OBVIOUS
<1>2. PICK e : e = AskCall(p, op, at, c, k)  OBVIOUS
<1>3. Types /\ HeldSupersedes  BY DEF Ready
<1>4. Known \in Nat /\ Stored \in 0 .. Known /\ CallFits(Known, call)  BY <1>3, KnownIsNat
<1>5. c \in 0 .. Known  BY <1>1, <1>4, NoCallFields DEF CallFits, Calls, NoSecret
<1>6. CallFits(Known, e) /\ ~Granted(e) /\ e.secret = c /\ e.at = at
  BY <1>1, <1>2, <1>4, <1>5, AskCallFits
<1>7. Read(d.store).secret \in 0 .. Known  BY <1>4, DiskFields, ReadIs
<1>8. Calm(h) => c <= Read(d.store).secret /\ (c # NoSecret => Working <= c)
  <2> SUFFICES ASSUME Calm(h) PROVE c <= Read(d.store).secret /\ (c # NoSecret => Working <= c)
    OBVIOUS
  <2>1. Stored <= Read(d.store).secret  BY DEF Kept
  <2>2. c <= Stored  BY <1>1 DEF Ready, SecretsAge
  <2>3. c # NoSecret => Working = c  BY <1>1 DEF Working
  <2> QED  BY <2>1, <2>2, <2>3, <1>4, <1>5, <1>7
<1>9. Goes(h, d, e)  BY <1>1, <1>6, <1>8 DEF Goes
<1> QED  BY <1>1, <1>2, <1>3, <1>9, Finishes DEF Ask, AskCall

(* It enrolls without a secret.                                             *)
LEMMA AsksFresh ==
  ASSUME NEW h, Ready(h), NEW p \in Process, NEW d \in Disks(Known), NEW m, MemoryFits(m), Kept(h, d),
         NEW op \in Operation, NEW k \in Ticket, Ask(p, d, m, op, "enroll", NoSecret, k)
  PROVE  ClientStep(h)
<1>1. PICK e : e = AskCall(p, op, "enroll", NoSecret, k)  OBVIOUS
<1>2. Types /\ HeldSupersedes  BY DEF Ready
<1>3. Known \in Nat  BY <1>2, KnownIsNat
<1>4. NoSecret \in 0 .. Known /\ "enroll" \in Asked  BY <1>3 DEF NoSecret, Asked
<1>5. CallFits(Known, e) /\ ~Granted(e) /\ e.secret = NoSecret /\ e.at = "enroll"
  BY <1>1, <1>3, <1>4, AskCallFits
<1>6. Read(d.store).secret \in 0 .. Known  BY <1>3, DiskFields, ReadIs
<1>7. Goes(h, d, e)  BY <1>3, <1>5, <1>6 DEF Goes, NoSecret
<1> QED  BY <1>1, <1>2, <1>7, Finishes DEF Ask, AskCall

----------------------------------------------------------------------------
(* Enrollment.                                                             *)

LEMMA RedeemStep ==
  ASSUME NEW h, Ready(h), NEW p \in Process, NEW d \in Disks(Known), NEW m, MemoryFits(m), Kept(h, d),
         NEW c, NEW left \in SUBSET Ticket, NEW at,
         \/ at = "classify" /\ c = Read(d.store).secret /\ c # NoSecret
         \/ at = "enroll" /\ c = NoSecret,
         Redeem(p, d, m, c, left, at)
  PROVE  ClientStep(h) /\ files' \subseteq Ticket
<1>1. Types /\ HeldSupersedes  BY DEF Ready
<1>2. files' \subseteq Ticket  BY <1>1, KnownIsNat DEF Redeem
<1>3. "initialize" \in Operation /\ "classify" \in Asked  BY DEF Operation, Asked
<1>4. CASE left \ m.refused = {}
  BY <1>1, <1>2, <1>4, Returns DEF Redeem
<1>5. CASE left \ m.refused # {}
  <2>1. PICK k \in left \ m.refused : Ask(p, d, m, "initialize", at, c, k)  BY <1>5 DEF Redeem
  <2>2. k \in Ticket  BY <2>1
  <2>3. CASE at = "classify" /\ c = Read(d.store).secret /\ c # NoSecret
    BY <2>1, <2>2, <2>3, <1>2, <1>3, AsksWithStored
  <2>4. CASE at = "enroll" /\ c = NoSecret
    BY <2>1, <2>2, <2>4, <1>2, <1>3, AsksFresh
  <2> QED  BY <2>3, <2>4
<1> QED  BY <1>4, <1>5

LEMMA ClassifyStep ==
  ASSUME NEW h, Ready(h), NEW p \in Process, NEW d \in Disks(Known), d.how = "ok", Kept(h, d),
         Classify(p, d)
  PROVE  ClientStep(h) /\ files' \subseteq Ticket
<1>1. Types /\ HeldSupersedes  BY DEF Ready
<1>2. PICK r : r = Read(d.store)  OBVIOUS
<1>3. Known \in Nat /\ d.store \in Stores(Known) /\ files \subseteq Ticket
  BY <1>1, KnownIsNat, DiskFields
<1>4. /\ r.secret \in 0 .. Known /\ r.status \in {"ok", "missing", "unreadable"}
      /\ r.status = "ok" <=> r.secret # NoSecret
  BY <1>2, <1>3, ReadIs
<1>5. PICK m : m = memory[p]  OBVIOUS
<1>6. /\ MemoryFits(m) /\ MemoryFits(MarkLocalRegistered(m)) /\ MemoryFits(InState(m, "damaged"))
  BY ZenonT(40), <1>1, <1>5, OwnMemory, MemoryChanges
<1>7. CASE r.status = "ok"
  <2>1. PICK w \in IF r.recovered THEN Write(d, r.secret) ELSE {d} :
           Redeem(p, Caught(w), MarkLocalRegistered(m), r.secret, files \ {TicketOf(r.secret)}, "classify")
    BY <1>2, <1>5, <1>7 DEF Classify
  <2>2. r.secret \in 1 .. Known  BY <1>3, <1>4, <1>7 DEF NoSecret
  <2>3. w \in Disks(Known) /\ Read(w.store).secret = r.secret
    <3>1. CASE r.recovered
      <4>1. w \in Write(d, r.secret)  BY <2>1, <3>1
      <4>2. w \in Disks(Known) /\ Read(w.store).secret \in {r.secret, r.secret}
        BY <4>1, <2>2, <1>2, <1>3, Writes
      <4> QED  BY <4>2
    <3>2. CASE ~r.recovered  BY <2>1, <3>2, <1>2
    <3> QED  BY <3>1, <3>2
  <2>4. PICK e : e = Caught(w)  OBVIOUS
  <2>5. e \in Disks(Known) /\ Read(e.store).secret = r.secret  BY <2>3, <2>4, <1>3, CaughtDisk
  <2>6. Kept(h, e)  BY <2>5, <1>1, <1>2, KeptSame
  <2>7. PICK left \in SUBSET Ticket : left = files \ {TicketOf(r.secret)}  BY <1>3
  <2> QED  BY <2>1, <2>4, <2>5, <2>6, <2>7, <1>4, <1>6, <1>7, RedeemStep
<1>8. CASE r.status = "unreadable"
  <2>1. Redeem(p, d, InState(m, "damaged"), NoSecret, files, "enroll")
    BY <1>2, <1>5, <1>8 DEF Classify
  <2> QED  BY <2>1, <1>3, <1>6, RedeemStep
<1>9. CASE r.status = "missing"
  <2>1. Redeem(p, d, m, NoSecret, files, "enroll")
    BY <1>2, <1>5, <1>9 DEF Classify
  <2> QED  BY <2>1, <1>3, <1>6, RedeemStep
<1> QED  BY <1>4, <1>7, <1>8, <1>9

(* Storing a held secret: it is only older than what is there when that is   *)
(* noted as harm, and it replaces only secrets of devices that are gone.   *)
LEMMA HeldIsKept ==
  ASSUME NEW h, Ready(h), NEW g \in 1 .. Known, Superseded(db, g), "held" \notin h => Stored <= g,
         NEW d \in Disks(Known), Read(d.store).secret \in {Stored, g}
  PROVE  Kept(h, d)
<1>1. Types  BY DEF Ready
<1>2. Known \in Nat /\ Stored \in 0 .. Known /\ store \in Stores(Known) /\ d.store \in Stores(Known)
      /\ DOMAIN db.made = 1 .. Known
  BY <1>1, KnownIsNat, DiskFields
<1>3. Calm(h) => Stored <= Read(d.store).secret
  <2>1. Calm(h) => Stored <= g  BY DEF Calm
  <2> QED  BY <2>1, <1>2
<1>4. ASSUME h = {}, Usable(db, store) PROVE Usable(db, d.store)
  <2>1. Stored # NoSecret /\ Accepted(db, Stored)  BY <1>1, <1>2, <1>4, UsableIs DEF Stored
  <2>2. Active(db.device[db.made[Stored]])  BY <2>1 DEF Accepted
  <2>3. Stored \in DOMAIN db.made  BY <2>1, <1>2 DEF NoSecret
  <2>4. ~ (Stored < g)  BY <2>2, <2>3 DEF Superseded
  <2>5. Stored <= g  BY <1>4
  <2>6. Read(d.store).secret = Stored  BY <2>4, <2>5, <1>2
  <2> QED  BY <2>1, <2>6, <1>1, <1>2, UsableIs
<1> QED  BY <1>3, <1>4 DEF Kept

LEMMA InitializeStep ==
  ASSUME NEW p \in Process, Initialize(p), Ready(harm'), harm \subseteq harm'
  PROVE  ClientStep(harm') /\ files' \subseteq Ticket
<1>1. PICK h : h = harm'  OBVIOUS
<1>2. Types /\ HeldSupersedes /\ Ready(h) /\ call = NoCall  BY <1>1 DEF Ready, Initialize
<1>3. /\ Known \in Nat /\ Stored \in 0 .. Known /\ store \in Stores(Known) /\ files \subseteq Ticket
  BY <1>2, KnownIsNat
<1>4. Disk \in Disks(Known) /\ Disk.store = store /\ Disk.how = "ok" /\ Kept(h, Disk)
  BY <1>2, KeptDisk
<1>5. PICK m : m = memory[p]  OBVIOUS
<1>6. MemoryFits(m)  BY <1>2, <1>5, OwnMemory
<1>7. CASE m.held = NoSecret
  <2>1. Classify(p, Disk)  BY <1>5, <1>7 DEF Initialize
  <2> QED  BY <2>1, <1>1, <1>2, <1>4, ClassifyStep
<1>8. CASE m.held # NoSecret
  <2>1. PICK g : g = m.held  OBVIOUS
  <2>2. g \in 1 .. Known /\ Superseded(db, g)
    <3>1. g \in 0 .. Known /\ Superseded(db, g)  BY <2>1, <1>6 DEF MemoryFits, Memory
    <3> QED  BY <3>1, <2>1, <1>3, <1>8 DEF NoSecret
  <2>3. h = harm \cup (IF Stored > g THEN {"held"} ELSE {})
    BY <1>1, <1>5, <1>8, <2>1 DEF Initialize, Stored
  <2>4. "held" \notin h => Stored <= g  BY <2>2, <2>3, <1>3
  <2>5. PICK d \in Write(Disk, g) :
          IF d.how = "failed" THEN Classify(p, Caught(d))
          ELSE /\ files' = IF d.how = "died" THEN files ELSE files \ {TicketOf(g)}
               /\ Return(p, d, [InState(m, "open") EXCEPT !.held = NoSecret])
    BY <1>5, <1>8, <2>1 DEF Initialize
  <2>6. d \in Disks(Known) /\ Read(d.store).secret \in {Stored, g}
    BY <2>2, <2>5, <1>3, <1>4, Writes DEF Stored
  <2>7. Kept(h, d)  BY <1>2, <2>2, <2>4, <2>6, HeldIsKept
  <2>8. CASE d.how = "failed"
    <3>1. PICK e : e = Caught(d)  OBVIOUS
    <3>2. e \in Disks(Known) /\ e.store = d.store /\ e.how = "ok"  BY <3>1, <2>6, <2>8, <1>3, CaughtDisk
    <3>3. Kept(h, e)  BY <3>2, <2>6, <2>7, <1>2, KeptSame
    <3>4. Classify(p, e)  BY <3>1, <2>5, <2>8
    <3> QED  BY <3>2, <3>3, <3>4, <1>1, <1>2, ClassifyStep
  <2>9. CASE d.how # "failed"
    <3>1. PICK x : x = [InState(m, "open") EXCEPT !.held = NoSecret]  OBVIOUS
    <3>2. MemoryFits(x)
      <4>1. MemoryFits(InState(m, "open"))  BY ZenonT(40), <1>2, <1>6, MemoryChanges
      <4> QED  BY ZenonT(40), <4>1, <3>1, <1>2, MemoryChanges
    <3>3. Return(p, d, x) /\ files' \subseteq Ticket  BY <3>1, <2>5, <2>9, <1>3
    <3> QED  BY <3>2, <3>3, <2>6, <2>7, <1>1, <1>2, Returns
  <2> QED  BY <2>8, <2>9
<1> QED  BY <1>7, <1>8

LEMMA EnrollTicketStep ==
  ASSUME NEW p \in Process, NEW k \in Ticket, EnrollTicket(p, k), Ready(harm)
  PROVE  ClientStep(harm) /\ files' = files
<1>1. Types /\ HeldSupersedes  BY DEF Ready
<1>2. Disk \in Disks(Known) /\ Disk.store = store /\ Kept(harm, Disk)  BY <1>1, KeptDisk
<1>3. PICK m : m = memory[p]  OBVIOUS
<1>4. MemoryFits(m) /\ MemoryFits(MarkLocalRegistered(m)) /\ MemoryFits(InState(m, "damaged"))
  BY ZenonT(40), <1>1, <1>3, OwnMemory, MemoryChanges
<1>5. PICK status : status = Read(store).status  OBVIOUS
<1>6. IF status = "missing" THEN Ask(p, Disk, m, "link", "enroll", NoSecret, k)
      ELSE Return(p, Disk, IF status = "ok" THEN MarkLocalRegistered(m) ELSE InState(m, "damaged"))
  BY <1>3, <1>5 DEF EnrollTicket
<1>7. "link" \in Operation  BY DEF Operation
<1>8. CASE status = "missing"
  BY <1>2, <1>4, <1>6, <1>7, <1>8, AsksFresh DEF EnrollTicket, FilesUnchanged
<1>9. CASE status = "ok"
  BY <1>1, <1>2, <1>4, <1>6, <1>9, Returns DEF EnrollTicket, FilesUnchanged
<1>10. CASE status \notin {"missing", "ok"}
  BY <1>1, <1>2, <1>4, <1>6, <1>10, Returns DEF EnrollTicket, FilesUnchanged
<1> QED  BY <1>8, <1>9, <1>10

LEMMA CallFields ==
  ASSUME Types, call # NoCall
  PROVE  /\ call.by \in Process /\ call.op \in Operation /\ call.at \in Asked
         /\ call.secret \in 0 .. Known /\ call.granted \in 0 .. Known
         /\ call.ticket \in Ticket \cup {NoTicket} /\ call.answer \in Answer
         /\ call.at \in {"classify", "enroll"} => call.ticket \in Ticket
         /\ call.at # "enroll" => call.secret # NoSecret
         /\ Granted(call) => call.granted # NoSecret
         /\ call \in Calls(Known)
BY KnownIsNat DEF CallFits, Calls

LEMMA ClassifiedStep ==
  ASSUME NEW p \in Process, NEW m, MemoryFits(m), Classified(p, m), call # NoCall,
         call.at = "classify", Ready(harm)
  PROVE  ClientStep(harm) /\ files' = files
<1>1. Types /\ HeldSupersedes  BY DEF Ready
<1>2. Disk \in Disks(Known) /\ Kept(harm, Disk)  BY <1>1, KeptDisk
<1>3. files' = files  BY DEF Classified, FilesUnchanged
<1>4. CASE call.answer = "none"
  <2>1. Return(p, Disk, InState(m, "open"))  BY <1>4 DEF Classified
  <2> QED  BY ZenonT(40), <2>1, <1>1, <1>2, <1>3, MemoryChanges, Returns
<1>5. CASE call.answer \in {"active", "rotate", "account_unavailable"}
  <2>1. Return(p, Disk, ApplyServerState(m, call.answer))  BY <1>5 DEF Classified
  <2> QED  BY ZenonT(40), <2>1, <1>1, <1>2, <1>3, MemoryChanges, Returns
<1>6. CASE call.answer \notin {"none", "active", "rotate", "account_unavailable"}
  <2>1. Ask(p, Disk, m, call.op, "enroll", call.secret, call.ticket)  BY <1>6 DEF Classified
  <2>2. call.op \in Operation /\ call.ticket \in Ticket /\ "enroll" \in Asked
    BY <1>1, CallFields DEF Asked
  <2>3. ~ ("enroll" \in {"probe", "rotate"})  OBVIOUS
  <2> QED  BY <2>1, <2>2, <2>3, <1>2, <1>3, AsksAgain
<1> QED  BY <1>4, <1>5, <1>6

(* The secret of an enrollment replaces those of devices that are gone.     *)
LEMMA EnrolledStep ==
  ASSUME NEW p \in Process, NEW m, MemoryFits(m), Enrolled(p, m), call # NoCall,
         call.at = "enroll", Ready(harm)
  PROVE  ClientStep(harm) /\ files' \subseteq Ticket
<1>1. Types /\ HeldSupersedes  BY DEF Ready
<1>2. Disk \in Disks(Known) /\ Kept(harm, Disk) /\ Disk.store = store /\ Disk.how = "ok"
  BY <1>1, KeptDisk
<1>3. Known \in Nat /\ files \subseteq Ticket  BY <1>1, KnownIsNat
<1>4. PICK x : x = InState(m, "open")  OBVIOUS
<1>5. MemoryFits(x)  BY ZenonT(40), <1>1, <1>4, MemoryChanges
<1>6. CASE call.answer = "none"
  <2>1. Return(p, Disk, x) /\ files' = files  BY <1>4, <1>6 DEF Enrolled, FilesUnchanged
  <2> QED  BY <2>1, <1>1, <1>2, <1>3, <1>5, Returns
<1>7. CASE call.answer = "ok"
  <2>1. PICK g : g = call.granted  OBVIOUS
  <2>2. Granted(call)  BY <1>7 DEF Granted
  <2>3. g \in 1 .. Known
    <3>1. g \in 0 .. Known /\ g # NoSecret  BY <2>1, <2>2, <1>1, CallFields
    <3> QED  BY <3>1, <1>3 DEF NoSecret
  <2>4. Superseded(db, g)  BY <2>1, <2>2, <1>1 DEF HeldSupersedes
  <2>5. PICK d \in Write(Disk, g) :
          /\ files' = IF d.how = "ok" THEN files \ {call.ticket} ELSE files
          /\ Return(p, Caught(d), IF d.how = "failed" THEN [x EXCEPT !.held = g] ELSE x)
    BY <1>4, <1>7, <2>1 DEF Enrolled
  <2>6. d \in Disks(Known) /\ Read(d.store).secret \in {Stored, g}
    BY <2>3, <2>5, <1>2, <1>3, Writes DEF Stored
  <2>7. PICK e : e = Caught(d)  OBVIOUS
  <2>8. e \in Disks(Known) /\ Read(e.store).secret \in {Stored, g}
    BY <2>6, <2>7, <1>3, CaughtDisk
  <2>9. Stored \in 0 .. Known /\ store \in Stores(Known) /\ DOMAIN db.made = 1 .. Known
    BY <1>1, KnownIsNat
  <2>10. Kept(harm, e)
    <3>1. ASSUME Calm(harm) PROVE Stored <= Read(e.store).secret
      <4>1. Stored < g  BY <3>1, <2>1, <2>2 DEF Ready, SecretsAge
      <4> QED  BY <4>1, <2>3, <2>8, <2>9
    <3>2. ASSUME harm = {}, Usable(db, store) PROVE FALSE
      <4>1. Stored # NoSecret /\ Accepted(db, Stored)  BY <3>2, <1>1, <2>9, UsableIs DEF Stored
      <4>2. Active(db.device[db.made[Stored]])  BY <4>1 DEF Accepted
      <4>3. Stored \in DOMAIN db.made  BY <4>1, <2>9, <1>3 DEF NoSecret
      <4>4. Calm(harm)  BY <3>2 DEF Calm
      <4>5. Stored < g  BY <4>4, <2>1, <2>2 DEF Ready, SecretsAge
      <4> QED  BY <4>2, <4>3, <4>5, <2>4 DEF Superseded
    <3> QED  BY <3>1, <3>2 DEF Kept
  <2>11. PICK y : y = IF d.how = "failed" THEN [x EXCEPT !.held = g] ELSE x  BY ZenonT(40)
  <2>12. MemoryFits(y)
    <3>1. g \in 0 .. Known  BY <2>3, <1>3
    <3>2. MemoryFits([x EXCEPT !.held = g])  BY ZenonT(40), <3>1, <2>4, <1>1, <1>5, MemoryChanges
    <3> QED  BY <3>2, <1>5, <2>11
  <2>13. Return(p, e, y)  BY <2>5, <2>7, <2>11
  <2>14. files' \subseteq Ticket  BY <2>5, <1>3
  <2> QED  BY <2>8, <2>10, <2>12, <2>13, <2>14, <1>1, Returns
<1>8. CASE call.answer \in {"consumed", "lapsed"}
  <2>1. Return(p, Disk, x) /\ files' = files \ {call.ticket}  BY <1>4, <1>8 DEF Enrolled
  <2> QED  BY <2>1, <1>1, <1>2, <1>3, <1>5, Returns
<1>9. CASE call.answer \notin {"none", "ok", "consumed", "lapsed"}
  <2>1. Return(p, Disk, [x EXCEPT !.refused = @ \cup {call.ticket}]) /\ files' = files
    BY <1>4, <1>9 DEF Enrolled, FilesUnchanged
  <2>2. PICK k \in Ticket : k = call.ticket  BY SMTT(40), <1>1, CallFields
  <2>3. MemoryFits([x EXCEPT !.refused = @ \cup {k}])  BY ZenonT(40), <1>1, <1>5, MemoryChanges
  <2> QED  BY <2>1, <2>2, <2>3, <1>1, <1>2, <1>3, Returns
<1> QED  BY <1>6, <1>7, <1>8, <1>9
----------------------------------------------------------------------------
(* Sync.                                                                   *)

LEMMA UploadStored ==
  ASSUME NEW h, Ready(h), NEW p \in Process, NEW d \in Disks(Known), NEW m, MemoryFits(m), Kept(h, d),
         NEW op \in Operation, NEW c, c = Read(d.store).secret, c # NoSecret, Upload(p, d, m, op, c)
  PROVE  ClientStep(h)
<1>1. "ingest" \in Asked /\ "ingest" \notin {"classify", "enroll"}  BY DEF Asked
<1>2. CASE op = "check"  BY <1>2, Returns DEF Upload, Ready
<1>3. CASE op # "check"
  <2>1. Ask(p, d, m, op, "ingest", c, NoTicket)  BY <1>3 DEF Upload
  <2>2. NoTicket \in Ticket \cup {NoTicket}  OBVIOUS
  <2> QED  BY <2>1, <2>2, <1>1, AsksWithStored
<1> QED  BY <1>2, <1>3

LEMMA UploadAgain ==
  ASSUME NEW h, Ready(h), NEW p \in Process, NEW d \in Disks(Known), NEW m, MemoryFits(m), Kept(h, d),
         NEW op \in Operation, call.secret # NoSecret, Upload(p, d, m, op, call.secret)
  PROVE  ClientStep(h)
<1>1. "ingest" \in Asked /\ "ingest" \notin {"classify", "enroll", "probe", "rotate"}  BY DEF Asked
<1>2. CASE op = "check"  BY <1>2, Returns DEF Upload, Ready
<1>3. CASE op # "check"
  <2>1. Ask(p, d, m, op, "ingest", call.secret, NoTicket)  BY <1>3 DEF Upload
  <2>2. NoTicket \in Ticket \cup {NoTicket}  OBVIOUS
  <2> QED  BY <2>1, <2>2, <1>1, AsksAgain
<1> QED  BY <1>2, <1>3

LEMMA RotateStored ==
  ASSUME NEW h, Ready(h), NEW p \in Process, NEW d \in Disks(Known), NEW m, MemoryFits(m), Kept(h, d),
         NEW op \in Operation, NEW c, c = Read(d.store).secret, c # NoSecret,
         RotateIfAsked(p, d, m, op, c)
  PROVE  ClientStep(h)
<1>1. "rotate" \in Asked /\ "rotate" \notin {"classify", "enroll"}  BY DEF Asked
<1>2. NoTicket \in Ticket \cup {NoTicket}  OBVIOUS
<1>3. CASE m.due
  <2>1. Ask(p, d, m, op, "rotate", c, NoTicket)  BY <1>3 DEF RotateIfAsked
  <2> QED  BY <2>1, <1>1, <1>2, AsksWithStored
<1>4. CASE ~m.due  BY <1>4, UploadStored DEF RotateIfAsked
<1> QED  BY <1>3, <1>4

LEMMA RotateAgain ==
  ASSUME NEW h, Ready(h), NEW p \in Process, NEW d \in Disks(Known), NEW m, MemoryFits(m), Kept(h, d),
         NEW op \in Operation, call.secret # NoSecret, h = {} => call.secret = Read(d.store).secret,
         RotateIfAsked(p, d, m, op, call.secret)
  PROVE  ClientStep(h)
<1>1. "rotate" \in Asked /\ "rotate" \notin {"classify", "enroll"}  BY DEF Asked
<1>2. NoTicket \in Ticket \cup {NoTicket}  OBVIOUS
<1>3. CASE m.due
  <2>1. Ask(p, d, m, op, "rotate", call.secret, NoTicket)  BY <1>3 DEF RotateIfAsked
  <2> QED  BY <2>1, <1>1, <1>2, AsksAgain
<1>4. CASE ~m.due  BY <1>4, UploadAgain DEF RotateIfAsked
<1> QED  BY <1>3, <1>4

LEMMA SyncNowStep ==
  ASSUME NEW p \in Process, NEW op \in {"check", "run"}, SyncNow(p, op), Ready(harm)
  PROVE  ClientStep(harm) /\ files' = files
<1>1. Types /\ HeldSupersedes /\ op \in Operation  BY DEF Ready, Operation
<1>2. Disk \in Disks(Known) /\ Disk.store = store /\ Kept(harm, Disk)  BY <1>1, KeptDisk
<1>3. files' = files  BY DEF SyncNow, FilesUnchanged
<1>4. PICK status, c : status = Read(store).status /\ c = Read(store).secret  OBVIOUS
<1>5. status = "ok" => c # NoSecret  BY ZenonT(40), <1>1, <1>4, KnownIsNat, ReadIs
<1>6. PICK x : x = memory[p]  OBVIOUS
<1>7. PICK m : m = IF op = "run" THEN MarkLocalRegistered(x) ELSE x  OBVIOUS
<1>8. MemoryFits(x) /\ MemoryFits(InState(x, "damaged")) /\ MemoryFits(m)
  BY ZenonT(40), <1>1, <1>6, <1>7, OwnMemory, MemoryChanges
<1>9. CASE status = "missing"
  <2>1. Return(p, Disk, x)  BY <1>4, <1>6, <1>9 DEF SyncNow
  <2> QED  BY <2>1, <1>1, <1>2, <1>3, <1>8, Returns
<1>10. CASE status = "unreadable"
  <2>1. Return(p, Disk, InState(x, "damaged"))  BY <1>4, <1>6, <1>10 DEF SyncNow
  <2> QED  BY <2>1, <1>1, <1>2, <1>3, <1>8, Returns
<1>11. CASE status = "ok" /\ op = "run" /\ m.state \in {"revoked", "damaged"}
  <2>1. Return(p, Disk, m)  BY <1>4, <1>6, <1>7, <1>11 DEF SyncNow
  <2> QED  BY <2>1, <1>1, <1>2, <1>3, <1>8, Returns
<1>12. CASE status = "ok" /\ ~ (op = "run" /\ m.state \in {"revoked", "damaged"})
  <2>1. Prepare(p, Disk, m, op, c)  BY <1>4, <1>6, <1>7, <1>12 DEF SyncNow
  <2>2. c = Read(Disk.store).secret /\ c # NoSecret  BY <1>2, <1>4, <1>5, <1>12
  <2>3. CASE m.checked
    <3>1. RotateIfAsked(p, Disk, m, op, c)  BY <2>1, <2>3 DEF Prepare
    <3> QED  BY <3>1, <2>2, <1>1, <1>2, <1>3, <1>8, RotateStored
  <2>4. CASE ~m.checked
    <3>1. Ask(p, Disk, m, op, "probe", c, NoTicket)  BY <2>1, <2>4 DEF Prepare
    <3>2. "probe" \in Asked /\ "probe" \notin {"classify", "enroll"}  BY DEF Asked
    <3>3. NoTicket \in Ticket \cup {NoTicket}  OBVIOUS
    <3> QED  BY <3>1, <3>2, <3>3, <2>2, <1>1, <1>2, <1>3, <1>8, AsksWithStored
  <2> QED  BY <2>3, <2>4
<1>13. status \in {"ok", "missing", "unreadable"}  BY <1>1, <1>4, KnownIsNat, ReadIs
<1> QED  BY <1>9, <1>10, <1>11, <1>12, <1>13

(* What a call in the middle of a sync may use.                             *)
LEMMA SyncCall ==
  ASSUME Ready(harm), call # NoCall, call.at # "enroll"
  PROVE  /\ Types /\ HeldSupersedes
         /\ Disk \in Disks(Known) /\ Disk.store = store /\ Disk.how = "ok" /\ Kept(harm, Disk)
         /\ call.secret # NoSecret /\ call.op \in Operation
         /\ harm = {} /\ call.at \in {"probe", "rotate"} => call.secret = Stored
BY KeptDisk, CallFields DEF Ready, RotationFits

LEMMA RefusedStep ==
  ASSUME NEW p \in Process, NEW m, MemoryFits(m), NEW answer, Refused(p, m, answer),
         call # NoCall, call.at # "enroll", Ready(harm)
  PROVE  ClientStep(harm)
<1>0. /\ Types /\ HeldSupersedes /\ call.secret # NoSecret /\ call.op \in Operation
      /\ Disk \in Disks(Known) /\ Disk.store = store /\ Disk.how = "ok" /\ Kept(harm, Disk)
  BY SyncCall
<1>1. CASE answer = "stale"
  <2>1. PICK n : n = IF m.strikes < StaleLimit THEN m.strikes + 1 ELSE StaleLimit  OBVIOUS
  <2>2. PICK s : s = IF n = StaleLimit THEN "damaged" ELSE m.state  OBVIOUS
  <2>3. m.strikes \in 0 .. StaleLimit /\ m.state \in {"open", "revoked", "damaged"}
    BY DEF MemoryFits, Memory
  <2>4. n \in 0 .. StaleLimit  BY <2>1, <2>3 DEF StaleLimit
  <2>5. s \in {"open", "revoked", "damaged"}  BY <2>2, <2>3
  <2>6. PICK x : x = [m EXCEPT !.strikes = n, !.state = s]  OBVIOUS
  <2>7. MemoryFits(x)  BY ZenonT(40), <2>4, <2>5, <2>6, <1>0, MemoryChanges
  <2>8. Return(p, Disk, x)  BY <1>1, <2>1, <2>2, <2>6 DEF Refused
  <2> QED  BY <2>7, <2>8, <1>0, Returns
<1>2. CASE answer = "unknown"
  <2>1. PICK x : x = [m EXCEPT !.checked = FALSE]  OBVIOUS
  <2>2. MemoryFits(x)  BY ZenonT(40), <2>1, <1>0, MemoryChanges
  <2>3. Ask(p, Disk, x, call.op, "reprobe", call.secret, NoTicket)  BY <1>2, <2>1 DEF Refused
  <2>4. "reprobe" \in Asked /\ "reprobe" \notin {"classify", "enroll", "probe", "rotate"}  BY DEF Asked
  <2>5. NoTicket \in Ticket \cup {NoTicket}  OBVIOUS
  <2> QED  BY <2>2, <2>3, <2>4, <2>5, <1>0, AsksAgain
<1>3. CASE answer \notin {"stale", "unknown"}
  <2>1. Return(p, Disk, ApplyServerState(m, answer))  BY <1>3 DEF Refused
  <2>2. MemoryFits(ApplyServerState(m, answer))  BY ZenonT(40), <1>0, MemoryChanges
  <2> QED  BY <2>1, <2>2, <1>0, Returns
<1> QED  BY <1>1, <1>2, <1>3

LEMMA ProbedStep ==
  ASSUME NEW p \in Process, NEW m, MemoryFits(m), Probed(p, m),
         call # NoCall, call.at = "probe", Ready(harm)
  PROVE  ClientStep(harm)
<1>0. /\ Types /\ HeldSupersedes /\ call.secret # NoSecret /\ call.op \in Operation
      /\ Disk \in Disks(Known) /\ Disk.store = store /\ Disk.how = "ok" /\ Kept(harm, Disk)
  BY SyncCall
<1>1. PICK known : known = ApplyServerState(m, call.answer)  OBVIOUS
<1>2. MemoryFits(known)  BY ZenonT(40), <1>1, <1>0, MemoryChanges
<1>3. CASE call.answer = "none"
  <2>1. Return(p, Disk, m)  BY <1>3 DEF Probed
  <2> QED  BY <2>1, <1>0, Returns
<1>4. CASE call.answer \in {"active", "rotate"}
  <2>1. PICK due \in BOOLEAN : due = (call.answer = "rotate")  OBVIOUS
  <2>2. PICK x : x = [known EXCEPT !.checked = TRUE, !.due = due]  OBVIOUS
  <2>3. MemoryFits(x)  BY ZenonT(40), <2>2, <1>2, <1>0, MemoryChanges
  <2>4. RotateIfAsked(p, Disk, x, call.op, call.secret)
    BY <1>1, <1>4, <2>1, <2>2 DEF Probed
  <2>5. harm = {} => call.secret = Read(Disk.store).secret  BY SyncCall DEF Stored
  <2> QED  BY <2>3, <2>4, <2>5, <1>0, RotateAgain
<1>5. CASE call.answer \notin {"none", "active", "rotate"}
  <2>1. Return(p, Disk, known)  BY <1>1, <1>5 DEF Probed
  <2> QED  BY <2>1, <1>2, <1>0, Returns
<1> QED  BY <1>3, <1>4, <1>5

(* What a rotation grants takes the place of the secret that asked for it.  *)
LEMMA GrantIsKept ==
  ASSUME NEW h, Ready(h), call # NoCall, call.at = "rotate", Granted(call),
         NEW d \in Disks(Known), Read(d.store).secret \in {Stored, call.granted}
  PROVE  Kept(h, d)
<1>1. Types  BY DEF Ready
<1>2. PICK g : g = call.granted  OBVIOUS
<1>3. g \in 0 .. Known /\ g # NoSecret  BY <1>1, <1>2, CallFields
<1>4. /\ Known \in Nat /\ Stored \in 0 .. Known /\ store \in Stores(Known) /\ d.store \in Stores(Known)
  BY <1>1, KnownIsNat, DiskFields
<1>5. Calm(h) => Stored <= Read(d.store).secret
  <2>1. Calm(h) => Stored < g  BY <1>2 DEF Ready, SecretsAge
  <2> QED  BY <2>1, <1>2, <1>3, <1>4
<1>6. ASSUME h = {}, Usable(db, store) PROVE Usable(db, d.store)
  <2>1. CASE Read(d.store).secret = Stored  BY <2>1, <1>1, <1>4, <1>6, UsableIs DEF Stored
  <2>2. CASE Read(d.store).secret = g
    <3>1. Accepted(db, Stored)  BY <1>1, <1>4, <1>6, UsableIs DEF Stored
    <3>2. /\ call.secret = Stored /\ db.made[g] = db.made[call.secret]
          /\ Active(db.device[db.made[call.secret]]) => db.device[db.made[call.secret]].next = g
      BY <1>2, <1>6 DEF Ready, RotationFits
    <3>3. PICK row : row = db.device[db.made[Stored]]  OBVIOUS
    <3>4. Active(row)  BY <3>1, <3>3 DEF Accepted
    <3>5. row = db.device[db.made[g]] /\ row.next = g  BY <3>2, <3>3, <3>4
    <3>6. Accepted(db, g)  BY <3>4, <3>5 DEF Accepted
    <3> QED  BY <2>2, <3>6, <1>1, <1>3, <1>4, UsableIs
  <2> QED  BY <2>1, <2>2, <1>2
<1> QED  BY <1>5, <1>6 DEF Kept

LEMMA UploadCutShort ==
  ASSUME NEW h, Ready(h), NEW p \in Process, NEW d \in Disks(Known), d.how = "died",
         NEW m, MemoryFits(m), Kept(h, d), NEW op, NEW c, Upload(p, d, m, op, c)
  PROVE  ClientStep(h)
<1>1. Types /\ HeldSupersedes  BY DEF Ready
<1>2. CASE op = "check"  BY <1>1, <1>2, Returns DEF Upload
<1>3. CASE op # "check"
  <2>1. PICK e : e = AskCall(p, op, "ingest", c, NoTicket)  OBVIOUS
  <2>2. Finish(p, d, m, e)  BY <1>3, <2>1 DEF Upload, Ask, AskCall
  <2> QED  BY <2>2, <1>1, Finishes
<1> QED  BY <1>2, <1>3

LEMMA RotatedStep ==
  ASSUME NEW p \in Process, NEW m, MemoryFits(m), Rotated(p, m),
         call # NoCall, call.at = "rotate", Ready(harm)
  PROVE  ClientStep(harm)
<1>0. /\ Types /\ HeldSupersedes /\ call.secret # NoSecret /\ call.op \in Operation
      /\ Disk \in Disks(Known) /\ Disk.store = store /\ Disk.how = "ok" /\ Kept(harm, Disk)
  BY SyncCall
<1>1. CASE call.answer = "none"
  <2>1. Upload(p, Disk, m, call.op, call.secret)  BY <1>1 DEF Rotated
  <2> QED  BY <2>1, <1>0, UploadAgain
<1>2. CASE call.answer = "ok"
  <2>1. Granted(call)  BY <1>2 DEF Granted
  <2>2. PICK g : g = call.granted  OBVIOUS
  <2>3. Types /\ Known \in Nat  BY <1>0, KnownIsNat
  <2>4. g \in 1 .. Known
    <3>1. g \in 0 .. Known /\ g # NoSecret  BY <2>1, <2>2, <2>3, CallFields
    <3> QED  BY <3>1, <2>3 DEF NoSecret
  <2>5. PICK d \in Write(Disk, g) :
          IF d.how = "failed" THEN Upload(p, Caught(d), m, call.op, call.secret)
          ELSE Upload(p, d, [m EXCEPT !.due = FALSE], call.op, g)
    BY ZenonT(40), <1>2, <2>2 DEF Rotated
  <2>6. /\ d \in Disks(Known) /\ Read(d.store).secret \in {Stored, g}
        /\ d.how = "ok" => Read(d.store).secret = g
    BY <2>3, <2>4, <2>5, <1>0, Writes DEF Stored
  <2>7. Kept(harm, d)  BY <2>1, <2>2, <2>6, GrantIsKept
  <2>8. MemoryFits([m EXCEPT !.due = FALSE])  BY ZenonT(40), <2>3, MemoryChanges
  <2>9. CASE d.how = "failed"
    <3>1. PICK e : e = Caught(d)  OBVIOUS
    <3>2. e \in Disks(Known) /\ e.store = d.store  BY <3>1, <2>3, <2>6, CaughtDisk
    <3>3. Kept(harm, e)  BY <3>2, <2>3, <2>6, <2>7, KeptSame
    <3>4. Upload(p, e, m, call.op, call.secret)  BY <3>1, <2>5, <2>9
    <3> QED  BY <3>2, <3>3, <3>4, <1>0, UploadAgain
  <2>10. CASE d.how = "died"
    <3>1. Upload(p, d, [m EXCEPT !.due = FALSE], call.op, g)  BY <2>5, <2>10
    <3> QED  BY <3>1, <2>6, <2>7, <2>8, <2>10, UploadCutShort
  <2>11. CASE d.how = "ok"
    <3>1. Upload(p, d, [m EXCEPT !.due = FALSE], call.op, g)  BY <2>5, <2>11
    <3>2. g = Read(d.store).secret /\ g # NoSecret  BY <2>4, <2>6, <2>11 DEF NoSecret
    <3> QED  BY <3>1, <3>2, <2>6, <2>7, <2>8, <1>0, UploadStored
  <2> QED  BY <2>6, <2>9, <2>10, <2>11, DiskFields, <2>3
<1>3. CASE call.answer \notin {"none", "ok"}
  <2>1. Refused(p, m, call.answer)  BY <1>3 DEF Rotated
  <2> QED  BY <2>1, RefusedStep
<1> QED  BY <1>1, <1>2, <1>3

LEMMA IngestedStep ==
  ASSUME NEW p \in Process, NEW m, MemoryFits(m), Ingested(p, m),
         call # NoCall, call.at = "ingest", Ready(harm)
  PROVE  ClientStep(harm)
<1>0. /\ Types /\ HeldSupersedes /\ call.secret # NoSecret /\ call.op \in Operation
      /\ Disk \in Disks(Known) /\ Disk.store = store /\ Disk.how = "ok" /\ Kept(harm, Disk)
  BY SyncCall
<1>1. CASE call.answer = "none"
  <2>1. Return(p, Disk, m)  BY <1>1 DEF Ingested
  <2> QED  BY <2>1, <1>0, Returns
<1>2. CASE call.answer = "ok"
  <2>1. PICK x : x = InState(m, "open")  OBVIOUS
  <2>2. MemoryFits(x)  BY ZenonT(40), <2>1, <1>0, MemoryChanges
  <2>3. MemoryFits([x EXCEPT !.strikes = 0])  BY ZenonT(40), <2>2, <1>0, MemoryChanges
  <2>4. Return(p, Disk, [x EXCEPT !.strikes = 0])  BY <1>2, <2>1 DEF Ingested
  <2> QED  BY <2>3, <2>4, <1>0, Returns
<1>3. CASE call.answer \notin {"none", "ok"}
  <2>1. Refused(p, m, call.answer)  BY <1>3 DEF Ingested
  <2> QED  BY <2>1, RefusedStep
<1> QED  BY <1>1, <1>2, <1>3

LEMMA ReprobedStep ==
  ASSUME NEW p \in Process, NEW m, MemoryFits(m), Reprobed(p, m),
         call # NoCall, call.at = "reprobe", Ready(harm)
  PROVE  ClientStep(harm)
<1>0. /\ Types /\ HeldSupersedes /\ call.secret # NoSecret /\ call.op \in Operation
      /\ Disk \in Disks(Known) /\ Disk.store = store /\ Disk.how = "ok" /\ Kept(harm, Disk)
  BY SyncCall
<1>1. \E x : MemoryFits(x) /\ Return(p, Disk, x)
  <2>1. MemoryFits(InState(m, "damaged")) /\ MemoryFits(ApplyServerState(m, call.answer))
    BY ZenonT(40), <1>0, MemoryChanges
  <2>2. CASE call.answer = "none"  BY <2>2 DEF Reprobed
  <2>3. CASE call.answer \in {"active", "rotate"}  BY <2>1, <2>3 DEF Reprobed
  <2>4. CASE call.answer \notin {"none", "active", "rotate"}  BY <2>1, <2>4 DEF Reprobed
  <2> QED  BY <2>2, <2>3, <2>4
<1> QED  BY <1>1, <1>0, Returns

LEMMA ReceiveStep ==
  ASSUME NEW p \in Process, Receive(p), Ready(harm)
  PROVE  ClientStep(harm) /\ files' \subseteq Ticket
<1>1. Types /\ HeldSupersedes  BY DEF Ready
<1>2. call # NoCall  BY DeviceAssumption, NoCallFields DEF Receive
<1>3. call.at \in Asked /\ files \subseteq Ticket  BY <1>1, <1>2, CallFields, KnownIsNat
<1>4. PICK m : m = memory[p]  OBVIOUS
<1>5. MemoryFits(m)  BY <1>1, <1>4, OwnMemory
<1>6. CASE call.at = "classify"
  <2>1. Classified(p, m)  BY <1>4, <1>6 DEF Receive
  <2> QED  BY <2>1, <1>2, <1>3, <1>5, <1>6, ClassifiedStep
<1>7. CASE call.at = "enroll"
  <2>1. Enrolled(p, m)  BY <1>4, <1>7 DEF Receive
  <2> QED  BY <2>1, <1>2, <1>5, <1>7, EnrolledStep
<1>8. CASE call.at = "probe"
  <2>1. Probed(p, m) /\ files' = files  BY <1>4, <1>8 DEF Receive, FilesUnchanged
  <2> QED  BY <2>1, <1>2, <1>3, <1>5, <1>8, ProbedStep
<1>9. CASE call.at = "rotate"
  <2>1. Rotated(p, m) /\ files' = files  BY <1>4, <1>9 DEF Receive, FilesUnchanged
  <2> QED  BY <2>1, <1>2, <1>3, <1>5, <1>9, RotatedStep
<1>10. CASE call.at = "ingest"
  <2>1. Ingested(p, m) /\ files' = files  BY <1>4, <1>10 DEF Receive, FilesUnchanged
  <2> QED  BY <2>1, <1>2, <1>3, <1>5, <1>10, IngestedStep
<1>11. CASE call.at = "reprobe"
  <2>1. Reprobed(p, m) /\ files' = files  BY <1>4, <1>11 DEF Receive, FilesUnchanged
  <2> QED  BY <2>1, <1>2, <1>3, <1>5, <1>11, ReprobedStep
<1> QED  BY <1>3, <1>6, <1>7, <1>8, <1>9, <1>10, <1>11 DEF Asked
----------------------------------------------------------------------------
(* The invariant, step by step.                                            *)

LEMMA WorkingIs ==
  ASSUME Types
  PROVE  /\ call.secret \in 0 .. Known /\ Stored \in 0 .. Known /\ Working \in 0 .. Known
         /\ call.granted \in 0 .. Known
         /\ SecretsAge => Working <= Stored
         /\ call.secret # NoSecret => Working = call.secret
<1>1. Known \in Nat /\ Stored \in 0 .. Known  BY KnownIsNat
<1>2. call.secret \in 0 .. Known /\ call.granted \in 0 .. Known
  <2>1. CASE call = NoCall  BY <2>1, <1>1, NoCallFields DEF NoSecret
  <2>2. CASE call # NoCall  BY <2>2, CallFields
  <2> QED  BY <2>1, <2>2
<1> QED  BY <1>1, <1>2 DEF Working, SecretsAge

LEMMA ReadyFrom ==
  ASSUME DeviceInv, NEW h, harm \subseteq h
  PROVE  Ready(h) /\ Types /\ HeldSupersedes
BY DEF DeviceInv, Ready, Calm

LEMMA SameRowsFit ==
  ASSUME NEW b, DatabaseFits(b), NEW c \in Database, c.device = b.device, c.made = b.made
  PROVE  /\ DatabaseFits(c) /\ Len(c.made) = Len(b.made)
         /\ \A g : Superseded(b, g) => Superseded(c, g)
         /\ \A s : Usable(b, s) => Usable(c, s)
<1>1. \A d \in DOMAIN c.device : RowFits(c, d)  BY DEF DatabaseFits, RowFits
<1>2. LiveDevices(c) = LiveDevices(b)  BY DEF LiveDevices
<1>3. DatabaseFits(c)  BY <1>1, <1>2 DEF DatabaseFits
<1>4. \A g : Superseded(b, g) => Superseded(c, g)  BY DEF Superseded
<1>5. \A s : Usable(b, s) => Usable(c, s)  BY DEF Usable, Accepted
<1> QED  BY <1>3, <1>4, <1>5

LEMMA ClientKeepsInv ==
  ASSUME DeviceInv, harm \subseteq harm', ClientStep(harm'), files' \subseteq Ticket,
         db' \in Database, db'.device = db.device, db'.made = db.made, late' = late
  PROVE  DeviceInv'
<1>1. Types /\ HeldSupersedes  BY DEF DeviceInv
<1>2. DatabaseFits(db) /\ Known \in Nat  BY <1>1, KnownIsNat
<1>3. DatabaseFits(db') /\ Len(db'.made) = Known /\ \A g : Superseded(db, g) => Superseded(db', g)
  BY <1>2, SameRowsFit DEF Known
<1>4. /\ store' \in Stores(Known) /\ faults' \in 0 .. MaxFaults
      /\ memory' \in [Process -> Memory(Known)] /\ CallFits(Known, call') /\ ~Granted(call')
      /\ \A q \in Process : Superseded(db, memory'[q].held)
  BY DEF ClientStep
<1>5. Types'  BY <1>1, <1>3, <1>4 DEF Types, Known
<1>6. HeldSupersedes'  BY <1>3, <1>4 DEF HeldSupersedes
<1>7. /\ Stored \in Nat /\ Working \in Nat /\ Stored' \in Nat /\ Working' \in Nat
  <2>1. Stored \in Nat /\ Working \in Nat  BY <1>1, <1>2, WorkingIs
  <2>2. Read(store').secret \in Nat  BY <1>2, <1>4, ReadIs
  <2>3. call'.secret \in Nat
    <3>1. CASE call' = NoCall  BY <3>1, NoCallFields DEF NoSecret
    <3>2. CASE call' # NoCall  BY <3>2, <1>2, <1>4 DEF CallFits, Calls
    <3> QED  BY <3>1, <3>2
  <2> QED  BY <2>1, <2>2, <2>3 DEF Working, Stored
<1>8. ASSUME Calm(harm') PROVE SecretsAge'
  <2>1. Calm(harm)  BY <1>8 DEF Calm
  <2>2. SecretsAge  BY <2>1 DEF DeviceInv
  <2>3. /\ Stored <= Stored' /\ call'.secret <= Stored'
        /\ call'.secret # NoSecret => Working <= call'.secret
    BY <1>8 DEF ClientStep, Stored
  <2>4. Working <= Stored  BY <2>2, <1>1, WorkingIs
  <2>5. Working <= Working'
    <3>1. CASE call'.secret = NoSecret
      <4>1. Working' = Stored'  BY <3>1 DEF Working
      <4> QED  BY <4>1, <2>3, <2>4, <1>7
    <3>2. CASE call'.secret # NoSecret
      <4>1. Working' = call'.secret  BY <3>2 DEF Working
      <4> QED  BY <4>1, <3>2, <2>3
    <3> QED  BY <3>1, <3>2
  <2>6. \A r \in late : r.secret \in Nat
    BY <1>1, <1>2 DEF Types, Requests, Known
  <2>7. \A r \in late' : r.secret <= Working'  BY <2>2, <2>5, <2>6, <1>7 DEF SecretsAge
  <2>8. ASSUME NEW d \in DOMAIN db.device
        PROVE  /\ db.device[d].reason # "credential_reuse"
               /\ db.device[d].retired # NoSecret =>
                     /\ db.device[d].current <= Working'
                     /\ ~db.device[d].grace => \A r \in late : r.secret # db.device[d].retired
    <3>1. db.device[d].current \in Nat  BY <1>2, DatabaseFields, RowFields
    <3> QED  BY <3>1, <2>2, <2>5, <1>7 DEF SecretsAge
  <2> QED  BY <2>3, <2>7, <2>8, <1>4 DEF SecretsAge
<1>9. ASSUME harm' = {} PROVE RotationFits'
  <2>1. call'.at \in {"probe", "rotate"} => call'.secret = Stored'  BY <1>9 DEF ClientStep, Stored
  <2> QED  BY <2>1, <1>4 DEF RotationFits
<1> QED  BY <1>5, <1>6, <1>8, <1>9 DEF DeviceInv

(* The age of the rows, for a secret at work and requests on their way.     *)
RowsAge(b, w, requests) ==
  \A d \in DOMAIN b.device :
    /\ b.device[d].reason # "credential_reuse"
    /\ b.device[d].retired # NoSecret =>
          /\ b.device[d].current <= w
          /\ ~b.device[d].grace => \A r \in requests : r.secret # b.device[d].retired

LEMMA RowsKeepAge ==
  ASSUME NEW b, DatabaseFits(b), NEW c, DatabaseFits(c), NEW w \in Nat, NEW L, RowsAge(b, w, L),
         NEW x \in Nat, x <= w, Ages(b, c, x),
         \A d \in DOMAIN b.device : b.device[d].retired = x /\ x # NoSecret => b.device[d].grace,
         NEW M \in SUBSET L
  PROVE  RowsAge(c, w, M)
<1> SUFFICES ASSUME NEW d \in DOMAIN c.device
             PROVE  /\ c.device[d].reason # "credential_reuse"
                    /\ c.device[d].retired # NoSecret =>
                          /\ c.device[d].current <= w
                          /\ ~c.device[d].grace => \A r \in M : r.secret # c.device[d].retired
  BY DEF RowsAge
<1>1. PICK row : row = c.device[d]  OBVIOUS
<1>2. CASE row.retired = NoSecret /\ row.reason = "none"  BY <1>1, <1>2
<1>3. ASSUME d \in DOMAIN b.device,
             row.retired = b.device[d].retired, row.current = b.device[d].current,
             row.grace = b.device[d].grace,
             row.reason \in {b.device[d].reason, "replaced", "owner_revoked"}
      PROVE  /\ row.reason # "credential_reuse"
             /\ row.retired # NoSecret =>
                   row.current <= w /\ (~row.grace => \A r \in M : r.secret # row.retired)
  BY <1>3 DEF RowsAge
<1>4. ASSUME d \in DOMAIN b.device, row.current = x, row.grace = TRUE, row.reason = b.device[d].reason
      PROVE  /\ row.reason # "credential_reuse"
             /\ row.retired # NoSecret =>
                   row.current <= w /\ (~row.grace => \A r \in M : r.secret # row.retired)
  BY <1>4 DEF RowsAge
<1>5. ~ (/\ d \in DOMAIN b.device /\ b.device[d].retired = x /\ x # NoSecret
         /\ b.device[d].grace = FALSE)
  OBVIOUS
<1>6. \/ row.retired = NoSecret /\ row.reason = "none"
      \/ /\ d \in DOMAIN b.device
         /\ row.retired = b.device[d].retired /\ row.current = b.device[d].current
         /\ row.grace = b.device[d].grace
         /\ row.reason \in {b.device[d].reason, "replaced", "owner_revoked"}
      \/ /\ d \in DOMAIN b.device
         /\ row.current = x /\ row.grace = TRUE /\ row.reason = b.device[d].reason
  BY <1>1, <1>5 DEF Ages
<1> QED  BY <1>1, <1>2, <1>3, <1>4, <1>6

LEMMA SupersededStays ==
  ASSUME NEW b, DatabaseFits(b), NEW c, Evolves(b, c), DatabaseFits(c),
         NEW g \in 0 .. Len(b.made), Superseded(b, g)
  PROVE  Superseded(c, g)
<1>1. /\ Len(b.made) \in Nat /\ DOMAIN b.made = 1 .. Len(b.made)
      /\ \A x \in DOMAIN b.made : b.made[x] \in DOMAIN b.device
      /\ Len(c.made) \in Nat /\ DOMAIN c.made = 1 .. Len(c.made)
  BY DatabaseFields
<1> SUFFICES ASSUME NEW x \in DOMAIN c.made, x < g PROVE ~Active(c.device[c.made[x]])
  BY DEF Superseded
<1>2. x \in DOMAIN b.made  BY <1>1
<1>3. c.made[x] = b.made[x] /\ b.made[x] \in DOMAIN b.device  BY <1>1, <1>2 DEF Evolves
<1>4. ~Active(b.device[b.made[x]])  BY <1>2 DEF Superseded
<1> QED  BY <1>3, <1>4 DEF Evolves

LEMMA TypesGrow ==
  ASSUME NEW n \in Nat, NEW m \in Nat, n <= m
  PROVE  /\ Stores(n) \subseteq Stores(m) /\ Memory(n) \subseteq Memory(m)
         /\ Requests(n) \subseteq Requests(m) /\ Calls(n) \subseteq Calls(m)
         /\ 0 .. n \subseteq 0 .. m
<1>1. Content(n) \subseteq Content(m) /\ 0 .. n \subseteq 0 .. m  BY DEF Content
<1>2. Seq(Content(n)) \subseteq Seq(Content(m))
  <2> SUFFICES ASSUME NEW t \in Seq(Content(n)) PROVE t \in Seq(Content(m))  OBVIOUS
  <2>1. Len(t) \in Nat /\ DOMAIN t = 1 .. Len(t) /\ \A i \in 1 .. Len(t) : t[i] \in Content(n)
    BY SeqDomain
  <2>2. t = [i \in 1 .. Len(t) |-> t[i]]  BY <2>1
  <2>3. t \in [1 .. Len(t) -> Content(m)]  BY <2>1, <2>2, <1>1
  <2> QED  BY <2>1, <2>3
<1>3. Stores(n) \subseteq Stores(m)
  <2> SUFFICES ASSUME NEW s \in Stores(n) PROVE s \in Stores(m)  OBVIOUS
  <2>1. /\ s.main \in Content(m) /\ s.bak \in Content(m) /\ s.tmp \in Seq(Content(m))
        /\ s.marker \in BOOLEAN
        /\ s = [main |-> s.main, bak |-> s.bak, tmp |-> s.tmp, marker |-> s.marker]
    BY <1>1, <1>2, StoreFields
  <2> QED  BY <2>1, StoreMember
<1>4. Memory(n) \subseteq Memory(m)  BY <1>1 DEF Memory
<1>5. Requests(n) \subseteq Requests(m)  BY <1>1 DEF Requests
<1>6. Calls(n) \subseteq Calls(m)  BY <1>1 DEF Calls
<1> QED  BY <1>1, <1>3, <1>4, <1>5, <1>6

(* The server's step, for the rows and everything that was typed by them.   *)
LEMMA ServerStep ==
  ASSUME DeviceInv, NEW r \in Requests(Known), RequestFits(r), NEW s \in Serving(r), db' = s.db
  PROVE  /\ DatabaseFits(db') /\ Evolves(db, db') /\ Ages(db, db', r.secret) /\ Effect(s, r)
         /\ Known' \in Nat /\ Known <= Known' /\ s.secret \in 0 .. Known'
         /\ s.answer \in Answer \ {"none", "waiting"}
         /\ r.fn \in {"rotate", "enroll"} /\ s.answer = "ok" => s.secret = Known + 1
         /\ store \in Stores(Known') /\ memory \in [Process -> Memory(Known')]
         /\ \A q \in late : q \in Requests(Known') /\ RequestFits(q)
         /\ \A p \in Process : Superseded(db', memory[p].held)
         /\ call.at = "enroll" /\ Granted(call) => Superseded(db', call.granted)
<1>1. Types /\ HeldSupersedes  BY DEF DeviceInv
<1>2. DatabaseFits(db) /\ Known \in Nat  BY <1>1, KnownIsNat
<1>3. /\ DatabaseFits(s.db) /\ Evolves(db, s.db) /\ Ages(db, s.db, r.secret) /\ Effect(s, r)
      /\ s.secret \in 0 .. Len(s.db.made)
      /\ s.answer \in Answer \ {"none", "waiting"}
      /\ r.fn \in {"rotate", "enroll"} /\ s.answer = "ok" => s.secret = Len(db.made) + 1
  BY <1>2, ServingEffect DEF Known
<1>4. Known' \in Nat /\ Known <= Known' /\ s.secret \in 0 .. Known'
  BY <1>3, DatabaseFields DEF Known, Evolves
<1>5. /\ store \in Stores(Known') /\ memory \in [Process -> Memory(Known')]
      /\ \A q \in late : q \in Requests(Known') /\ RequestFits(q)
  <2>1. /\ Stores(Known) \subseteq Stores(Known') /\ Memory(Known) \subseteq Memory(Known')
        /\ Requests(Known) \subseteq Requests(Known')
    BY <1>2, <1>4, TypesGrow
  <2>2. /\ store \in Stores(Known) /\ memory \in [Process -> Memory(Known)]
        /\ \A q \in late : q \in Requests(Known) /\ RequestFits(q)
    BY <1>1 DEF Types, Known
  <2> QED  BY <2>1, <2>2
<1>6. \A p \in Process : Superseded(db', memory[p].held)
  <2> SUFFICES ASSUME NEW p \in Process PROVE Superseded(db', memory[p].held)  OBVIOUS
  <2>1. memory[p].held \in 0 .. Len(db.made) /\ Superseded(db, memory[p].held)
    BY <1>1, OwnMemory DEF MemoryFits, Memory, Known
  <2> QED  BY <2>1, <1>2, <1>3, SupersededStays
<1>7. call.at = "enroll" /\ Granted(call) => Superseded(db', call.granted)
  <2> SUFFICES ASSUME call.at = "enroll", Granted(call) PROVE Superseded(db', call.granted)  OBVIOUS
  <2>1. call.granted \in 0 .. Len(db.made)  BY <1>1, WorkingIs DEF Known
  <2>2. Superseded(db, call.granted)  BY <1>1 DEF HeldSupersedes
  <2> QED  BY <2>1, <2>2, <1>2, <1>3, SupersededStays
<1> QED  BY <1>2, <1>3, <1>4, <1>5, <1>6, <1>7 DEF Known

LEMMA RotatesGrants ==
  ASSUME NEW b, DatabaseFits(b), NEW x \in DOMAIN b.made, NEW c, NEW g, Rotates(b, c, x, g)
  PROVE  /\ c.made[g] = b.made[x] /\ c.made[x] = b.made[x]
         /\ c.device[b.made[x]].next = g /\ c.device[b.made[x]].current = x
         /\ Active(c.device[b.made[x]])
<1>1. /\ b.device \in Seq(Row) /\ b.made \in Seq(Nat) /\ DOMAIN b.made = 1 .. Len(b.made)
      /\ Len(b.made) \in Nat /\ b.made[x] \in DOMAIN b.device /\ b.made[x] \in Nat
  BY DatabaseFields
<1>2. g = Len(b.made) + 1 /\ c.made = Append(b.made, b.made[x])  BY DEF Rotates
<1>3. c.made[g] = b.made[x] /\ c.made[x] = b.made[x]  BY <1>1, <1>2, OneMore
<1>4. PICK to : /\ MovesTo(RowOf(b, x), x, to) /\ Active(to) /\ to.current = x
                /\ c.device = [b.device EXCEPT ![b.made[x]] = [to EXCEPT !.next = g]]
  BY DEF Rotates
<1>5. RowOf(b, x) \in Row /\ Ordered(RowOf(b, x)) /\ x \in Nat \ {0}
  BY <1>1, FittingRow DEF RowOf
<1>6. to \in Row /\ Ordered(to)  BY <1>4, <1>5, Moved
<1>7. x < g /\ g \in Nat  BY SMTT(40), <1>1, <1>2
<1>8. PICK new : new = [to EXCEPT !.next = g]  OBVIOUS
<1>9. new.next = g /\ new.current = x /\ new.status = to.status  BY <1>4, <1>6, <1>7, <1>8, NextSet
<1>10. c.device[b.made[x]] = new  BY <1>1, <1>4, <1>8
<1> QED  BY <1>3, <1>4, <1>9, <1>10 DEF Active
----------------------------------------------------------------------------
(* A request that arrives.                                                 *)

LEMMA OnTheWayFits ==
  ASSUME Types, Sent
  PROVE  /\ call # NoCall /\ OnTheWay \in Requests(Known) /\ RequestFits(OnTheWay)
         /\ OnTheWay.secret = call.secret
         /\ OnTheWay.fn \in {"rotate", "enroll"} <=> call.at \in {"rotate", "enroll"}
         /\ OnTheWay.fn \in {"rotate", "enroll"} => OnTheWay.fn = call.at
<1>1. call # NoCall  BY NoCallFields DEF Sent
<1>2. /\ call.at \in Asked /\ call.secret \in 0 .. Known /\ call.ticket \in Ticket \cup {NoTicket}
      /\ call.at = "enroll" => call.ticket \in Ticket
      /\ call.at # "enroll" => call.secret # NoSecret
  BY <1>1, CallFields
<1>3. PICK fn : fn = IF call.at \in {"rotate", "ingest", "enroll"} THEN call.at ELSE "status"  OBVIOUS
<1>4. fn \in Fn /\ (fn = "enroll" <=> call.at = "enroll") /\ (fn = "rotate" <=> call.at = "rotate")
  BY <1>2, <1>3 DEF Fn, Asked
<1>5. PICK r : r = [fn |-> fn, secret |-> call.secret, ticket |-> call.ticket]  OBVIOUS
<1>6. OnTheWay = r  BY <1>3, <1>5 DEF OnTheWay, Request
<1>7. r \in Requests(Known)  BY <1>2, <1>4, <1>5 DEF Requests
<1>8. r.fn = fn /\ r.secret = call.secret /\ r.ticket = call.ticket  BY <1>5
<1>9. RequestFits(r)  BY <1>2, <1>4, <1>8 DEF RequestFits
<1> QED  BY <1>1, <1>4, <1>6, <1>7, <1>8, <1>9

(* Without a rotation that arrived late the grant of the one under way stays. *)
LEMMA GrantStays ==
  ASSUME Types, NEW r \in Requests(Known), RequestFits(r), NEW s, Effect(s, r), r.fn # "rotate",
         NEW d \in DOMAIN db.device, NEW g \in Nat, g # r.secret,
         Active(db.device[d]) => db.device[d].next = g
  PROVE  Active(s.db.device[d]) => s.db.device[d].next = g
<1>1. DatabaseFits(db) /\ Known \in Nat /\ DOMAIN db.made = 1 .. Known  BY KnownIsNat
<1>2. CASE s.db = db  BY <1>2
<1>3. CASE r.fn = "enroll" /\ Enrolls(db, s.db, r.ticket, s.secret)
  <2>1. PICK k \in Ticket : k = r.ticket  BY <1>1, <1>3, RequestFields
  <2>2. s.db.device[d] = Replaced(db.device[d])  BY <2>1, <1>1, <1>3, EnrolledRows
  <2>3. db.device[d] \in Row  BY <1>1, DatabaseFields
  <2> QED  BY <2>2, <2>3, ReplacedRow
<1>4. CASE r.fn # "enroll" /\ \E to : /\ MovesTo(RowOf(db, r.secret), r.secret, to)
                                      /\ OneRow(db, s.db, db.made[r.secret], to)
  <2>1. PICK x \in DOMAIN db.made : x = r.secret  BY <1>1, <1>4, RequestFields
  <2>2. PICK to : MovesTo(RowOf(db, x), x, to) /\ OneRow(db, s.db, db.made[x], to)  BY <1>4, <2>1
  <2>3. s.db.device = [db.device EXCEPT ![db.made[x]] = to] /\ db.made[x] \in DOMAIN db.device
    BY <1>1, <2>2, DatabaseFields DEF OneRow
  <2>4. CASE d # db.made[x]  BY <2>3, <2>4
  <2>5. CASE d = db.made[x]
    <3>1. PICK row : row = db.device[d]  OBVIOUS
    <3>2. MovesTo(row, x, to) /\ s.db.device[d] = to  BY <2>2, <2>3, <2>5, <3>1 DEF RowOf
    <3>3. row.next = x => ~Active(row)  BY <2>1, <3>1
    <3>4. to = row \/ ~Active(to)
      <4>1. "credential_reuse" \in Reason /\ row \in Row  BY <1>1, <3>1, DatabaseFields DEF Reason
      <4>2. ~Active(Revoked(row, "credential_reuse"))  BY <4>1, RevokedRow DEF Active
      <4> QED  BY <3>2, <3>3, <4>2 DEF MovesTo
    <3> QED  BY <3>1, <3>2, <3>4
  <2> QED  BY <2>4, <2>5
<1> QED  BY <1>2, <1>3, <1>4 DEF Effect

LEMMA ServeKeepsInv ==
  ASSUME DeviceInv, Serve
  PROVE  DeviceInv'
<1>1. Types /\ HeldSupersedes  BY DEF DeviceInv
<1>2. Sent  BY DEF Serve
<1>3. PICK r : r = OnTheWay  OBVIOUS
<1>4. /\ call # NoCall /\ r \in Requests(Known) /\ RequestFits(r) /\ r.secret = call.secret
      /\ r.fn \in {"rotate", "enroll"} <=> call.at \in {"rotate", "enroll"}
      /\ r.fn \in {"rotate", "enroll"} => r.fn = call.at
  BY <1>1, <1>2, <1>3, OnTheWayFits
<1>5. PICK s \in Serving(r) :
        db' = s.db /\ call' = [call EXCEPT !.answer = s.answer, !.granted = s.secret]
  BY ZenonT(40), <1>3 DEF Serve
<1>6. /\ files' = files /\ store' = store /\ memory' = memory /\ late' = late
      /\ faults' = faults /\ harm' = harm
  BY DEF Serve, FilesUnchanged, NoHarm
<1>7. /\ DatabaseFits(db') /\ Evolves(db, db') /\ Ages(db, db', r.secret) /\ Effect(s, r)
      /\ Known' \in Nat /\ Known <= Known' /\ s.secret \in 0 .. Known'
      /\ s.answer \in Answer \ {"none", "waiting"}
      /\ r.fn \in {"rotate", "enroll"} /\ s.answer = "ok" => s.secret = Known + 1
      /\ store \in Stores(Known') /\ memory \in [Process -> Memory(Known')]
      /\ \A q \in late : q \in Requests(Known') /\ RequestFits(q)
      /\ \A p \in Process : Superseded(db', memory[p].held)
  BY <1>4, <1>5, ServerStep
<1>8. Known \in Nat /\ DatabaseFits(db)  BY <1>1, KnownIsNat
<1>9. /\ call \in Calls(Known')
      /\ call.at \in {"classify", "enroll"} => call.ticket \in Ticket
      /\ call.at # "enroll" => call.secret # NoSecret
  <2>1. call \in Calls(Known)  BY <1>1, <1>4, CallFields
  <2> QED  BY <2>1, <1>1, <1>4, <1>7, <1>8, CallFields, TypesGrow
<1>10. PICK e : e = call'  OBVIOUS
<1>11. /\ e \in Calls(Known') /\ e.at = call.at /\ e.secret = call.secret /\ e.ticket = call.ticket
       /\ e.answer = s.answer /\ e.granted = s.secret
  BY <1>5, <1>7, <1>9, <1>10 DEF Calls
<1>12. Granted(e) => /\ r.fn = e.at /\ s.answer = "ok" /\ e.granted = Known + 1 /\ e.granted # NoSecret
  BY <1>4, <1>7, <1>8, <1>11 DEF Granted, NoSecret
<1>13. CallFits(Known', call')  BY <1>9, <1>10, <1>11, <1>12 DEF CallFits
<1>14. Types'
  <2>1. /\ DatabaseFits(db') /\ store' \in Stores(Len(db'.made))
        /\ memory' \in [Process -> Memory(Len(db'.made))] /\ CallFits(Len(db'.made), call')
        /\ \A q \in late' : q \in Requests(Len(db'.made)) /\ RequestFits(q)
    BY <1>6, <1>7, <1>13 DEF Known
  <2>2. files' \subseteq Ticket /\ faults' \in 0 .. MaxFaults  BY <1>1, <1>6 DEF Types
  <2> QED  BY <2>1, <2>2 DEF Types
<1>15. HeldSupersedes'
  <2>1. ASSUME e.at = "enroll", Granted(e) PROVE Superseded(db', e.granted)
    <3>1. Enrolls(db, db', r.ticket, s.secret)  BY <2>1, <1>5, <1>7, <1>12 DEF Effect
    <3>2. PICK k \in Ticket : k = r.ticket  BY <2>1, <1>4, <1>8, <1>12, RequestFields
    <3> QED  BY <3>1, <3>2, <1>8, <1>11, EnrollsFits
  <2> QED  BY <2>1, <1>6, <1>7, <1>10 DEF HeldSupersedes
<1>16. Stored' = Stored /\ Working' = Working
  BY <1>6, <1>10, <1>11 DEF Stored, Working
<1>17. ASSUME Calm(harm') PROVE SecretsAge'
  <2>1. SecretsAge  BY <1>6, <1>17 DEF DeviceInv
  <2>2. RowsAge(db, Working, late)  BY <2>1 DEF SecretsAge, RowsAge
  <2>3. PICK x \in Nat : x = r.secret  BY <1>4, <1>8 DEF Requests
  <2>4. x = call.secret /\ Working \in Nat /\ Stored \in 0 .. Known
        /\ (x # NoSecret => Working = x)
    BY <1>1, <1>4, <1>8, <2>3, WorkingIs
  <2>5. x <= Working  BY <2>4 DEF NoSecret
  <2>6. ASSUME NEW d \in DOMAIN db.device, db.device[d].retired = x, x # NoSecret
        PROVE  FALSE
    <3>1. db.device[d].current <= x  BY <2>2, <2>4, <2>6 DEF RowsAge
    <3>2. db.device[d] \in Row /\ Ordered(db.device[d])  BY <1>8, FittingRow
    <3> QED  BY <3>1, <3>2, <2>6, RowFields DEF Ordered
  <2>7. RowsAge(db', Working, late)
    BY <1>7, <1>8, <2>2, <2>3, <2>4, <2>5, <2>6, RowsKeepAge
  <2>8. Granted(e) => Stored < e.granted  BY <1>8, <1>12, <2>4
  <2> QED  BY <2>1, <2>7, <2>8, <1>6, <1>10, <1>11, <1>16 DEF SecretsAge, RowsAge
<1>18. ASSUME harm' = {} PROVE RotationFits'
  <2>1. RotationFits  BY <1>6, <1>18 DEF DeviceInv
  <2>2. e.at \in {"probe", "rotate"} => e.secret = Stored  BY <2>1, <1>11 DEF RotationFits
  <2>3. ASSUME e.at = "rotate", Granted(e)
        PROVE  /\ db'.made[e.granted] = db'.made[e.secret]
               /\ db'.device[db'.made[e.secret]].next = e.granted
    <3>1. Rotates(db, db', r.secret, s.secret)  BY <2>3, <1>5, <1>7, <1>12 DEF Effect
    <3>2. PICK x \in DOMAIN db.made : x = r.secret
      <4>1. r.fn # "enroll"  BY <2>3, <1>12
      <4> QED  BY <4>1, <1>1, <1>4, <1>8, RequestFields, KnownIsNat
    <3>3. PICK g : g = s.secret  OBVIOUS
    <3>4. /\ db'.made[g] = db.made[x] /\ db'.made[x] = db.made[x]
          /\ db'.device[db.made[x]].next = g
      BY <3>1, <3>2, <3>3, <1>8, RotatesGrants
    <3> QED  BY <3>2, <3>3, <3>4, <1>4, <1>11
  <2> QED  BY <2>2, <2>3, <1>10, <1>16 DEF RotationFits
<1> QED  BY <1>14, <1>15, <1>17, <1>18 DEF DeviceInv

LEMMA ArriveLateKeepsInv ==
  ASSUME DeviceInv, NEW r \in late, ArriveLate(r)
  PROVE  DeviceInv'
<1>1. Types /\ HeldSupersedes  BY DEF DeviceInv
<1>2. r \in Requests(Known) /\ RequestFits(r)  BY <1>1 DEF Types, Known
<1>3. PICK s \in Serving(r) : db' = s.db  BY DEF ArriveLate
<1>4. /\ files' = files /\ store' = store /\ memory' = memory /\ late' = late \ {r}
      /\ faults' = faults /\ call' = call
      /\ harm' = harm \cup (IF r.fn = "rotate" THEN {"late"} ELSE {})
  BY DEF ArriveLate, FilesUnchanged
<1>5. /\ DatabaseFits(db') /\ Evolves(db, db') /\ Ages(db, db', r.secret) /\ Effect(s, r)
      /\ Known' \in Nat /\ Known <= Known'
      /\ store \in Stores(Known') /\ memory \in [Process -> Memory(Known')]
      /\ \A q \in late : q \in Requests(Known') /\ RequestFits(q)
      /\ \A p \in Process : Superseded(db', memory[p].held)
      /\ call.at = "enroll" /\ Granted(call) => Superseded(db', call.granted)
  BY <1>2, <1>3, ServerStep
<1>6. Known \in Nat /\ DatabaseFits(db) /\ CallFits(Known, call) /\ DOMAIN db.made = 1 .. Known
  BY <1>1, KnownIsNat
<1>7. CallFits(Known', call)
  <2>1. Calls(Known) \subseteq Calls(Known')  BY <1>5, <1>6, TypesGrow
  <2> QED  BY <2>1, <1>6 DEF CallFits
<1>8. Types'
  <2>1. /\ DatabaseFits(db') /\ store' \in Stores(Len(db'.made))
        /\ memory' \in [Process -> Memory(Len(db'.made))] /\ CallFits(Len(db'.made), call')
        /\ \A q \in late' : q \in Requests(Len(db'.made)) /\ RequestFits(q)
    BY <1>4, <1>5, <1>7 DEF Known
  <2>2. files' \subseteq Ticket /\ faults' \in 0 .. MaxFaults  BY <1>1, <1>4 DEF Types
  <2> QED  BY <2>1, <2>2 DEF Types
<1>9. HeldSupersedes'  BY <1>4, <1>5 DEF HeldSupersedes
<1>10. Stored' = Stored /\ Working' = Working  BY <1>4 DEF Stored, Working
<1>11. /\ Working \in Nat /\ Stored \in Nat /\ call.granted \in Nat /\ r.secret \in Nat
  BY <1>1, <1>2, <1>6, WorkingIs DEF Requests
<1>12. ASSUME Calm(harm') PROVE SecretsAge'
  <2>1. SecretsAge
    <3>1. Calm(harm)  BY <1>4, <1>12 DEF Calm
    <3> QED  BY <3>1 DEF DeviceInv
  <2>2. RowsAge(db, Working, late)  BY <2>1 DEF SecretsAge, RowsAge
  <2>3. r.secret <= Working  BY <2>1 DEF SecretsAge
  <2>4. \A d \in DOMAIN db.device :
           db.device[d].retired = r.secret /\ r.secret # NoSecret => db.device[d].grace
    BY <2>2 DEF RowsAge
  <2>5. RowsAge(db', Working, late')
    <3>1. late' \in SUBSET late  BY <1>4
    <3> QED  BY <3>1, <1>5, <1>6, <1>11, <2>2, <2>3, <2>4, RowsKeepAge
  <2> QED  BY <2>1, <2>5, <1>4, <1>10 DEF SecretsAge, RowsAge
<1>13. ASSUME harm' = {} PROVE RotationFits'
  <2>1. harm = {} /\ r.fn # "rotate"  BY <1>4, <1>13
  <2>2. RotationFits /\ SecretsAge  BY <2>1 DEF DeviceInv, Calm
  <2>3. call.at \in {"probe", "rotate"} => call.secret = Stored  BY <2>2 DEF RotationFits
  <2>4. ASSUME call.at = "rotate", Granted(call)
        PROVE  /\ db'.made[call.granted] = db'.made[call.secret]
               /\ Active(db'.device[db'.made[call.secret]])
                    => db'.device[db'.made[call.secret]].next = call.granted
    <3>1. call # NoCall  BY <2>4, NoCallFields
    <3>2. call.secret \in DOMAIN db.made /\ call.granted \in DOMAIN db.made
      BY <3>1, <2>4, <1>1, <1>6, CallFields DEF NoSecret
    <3>3. db'.made[call.granted] = db.made[call.granted] /\ db'.made[call.secret] = db.made[call.secret]
      BY <3>2, <1>5 DEF Evolves
    <3>4. /\ db.made[call.granted] = db.made[call.secret]
          /\ Active(db.device[db.made[call.secret]])
               => db.device[db.made[call.secret]].next = call.granted
      BY <2>2, <2>4 DEF RotationFits
    <3>5. PICK d : d = db.made[call.secret]  OBVIOUS
    <3>6. d \in DOMAIN db.device  BY <3>2, <3>5, <1>6, DatabaseFields
    <3>7. r.secret # call.granted
      <4>1. Working <= Stored /\ r.secret <= Working  BY <2>2, <1>1, WorkingIs DEF SecretsAge
      <4>2. Stored < call.granted  BY SMTT(40), <2>2, <2>4 DEF SecretsAge
      <4> QED  BY <4>1, <4>2, <1>11
    <3>8. Active(db'.device[d]) => db'.device[d].next = call.granted
      BY <3>4, <3>5, <3>6, <3>7, <2>1, <1>1, <1>2, <1>3, <1>5, <1>11, GrantStays
    <3> QED  BY <3>3, <3>4, <3>5, <3>8
  <2> QED  BY <2>3, <2>4, <1>4, <1>10 DEF RotationFits
<1> QED  BY <1>8, <1>9, <1>12, <1>13 DEF DeviceInv

----------------------------------------------------------------------------
(* Requests that are given up, and steps around the service calls.         *)

LEMMA GivenUpLate ==
  ASSUME Types, GivenUp
  PROVE  /\ faults' \in 0 .. MaxFaults
         /\ \A q \in late' : q \in Requests(Known) /\ RequestFits(q)
         /\ \A q \in late' : q \in late \/ (call # NoCall /\ q.secret = call.secret)
<1>1. /\ faults \in 0 .. MaxFaults
      /\ \A q \in late : q \in Requests(Known) /\ RequestFits(q)
  BY DEF Types, Known
<1>2. CASE UNCHANGED <<late, faults>>  BY <1>1, <1>2
<1>3. CASE Sent /\ faults < MaxFaults /\ late' = late \cup {OnTheWay} /\ faults' = faults + 1
  <2>1. /\ call # NoCall /\ OnTheWay \in Requests(Known) /\ RequestFits(OnTheWay)
        /\ OnTheWay.secret = call.secret
    BY <1>3, OnTheWayFits
  <2>2. PICK o : o = OnTheWay  OBVIOUS
  <2>3. late' = late \cup {o}  BY <1>3, <2>2
  <2>4. faults' \in 0 .. MaxFaults  BY <1>1, <1>3, DeviceAssumption
  <2> QED  BY <1>1, <2>1, <2>2, <2>3, <2>4
<1> QED  BY <1>2, <1>3 DEF GivenUp

LEMMA GiveUpKeepsInv ==
  ASSUME DeviceInv, GivenUp, UNCHANGED <<db, files, store, harm>>,
         memory' \in [Process -> Memory(Known)],
         \A p \in Process : Superseded(db, memory'[p].held),
         CallFits(Known, call'), ~Granted(call'),
         call' = NoCall \/ (call'.secret = call.secret /\ call'.at = call.at)
  PROVE  DeviceInv'
<1>1. Types /\ HeldSupersedes  BY DEF DeviceInv
<1>2. /\ Known \in Nat /\ DatabaseFits(db) /\ store \in Stores(Known) /\ files \subseteq Ticket
  BY <1>1, KnownIsNat
<1>3. /\ faults' \in 0 .. MaxFaults
      /\ \A q \in late' : q \in Requests(Known) /\ RequestFits(q)
      /\ \A q \in late' : q \in late \/ (call # NoCall /\ q.secret = call.secret)
  BY <1>1, GivenUpLate
<1>4. Types'  BY <1>2, <1>3 DEF Types, Known
<1>5. HeldSupersedes'  BY DEF HeldSupersedes
<1>6. /\ call.secret \in 0 .. Known /\ Stored \in 0 .. Known /\ Working \in 0 .. Known
      /\ SecretsAge => Working <= Stored
      /\ call.secret # NoSecret => Working = call.secret
  BY <1>1, WorkingIs
<1>7. Stored' = Stored  BY DEF Stored
<1>8. Working' \in {Working, Stored}
  <2>1. CASE call' = NoCall  BY <2>1, <1>7, NoCallFields DEF Working
  <2>2. CASE call'.secret = call.secret  BY <2>2, <1>7 DEF Working
  <2> QED  BY <2>1, <2>2
<1>9. call'.secret \in {NoSecret, call.secret}  BY NoCallFields
<1>10. ASSUME Calm(harm') PROVE SecretsAge'
  <2>1. SecretsAge  BY <1>10 DEF DeviceInv
  <2>2. /\ call.secret <= Stored /\ Working <= Stored
        /\ \A q \in late : q.secret <= Working
    BY <2>1, <1>6 DEF SecretsAge
  <2>3. Working <= Working' /\ Working' \in Nat  BY <2>2, <1>2, <1>6, <1>8
  <2>4. call'.secret <= Stored  BY <2>2, <1>2, <1>6, <1>9 DEF NoSecret
  <2>5. \A q \in late' : q.secret \in Nat /\ q.secret <= Working
    <3> SUFFICES ASSUME NEW q \in late' PROVE q.secret \in Nat /\ q.secret <= Working  OBVIOUS
    <3>1. q.secret \in Nat  BY <1>2, <1>3 DEF Requests
    <3>2. CASE q \in late  BY <3>1, <3>2, <2>2
    <3>3. CASE q.secret = call.secret
      <4>1. call.secret = NoSecret \/ Working = call.secret  BY <1>6
      <4> QED  BY <4>1, <3>1, <3>3, <1>2, <1>6 DEF NoSecret
    <3> QED  BY <3>2, <3>3, <1>3
  <2>6. \A q \in late' : q.secret <= Working'  BY <2>3, <2>5, <1>2, <1>6
  <2>7. ASSUME NEW d \in DOMAIN db.device
        PROVE  /\ db.device[d].reason # "credential_reuse"
               /\ db.device[d].retired # NoSecret =>
                     /\ db.device[d].current <= Working'
                     /\ ~db.device[d].grace => \A q \in late' : q.secret # db.device[d].retired
    <3>1. PICK row : row = db.device[d]  OBVIOUS
    <3>2. row \in Row /\ Ordered(row)  BY <1>2, <3>1, FittingRow
    <3>3. row.current \in Nat /\ row.retired \in Nat /\ row.retired < row.current
      BY <3>2, RowFields DEF Ordered
    <3>4. /\ row.reason # "credential_reuse"
          /\ row.retired # NoSecret =>
                /\ row.current <= Working
                /\ ~row.grace => \A q \in late : q.secret # row.retired
      BY <2>1, <3>1 DEF SecretsAge
    <3>5. ASSUME row.retired # NoSecret, ~row.grace, NEW q \in late', q.secret = row.retired
          PROVE  FALSE
      <4>1. q \notin late  BY <3>4, <3>5
      <4>2. q.secret = call.secret  BY <4>1, <1>3
      <4>3. Working = row.retired  BY <4>2, <3>5, <1>6
      <4> QED  BY <4>3, <3>3, <3>4, <3>5
    <3>6. row.retired # NoSecret => row.current <= Working'
      BY <3>3, <3>4, <2>3, <1>2, <1>6
    <3> QED  BY <3>1, <3>4, <3>5, <3>6
  <2> QED  BY <2>4, <2>6, <2>7, <1>7 DEF SecretsAge
<1>11. ASSUME harm' = {} PROVE RotationFits'
  <2>1. RotationFits  BY <1>11 DEF DeviceInv
  <2>2. call'.at \in {"probe", "rotate"} => call'.secret = Stored'
    <3>1. CASE call' = NoCall  BY <3>1, NoCallFields
    <3>2. CASE call'.secret = call.secret /\ call'.at = call.at
      BY <3>2, <2>1, <1>7 DEF RotationFits
    <3> QED  BY <3>1, <3>2
  <2> QED  BY <2>2 DEF RotationFits
<1> QED  BY <1>4, <1>5, <1>10, <1>11 DEF DeviceInv

Answered(c, a, g) == [c EXCEPT !.answer = a, !.granted = g]

LEMMA AnsweredCall ==
  ASSUME NEW n, NEW c \in Calls(n), NEW a \in Answer, NEW g \in 0 .. n
  PROVE  /\ Answered(c, a, g) \in Calls(n)
         /\ Answered(c, a, g).at = c.at /\ Answered(c, a, g).secret = c.secret
         /\ Answered(c, a, g).ticket = c.ticket /\ Answered(c, a, g).answer = a
BY DEF Calls, Answered

LEMMA LoseAnswerKeepsInv ==
  ASSUME DeviceInv, LoseAnswer
  PROVE  DeviceInv'
<1>1. Types /\ HeldSupersedes  BY DEF DeviceInv
<1>2. /\ Known \in Nat /\ memory \in [Process -> Memory(Known)]  BY <1>1, KnownIsNat
<1>3. /\ call # NoCall /\ GivenUp /\ UNCHANGED <<db, files, store, memory, harm>>
      /\ call' = [call EXCEPT !.answer = "none", !.granted = NoSecret]
  BY DEF LoseAnswer, FilesUnchanged, NoHarm
<1>4. /\ call \in Calls(Known)
      /\ call.at \in {"classify", "enroll"} => call.ticket \in Ticket
      /\ call.at # "enroll" => call.secret # NoSecret
  BY <1>1, <1>3, CallFields
<1>5. PICK e : e = call'  OBVIOUS
<1>6. /\ e \in Calls(Known) /\ e.at = call.at /\ e.secret = call.secret /\ e.ticket = call.ticket
      /\ e.answer = "none"
  <2>1. "none" \in Answer /\ NoSecret \in 0 .. Known  BY <1>2 DEF Answer, NoSecret
  <2>2. call \in Calls(Known)  BY <1>4
  <2>3. e = Answered(call, "none", NoSecret)  BY <1>3, <1>5 DEF Answered
  <2> QED  BY <2>1, <2>2, <2>3, AnsweredCall
<1>7. ~Granted(e)  BY <1>6 DEF Granted
<1>8. CallFits(Known, e)  BY <1>4, <1>6, <1>7 DEF CallFits
<1>9. \A p \in Process : Superseded(db, memory'[p].held)  BY <1>1, <1>3 DEF HeldSupersedes
<1> QED  BY <1>2, <1>3, <1>5, <1>6, <1>7, <1>8, <1>9, GiveUpKeepsInv

(* What a process holds changes, and nothing else does.                     *)
LEMMA MemoryKeepsInv ==
  ASSUME DeviceInv, UNCHANGED <<db, files, store, call, late, faults, harm>>,
         memory' \in [Process -> Memory(Known)],
         \A p \in Process : Superseded(db, memory'[p].held)
  PROVE  DeviceInv'
<1>1. Types'  BY DEF DeviceInv, Types, Known
<1>2. HeldSupersedes'  BY DEF DeviceInv, HeldSupersedes
<1>3. Stored' = Stored /\ Working' = Working  BY DEF Stored, Working
<1>4. Calm(harm') => SecretsAge'  BY <1>3 DEF DeviceInv, SecretsAge
<1>5. harm' = {} => RotationFits'  BY <1>3 DEF DeviceInv, RotationFits
<1> QED  BY <1>1, <1>2, <1>4, <1>5 DEF DeviceInv

LEMMA OneMemory ==
  ASSUME Types, HeldSupersedes, NEW p \in Process, NEW m, MemoryFits(m),
         memory' = [memory EXCEPT ![p] = m]
  PROVE  /\ memory' \in [Process -> Memory(Known)]
         /\ \A q \in Process : Superseded(db, memory'[q].held)
<1>1. memory \in [Process -> Memory(Known)] /\ m \in Memory(Known) /\ Superseded(db, m.held)
  BY KnownIsNat DEF MemoryFits
<1>2. \A q \in Process : memory'[q] = IF q = p THEN m ELSE memory[q]  BY <1>1
<1>3. memory' \in [Process -> Memory(Known)]  BY <1>1
<1> QED  BY <1>1, <1>2, <1>3 DEF HeldSupersedes

LEMMA LoadLocalStateKeepsInv ==
  ASSUME DeviceInv, NEW p \in Process, LoadLocalState(p)
  PROVE  DeviceInv'
<1>1. Types /\ HeldSupersedes  BY DEF DeviceInv
<1>2. memory \in [Process -> Memory(Known)] /\ MemoryFits(memory[p])  BY <1>1, KnownIsNat, OwnMemory
<1>3. PICK m : m = IF Read(store).status = "ok" THEN MarkLocalRegistered(memory[p])
                   ELSE InState(memory[p], "damaged")
  OBVIOUS
<1>4. MemoryFits(MarkLocalRegistered(memory[p])) /\ MemoryFits(InState(memory[p], "damaged"))
  BY ZenonT(40), <1>1, <1>2, MemoryChanges
<1>5. MemoryFits(m)  BY <1>3, <1>4
<1>6. UNCHANGED <<db, files, store, call, late, faults, harm>>  BY DEF LoadLocalState
<1>7. memory' = [memory EXCEPT ![p] = m]  BY <1>3 DEF LoadLocalState
<1>8. /\ memory' \in [Process -> Memory(Known)]
      /\ \A q \in Process : Superseded(db, memory'[q].held)
  BY <1>1, <1>5, <1>7, OneMemory
<1> QED  BY <1>6, <1>8, MemoryKeepsInv

LEMMA DieKeepsInv ==
  ASSUME DeviceInv, NEW p \in Process, Die(p)
  PROVE  DeviceInv'
<1>1. Types /\ HeldSupersedes  BY DEF DeviceInv
<1>2. MemoryFits(FreshMemory)  BY <1>1, FreshFits
<1>3. UNCHANGED <<db, files, store, harm>> /\ memory' = [memory EXCEPT ![p] = FreshMemory]
  BY DEF Die, FilesUnchanged, NoHarm
<1>4. /\ memory' \in [Process -> Memory(Known)]
      /\ \A q \in Process : Superseded(db, memory'[q].held)
  BY <1>1, <1>2, <1>3, OneMemory
<1>5. CASE call.by = p
  <2>1. call' = NoCall /\ GivenUp  BY <1>5 DEF Die
  <2>2. CallFits(Known, call') /\ ~Granted(call')  BY <2>1, NoCallFields DEF CallFits, Granted
  <2> QED  BY <2>1, <2>2, <1>3, <1>4, GiveUpKeepsInv
<1>6. CASE call.by # p
  <2>1. UNCHANGED <<call, late, faults>>  BY <1>6 DEF Die
  <2> QED  BY <2>1, <1>3, <1>4, MemoryKeepsInv
<1> QED  BY <1>5, <1>6

(* A change of the rows that leaves every secret where it is.               *)
Settles(to, row) ==
  /\ to \in Row /\ to.current = row.current /\ to.next = row.next /\ to.retired = row.retired
  /\ to.reason \in {row.reason, "owner_revoked"}
  /\ Active(to) => Active(row)
  /\ to.grace = row.grace \/ late = {}

LEMMA DatabaseKeepsInv ==
  ASSUME DeviceInv, UNCHANGED <<store, memory, call, late, faults, harm>>, files' \subseteq Ticket,
         DatabaseFits(db'), Evolves(db, db'), db'.made = db.made,
         \A d \in DOMAIN db'.device : d \in DOMAIN db.device /\ Settles(db'.device[d], db.device[d])
  PROVE  DeviceInv'
<1>1. Types /\ HeldSupersedes  BY DEF DeviceInv
<1>2. DatabaseFits(db) /\ Known \in Nat /\ Known' = Known  BY <1>1, KnownIsNat DEF Known
<1>3. Types'  BY <1>1, <1>2 DEF Types, Known
<1>4. HeldSupersedes'
  <2>1. call.granted \in 0 .. Len(db.made)  BY <1>1, WorkingIs DEF Known
  <2>2. \A p \in Process : memory[p].held \in 0 .. Len(db.made)
    BY <1>1, OwnMemory DEF MemoryFits, Memory, Known
  <2>3. \A g \in 0 .. Len(db.made) : Superseded(db, g) => Superseded(db', g)
    BY <1>2, SupersededStays
  <2> QED  BY <1>1, <2>1, <2>2, <2>3 DEF HeldSupersedes
<1>5. Stored' = Stored /\ Working' = Working  BY DEF Stored, Working
<1>6. ASSUME Calm(harm') PROVE SecretsAge'
  <2>1. SecretsAge  BY <1>6 DEF DeviceInv
  <2>2. ASSUME NEW d \in DOMAIN db'.device
        PROVE  /\ db'.device[d].reason # "credential_reuse"
               /\ db'.device[d].retired # NoSecret =>
                     /\ db'.device[d].current <= Working
                     /\ ~db'.device[d].grace => \A r \in late : r.secret # db'.device[d].retired
    <3>1. PICK row, to : row = db.device[d] /\ to = db'.device[d]  OBVIOUS
    <3>2. Settles(to, row) /\ d \in DOMAIN db.device  BY <3>1
    <3>3. /\ row.reason # "credential_reuse"
          /\ row.retired # NoSecret =>
                /\ row.current <= Working
                /\ ~row.grace => \A r \in late : r.secret # row.retired
      BY <2>1, <3>1, <3>2 DEF SecretsAge
    <3> QED  BY <3>1, <3>2, <3>3 DEF Settles
  <2> QED  BY <2>1, <2>2, <1>5 DEF SecretsAge
<1>7. ASSUME harm' = {} PROVE RotationFits'
  <2>1. RotationFits  BY <1>7 DEF DeviceInv
  <2>2. ASSUME call.at = "rotate", Granted(call), Active(db'.device[db.made[call.secret]])
        PROVE  db'.device[db.made[call.secret]].next = call.granted
    <3>1. call # NoCall  BY <2>2, NoCallFields
    <3>2. call.secret \in DOMAIN db.made
      BY <3>1, <2>2, <1>1, KnownIsNat, CallFields DEF NoSecret
    <3>3. PICK d : d = db.made[call.secret]  OBVIOUS
    <3>4. d \in DOMAIN db.device  BY <3>2, <3>3, <1>2, DatabaseFields
    <3>5. d \in DOMAIN db'.device  BY <3>4 DEF Evolves
    <3>6. Settles(db'.device[d], db.device[d])  BY <3>5
    <3>7. Active(db.device[d]) => db.device[d].next = call.granted
      BY <2>1, <2>2, <3>3 DEF RotationFits
    <3> QED  BY ZenonT(40), <2>2, <3>3, <3>6, <3>7 DEF Settles
  <2> QED  BY <2>1, <2>2, <1>5 DEF RotationFits
<1> QED  BY <1>3, <1>4, <1>6, <1>7 DEF DeviceInv

LEMMA SetTicket ==
  ASSUME NEW b, DatabaseFits(b), NEW k \in Ticket, NEW state \in TicketState
  PROVE  /\ [b EXCEPT !.ticket[k] = state] \in Database
         /\ [b EXCEPT !.ticket[k] = state].device = b.device
         /\ [b EXCEPT !.ticket[k] = state].made = b.made
<1>1. b \in Database /\ b.ticket \in [Ticket -> TicketState]  BY DatabaseFields DEF DatabaseFits
<1>2. PICK t : t = [b.ticket EXCEPT ![k] = state]  OBVIOUS
<1>3. t \in [Ticket -> TicketState]  BY <1>1, <1>2
<1>4. [b EXCEPT !.ticket[k] = state] = [b EXCEPT !.ticket = t]  BY <1>2
<1> QED  BY <1>1, <1>3, <1>4 DEF Database

LEMMA SameSettles ==
  ASSUME DatabaseFits(db), NEW d \in DOMAIN db.device
  PROVE  Settles(db.device[d], db.device[d])
BY DatabaseFields DEF Settles

LEMMA TicketKeepsInv ==
  ASSUME DeviceInv, UNCHANGED <<store, memory, call, late, faults, harm>>, files' \subseteq Ticket,
         db' \in Database, db'.device = db.device, db'.made = db.made
  PROVE  DeviceInv'
<1>1. DatabaseFits(db)  BY KnownIsNat DEF DeviceInv
<1>2. DatabaseFits(db')  BY <1>1, SameRowsFit
<1>3. Evolves(db, db')  BY <1>1, EvolvesToItself
<1>4. \A d \in DOMAIN db'.device : d \in DOMAIN db.device /\ Settles(db'.device[d], db.device[d])
  BY <1>1, SameSettles
<1> QED  BY <1>2, <1>3, <1>4, DatabaseKeepsInv

LEMMA FileAndTicketStates ==
  "pending" \in TicketState /\ "lapsed" \in TicketState
BY DEF TicketState

LEMMA TicketsKeepInv ==
  ASSUME DeviceInv, NEW k \in Ticket, IssueFile(k) \/ Lapse(k)
  PROVE  DeviceInv'
<1>1. DatabaseFits(db) /\ files \subseteq Ticket  BY KnownIsNat DEF DeviceInv
<1>2. UNCHANGED <<store, memory, call, late, faults, harm>> /\ files' \subseteq Ticket
  BY <1>1 DEF IssueFile, Lapse, NoHarm, FilesUnchanged
<1>3. PICK state \in TicketState : db' = [db EXCEPT !.ticket[k] = state]
  BY FileAndTicketStates DEF IssueFile, Lapse
<1>4. db' \in Database /\ db'.device = db.device /\ db'.made = db.made
  BY <1>1, <1>3, SetTicket
<1> QED  BY <1>2, <1>4, TicketKeepsInv

LEMMA RowKeepsInv ==
  ASSUME DeviceInv, UNCHANGED <<files, store, memory, call, late, faults, harm>>,
         NEW d \in DOMAIN db.device, NEW to, Settles(to, db.device[d]),
         db' = [db EXCEPT !.device[d] = to]
  PROVE  DeviceInv'
<1>1. DatabaseFits(db) /\ files \subseteq Ticket  BY KnownIsNat DEF DeviceInv
<1>2. to \in Row  BY DEF Settles
<1>3. OneRow(db, db', d, to)  BY <1>1, <1>2, SetRow DEF OneRow
<1>4. Inherits(to, db.device[d])
  <2>1. PICK row : row = db.device[d]  OBVIOUS
  <2>2. row \in Row /\ Ordered(row) /\ row.current # NoSecret
    BY <1>1, <2>1, FittingRow, RowFields DEF Ordered, NoSecret
  <2> QED  BY <2>1, <2>2 DEF Inherits, Settles, Ordered
<1>5. DatabaseFits(db') /\ Evolves(db, db')  BY <1>1, <1>3, <1>4, OneRowFits
<1>6. db'.made = db.made /\ db'.device = [db.device EXCEPT ![d] = to]  BY <1>3 DEF OneRow
<1>7. \A e \in DOMAIN db'.device : e \in DOMAIN db.device /\ Settles(db'.device[e], db.device[e])
  BY <1>1, <1>6, SameSettles
<1> QED  BY <1>1, <1>5, <1>6, <1>7, DatabaseKeepsInv

LEMMA OwnerRevokesKeepsInv ==
  ASSUME DeviceInv, NEW d \in DOMAIN db.device, OwnerRevokes(d)
  PROVE  DeviceInv'
<1>1. DatabaseFits(db)  BY KnownIsNat DEF DeviceInv
<1>2. UNCHANGED <<files, store, memory, call, late, faults, harm>>
  BY DEF OwnerRevokes, FilesUnchanged, NoHarm
<1>3. PICK to : to = Revoked(db.device[d], "owner_revoked")  OBVIOUS
<1>4. db' = [db EXCEPT !.device[d] = to]  BY <1>3 DEF OwnerRevokes
<1>5. Settles(to, db.device[d])
  <2>1. "owner_revoked" \in Reason /\ db.device[d] \in Row  BY <1>1, DatabaseFields DEF Reason
  <2> QED  BY <2>1, <1>3, RevokedRow DEF Settles, Active
<1> QED  BY <1>2, <1>4, <1>5, RowKeepsInv

LEMMA ComeDueKeepsInv ==
  ASSUME DeviceInv, NEW d \in DOMAIN db.device, ComeDue(d)
  PROVE  DeviceInv'
<1>1. DatabaseFits(db)  BY KnownIsNat DEF DeviceInv
<1>2. UNCHANGED <<files, store, memory, call, late, faults, harm>>
  BY DEF ComeDue, FilesUnchanged, NoHarm
<1>3. PICK row : row = db.device[d]  OBVIOUS
<1>4. PICK to : to = [row EXCEPT !.due = TRUE]  OBVIOUS
<1>5. db' = [db EXCEPT !.device[d] = to]  BY <1>3, <1>4 DEF ComeDue
<1>6. row \in Row  BY <1>1, <1>3, DatabaseFields
<1>7. /\ to \in Row /\ to.status = row.status /\ to.reason = row.reason /\ to.grace = row.grace
      /\ to.current = row.current /\ to.next = row.next /\ to.retired = row.retired
  BY <1>4, <1>6 DEF Row
<1>8. Settles(to, row)  BY <1>7 DEF Settles, Active
<1> QED  BY <1>2, <1>3, <1>5, <1>8, RowKeepsInv

LEMMA GraceEndsKeepsInv ==
  ASSUME DeviceInv, NEW d \in DOMAIN db.device, GraceEnds(d)
  PROVE  DeviceInv'
<1>1. DatabaseFits(db)  BY KnownIsNat DEF DeviceInv
<1>2. UNCHANGED <<files, store, memory, call, late, faults, harm>> /\ late = {}
  BY DEF GraceEnds, FilesUnchanged, NoHarm
<1>3. PICK row : row = db.device[d]  OBVIOUS
<1>4. PICK to : to = [row EXCEPT !.grace = FALSE]  OBVIOUS
<1>5. db' = [db EXCEPT !.device[d] = to]  BY <1>3, <1>4 DEF GraceEnds
<1>6. row \in Row  BY <1>1, <1>3, DatabaseFields
<1>7. /\ to \in Row /\ to.status = row.status /\ to.reason = row.reason
      /\ to.current = row.current /\ to.next = row.next /\ to.retired = row.retired
  BY <1>4, <1>6 DEF Row
<1>8. Settles(to, row)  BY <1>2, <1>7 DEF Settles, Active
<1> QED  BY <1>2, <1>3, <1>5, <1>8, RowKeepsInv

LEMMA DamageKeepsInv ==
  ASSUME DeviceInv, NEW f \in {"main", "bak"}, Damage(f)
  PROVE  DeviceInv'
<1>1. Types /\ HeldSupersedes  BY DEF DeviceInv
<1>2. Known \in Nat /\ store \in Stores(Known)  BY <1>1, KnownIsNat
<1>3. UNCHANGED <<db, files, memory, call, late>> /\ "damage" \in harm'
  BY DEF Damage, FilesUnchanged
<1>4. PICK x \in {Damaged, Missing} : store' = [store EXCEPT ![f] = x]  BY DEF Damage
<1>5. x \in Content(Known)  BY <1>4 DEF Content
<1>6. store' \in Stores(Known)  BY <1>2, <1>4, <1>5 DEF Stores
<1>7. faults' \in 0 .. MaxFaults  BY <1>1, DeviceAssumption DEF Damage, Types
<1>8. Types'  BY <1>1, <1>3, <1>6, <1>7 DEF Types, Known
<1>9. HeldSupersedes'  BY <1>1, <1>3 DEF HeldSupersedes
<1>10. ~Calm(harm') /\ harm' # {}  BY <1>3 DEF Calm
<1> QED  BY <1>8, <1>9, <1>10 DEF DeviceInv

----------------------------------------------------------------------------
(* The steps of the client.                                                *)

LEMMA InitializeKeepsInv ==
  ASSUME DeviceInv, NEW p \in Process, Initialize(p)
  PROVE  DeviceInv' /\ ClientStep(harm')
<1>1. UNCHANGED <<db, late>>  BY DEF Initialize
<1>2. harm \subseteq harm'
  BY DEF Initialize, NoHarm
<1>3. Ready(harm')  BY <1>2, ReadyFrom
<1>4. ClientStep(harm') /\ files' \subseteq Ticket  BY <1>2, <1>3, InitializeStep
<1>5. db' \in Database  BY <1>1 DEF DeviceInv, Types, DatabaseFits
<1> QED  BY <1>1, <1>2, <1>4, <1>5, ClientKeepsInv

LEMMA EnrollTicketKeepsInv ==
  ASSUME DeviceInv, NEW p \in Process, NEW k \in Ticket, EnrollTicket(p, k)
  PROVE  DeviceInv' /\ ClientStep(harm') /\ db'.device = db.device /\ db'.made = db.made
         /\ db' \in Database
<1>1. harm' = harm /\ late' = late /\ db' = [db EXCEPT !.ticket[k] = "pending"]
  BY DEF EnrollTicket, NoHarm
<1>2. DatabaseFits(db) /\ files \subseteq Ticket  BY KnownIsNat DEF DeviceInv
<1>3. db' \in Database /\ db'.device = db.device /\ db'.made = db.made
  BY <1>1, <1>2, SetTicket, FileAndTicketStates
<1>4. Ready(harm)  BY ReadyFrom
<1>5. ClientStep(harm) /\ files' = files  BY <1>4, EnrollTicketStep
<1>6. ClientStep(harm')  BY <1>1, <1>5
<1> QED  BY <1>1, <1>2, <1>3, <1>5, <1>6, ClientKeepsInv

LEMMA SyncNowKeepsInv ==
  ASSUME DeviceInv, NEW p \in Process, NEW op \in {"check", "run"}, SyncNow(p, op)
  PROVE  DeviceInv' /\ ClientStep(harm')
<1>1. harm' = harm /\ late' = late /\ db' = db  BY DEF SyncNow, NoHarm
<1>2. DatabaseFits(db) /\ files \subseteq Ticket  BY KnownIsNat DEF DeviceInv
<1>3. Ready(harm)  BY ReadyFrom
<1>4. ClientStep(harm) /\ files' = files  BY <1>3, SyncNowStep
<1>5. db' \in Database  BY <1>1, <1>2 DEF DatabaseFits
<1>6. ClientStep(harm')  BY <1>1, <1>4
<1> QED  BY <1>1, <1>2, <1>4, <1>5, <1>6, ClientKeepsInv

LEMMA ReceiveKeepsInv ==
  ASSUME DeviceInv, NEW p \in Process, Receive(p)
  PROVE  DeviceInv' /\ ClientStep(harm')
<1>1. harm' = harm /\ late' = late /\ db' = db  BY DEF Receive, NoHarm
<1>2. DatabaseFits(db)  BY KnownIsNat DEF DeviceInv
<1>3. Ready(harm)  BY ReadyFrom
<1>4. ClientStep(harm) /\ files' \subseteq Ticket  BY <1>3, ReceiveStep
<1>5. db' \in Database  BY <1>1, <1>2 DEF DatabaseFits
<1>6. ClientStep(harm')  BY <1>1, <1>4
<1> QED  BY <1>1, <1>4, <1>5, <1>6, ClientKeepsInv

LEMMA InitFits ==
  ASSUME Init
  PROVE  DeviceInv
<1>1. /\ db.device = << >> /\ db.made = << >> /\ db \in Database
      /\ db.ticket \in [Ticket -> TicketState]
  BY DEF Init, Database, TicketState
<1>2. Len(db.made) = 0 /\ DOMAIN db.made = {} /\ DOMAIN db.device = {}  BY <1>1
<1>3. LiveDevices(db) = {}  BY <1>2 DEF LiveDevices
<1>4. DatabaseFits(db)  BY <1>1, <1>2, <1>3, DeviceAssumption DEF DatabaseFits
<1>5. store \in Stores(0)
  <2>1. Missing \in Content(0) /\ << >> \in Seq(Content(0))  BY DEF Content
  <2> QED  BY <2>1 DEF Init, Blank, Stores
<1>6. FreshMemory \in Memory(0)  BY DEF FreshMemory, Memory, StaleLimit, NoSecret
<1>7. memory \in [Process -> Memory(0)]  BY <1>6 DEF Init
<1>8. CallFits(0, call) /\ call = NoCall /\ ~Granted(call)
  BY NoCallFields DEF Init, CallFits, Granted
<1>9. Types  BY <1>2, <1>4, <1>5, <1>7, <1>8, DeviceAssumption DEF Types, Init
<1>10. HeldSupersedes  BY <1>2, <1>8 DEF HeldSupersedes, Superseded
<1>11. SecretsAge
  <2>1. Stored \in 0 .. Known  BY <1>9, KnownIsNat
  <2>2. call.secret <= Stored  BY <2>1, <1>2, <1>8, NoCallFields DEF Known, NoSecret
  <2>3. late = {}  BY DEF Init
  <2> QED  BY <2>2, <2>3, <1>2, <1>8 DEF SecretsAge
<1>12. RotationFits  BY <1>8, NoCallFields DEF RotationFits
<1> QED  BY <1>9, <1>10, <1>11, <1>12 DEF DeviceInv

LEMMA StutterKeepsInv ==
  ASSUME DeviceInv, UNCHANGED vars
  PROVE  DeviceInv'
<1>1. UNCHANGED <<db, files, store, call, late, faults, harm>> /\ memory' = memory  BY DEF vars
<1>2. Types /\ HeldSupersedes  BY DEF DeviceInv
<1>3. /\ memory' \in [Process -> Memory(Known)]
      /\ \A p \in Process : Superseded(db, memory'[p].held)
  BY <1>1, <1>2, KnownIsNat DEF HeldSupersedes
<1> QED  BY <1>1, <1>3, MemoryKeepsInv

LEMMA NextKeepsInv ==
  ASSUME DeviceInv, [Next]_vars
  PROVE  DeviceInv'
<1>1. ASSUME NEW p \in Process, Initialize(p) PROVE DeviceInv'  BY <1>1, InitializeKeepsInv
<1>2. ASSUME NEW p \in Process, NEW k \in Ticket, EnrollTicket(p, k) PROVE DeviceInv'
  BY <1>2, EnrollTicketKeepsInv
<1>3. ASSUME NEW p \in Process, NEW op \in {"check", "run"}, SyncNow(p, op) PROVE DeviceInv'
  BY <1>3, SyncNowKeepsInv
<1>4. ASSUME NEW p \in Process, LoadLocalState(p) PROVE DeviceInv'  BY <1>4, LoadLocalStateKeepsInv
<1>5. ASSUME NEW p \in Process, Receive(p) PROVE DeviceInv'  BY <1>5, ReceiveKeepsInv
<1>6. ASSUME NEW p \in Process, Die(p) PROVE DeviceInv'  BY <1>6, DieKeepsInv
<1>7. CASE Serve  BY <1>7, ServeKeepsInv
<1>8. CASE LoseAnswer  BY <1>8, LoseAnswerKeepsInv
<1>9. ASSUME NEW r \in late, ArriveLate(r) PROVE DeviceInv'  BY <1>9, ArriveLateKeepsInv
<1>10. ASSUME NEW k \in Ticket, IssueFile(k) \/ Lapse(k) PROVE DeviceInv'  BY <1>10, TicketsKeepInv
<1>11. ASSUME NEW d \in DOMAIN db.device, OwnerRevokes(d) \/ ComeDue(d) \/ GraceEnds(d)
       PROVE  DeviceInv'
  BY <1>11, OwnerRevokesKeepsInv, ComeDueKeepsInv, GraceEndsKeepsInv
<1>12. ASSUME NEW f \in {"main", "bak"}, Damage(f) PROVE DeviceInv'  BY <1>12, DamageKeepsInv
<1>13. CASE UNCHANGED vars  BY <1>13, StutterKeepsInv
<1> QED
  BY <1>1, <1>2, <1>3, <1>4, <1>5, <1>6, <1>7, <1>8, <1>9, <1>10, <1>11, <1>12, <1>13 DEF Next

(* The inductive invariant of the device's secrets holds in every reachable  *)
(* state: what is on disk, sent, late or retired stands in its order.      *)
THEOREM DeviceInvariant == Spec => []DeviceInv
<1>1. Init => DeviceInv  BY InitFits
<1>2. DeviceInv /\ [Next]_vars => DeviceInv'  BY NextKeepsInv
<1> QED  BY <1>1, <1>2, PTL DEF Spec

(* Every variable keeps its type; the identity has one live device, and the  *)
(* secrets of a row are its own and grow from the retired to the next one.  *)
THEOREM DeviceTypes == Spec => []DeviceTypeOK
<1>1. ASSUME DeviceInv PROVE DeviceTypeOK
  <2>1. /\ DatabaseFits(db) /\ Known \in Nat /\ store \in Stores(Known)
        /\ memory \in [Process -> Memory(Known)] /\ files \subseteq Ticket
        /\ faults \in 0 .. MaxFaults
    BY <1>1, KnownIsNat DEF DeviceInv, Types
  <2>2. Known <= MaxSecrets /\ MaxSecrets \in Nat  BY <2>1, DeviceAssumption DEF DatabaseFits, Known
  <2>3. Cardinality(LiveDevices(db)) <= 1
    <3>1. PICK L : L = LiveDevices(db)  OBVIOUS
    <3>2. \A d, e \in L : d = e  BY <2>1, <3>1 DEF DatabaseFits
    <3>3. CASE L = {}  BY <3>1, <3>3, FS_EmptySet
    <3>4. CASE L # {}
      <4>1. PICK d : L = {d}  BY <3>2, <3>4
      <4>2. Cardinality({d}) = 1  BY FS_Singleton
      <4> QED  BY <3>1, <4>1, <4>2
    <3> QED  BY <3>3, <3>4
  <2>4. \A d \in DOMAIN db.device : RowOK(d)
    <3> SUFFICES ASSUME NEW d \in DOMAIN db.device PROVE RowOK(d)  OBVIOUS
    <3>1. RowFits(db, d)  BY <2>1 DEF DatabaseFits
    <3>2. db.device[d].status \in {"active", "revoked"} /\ db.device[d].ticket \in Ticket
      BY <2>1, DatabaseFields, RowFields
    <3> QED  BY <3>1, <3>2 DEF RowOK, RowFits
  <2>5. db.ticket \in [Ticket -> {"new", "pending", "consumed", "lapsed"}]
    BY <2>1, DatabaseFields DEF TicketState
  <2>6. Content(Known) \subseteq File  BY <2>1, <2>2 DEF Content, File, Secret
  <2>7. {store.main, store.bak} \cup {store.tmp[i] : i \in DOMAIN store.tmp} \subseteq File
    <3>1. store.main \in Content(Known) /\ store.bak \in Content(Known) /\ store.tmp \in Seq(Content(Known))
      BY <2>1, StoreFields
    <3>2. \A i \in DOMAIN store.tmp : store.tmp[i] \in Content(Known)  BY <3>1, SeqDomain
    <3> QED  BY <3>1, <3>2, <2>6
  <2>8. memory \in [Process -> [state : {"open", "revoked", "damaged"}, checked : BOOLEAN, due : BOOLEAN,
                                strikes : 0 .. StaleLimit, held : {NoSecret} \cup Secret,
                                refused : SUBSET Ticket]]
    <3>1. 0 .. Known \subseteq {NoSecret} \cup Secret  BY <2>1, <2>2 DEF NoSecret, Secret
    <3> QED  BY <2>1, <3>1 DEF Memory
  <2> QED  BY <2>1, <2>2, <2>3, <2>4, <2>5, <2>7, <2>8 DEF DeviceTypeOK, Known
<1> QED  BY <1>1, DeviceInvariant, PTL

(* Without a copy no device is revoked for the use of a retired secret,      *)
(* whatever is lost, late or cut short, unless a damaged file or an         *)
(* enrollment's held secret brought an old one back.                       *)
THEOREM ReuseIsNeverBlamed == Spec => []ReuseNeedsOldSecret
<1>1. ASSUME DeviceInv PROVE ReuseNeedsOldSecret
  <2> SUFFICES ASSUME NEW d \in DOMAIN db.device, db.device[d].reason = "credential_reuse"
               PROVE  harm \cap {"damage", "held"} # {}
    BY DEF ReuseNeedsOldSecret
  <2>1. ~SecretsAge  BY DEF SecretsAge
  <2> QED  BY <1>1, <2>1 DEF DeviceInv, Calm
<1> QED  BY <1>1, DeviceInvariant, PTL

----------------------------------------------------------------------------
(* A secret on disk that the server takes stays so.                        *)

(* The request of a harmless step carries no later secret than the disk,     *)
(* and a rotation the one on the disk.                                     *)
LEMMA AcceptedStays ==
  ASSUME DeviceInv, DeviceInv', NEW r \in Requests(Known), RequestFits(r),
         NEW s, Effect(s, r), db' = s.db, harm = {}, harm' = {}, store' = store,
         r.secret <= Stored, r.fn = "rotate" => r.secret = Stored, Usable(db, store)
  PROVE  \/ Usable(db', store')
         \/ \E d \in LiveDevices(db) : db'.device[d].reason \in {"owner_revoked", "replaced"}
<1>1. Types /\ Types'  BY DEF DeviceInv
<1>2. DatabaseFits(db) /\ Known \in Nat /\ DOMAIN db.made = 1 .. Known /\ store \in Stores(Known)
  BY <1>1, KnownIsNat
<1>3. PICK c : c = Stored  OBVIOUS
<1>4. c # NoSecret /\ c \in 0 .. Known /\ Accepted(db, c)
  BY <1>1, <1>2, <1>3, UsableIs, KnownIsNat DEF Stored
<1>5. c \in DOMAIN db.made  BY <1>2, <1>4 DEF NoSecret
<1>6. PICK d : d = db.made[c]  OBVIOUS
<1>7. PICK row : row = db.device[d]  OBVIOUS
<1>8. /\ d \in DOMAIN db.device /\ row \in Row /\ Ordered(row) /\ Active(row)
      /\ c \in {row.current, row.next} /\ d \in LiveDevices(db)
  BY <1>2, <1>4, <1>5, <1>6, <1>7, DatabaseFields, FittingRow DEF Accepted, LiveDevices
<1>9. Usable(db', store') <=> Accepted(db', c)
  <2>1. Read(store).status = "ok"  BY DEF Usable
  <2> QED  BY <2>1, <1>3 DEF Usable, Stored
<1>10. CASE s.db = db  BY <1>4, <1>9, <1>10
<1>11. CASE r.fn = "enroll" /\ Enrolls(db, s.db, r.ticket, s.secret)
  <2>1. PICK k \in Ticket : k = r.ticket  BY <1>2, <1>11, RequestFields
  <2>2. db'.device[d] = Replaced(row)  BY <2>1, <1>2, <1>7, <1>8, <1>11, EnrolledRows
  <2>3. db'.device[d].reason = "replaced"  BY <2>2, <1>8, ReplacedRow
  <2> QED  BY <2>3, <1>8
<1>12. CASE r.fn = "rotate" /\ Rotates(db, s.db, r.secret, s.secret)
  <2>1. Rotates(db, db', c, s.secret)  BY <1>3, <1>12
  <2>2. PICK g : g = s.secret  OBVIOUS
  <2>3. /\ db'.made[c] = d /\ db'.device[d].current = c /\ Active(db'.device[d])
    BY <2>1, <2>2, <1>2, <1>5, <1>6, RotatesGrants
  <2>4. Accepted(db', c)  BY <2>3 DEF Accepted
  <2> QED  BY <2>4, <1>9
<1>13. CASE r.fn # "enroll" /\ \E to : /\ MovesTo(RowOf(db, r.secret), r.secret, to)
                                       /\ OneRow(db, s.db, db.made[r.secret], to)
  <2>1. PICK x \in DOMAIN db.made : x = r.secret  BY <1>2, <1>13, RequestFields
  <2>2. PICK to : MovesTo(RowOf(db, x), x, to) /\ OneRow(db, db', db.made[x], to)  BY <1>13, <2>1
  <2>3. /\ db'.device = [db.device EXCEPT ![db.made[x]] = to] /\ db'.made = db.made
        /\ db.made[x] \in DOMAIN db.device
    BY <1>2, <2>1, <2>2, DatabaseFields DEF OneRow
  <2>4. CASE db.made[x] # d
    <3>1. db'.made[c] = d /\ db'.device[d] = row  BY <2>3, <2>4, <1>6, <1>7, <1>8
    <3>2. Accepted(db', c)  BY <3>1, <1>8 DEF Accepted
    <3> QED  BY <3>2, <1>9
  <2>5. CASE db.made[x] = d
    <3>1. db'.made[c] = d /\ db'.device[d] = to  BY <2>3, <2>5, <1>6, <1>8
    <3>2. MovesTo(row, x, to)  BY <2>2, <2>5, <1>7 DEF RowOf
    <3>3. CASE to = row
      <4>1. Accepted(db', c)  BY <3>1, <3>3, <1>8 DEF Accepted
      <4> QED  BY <4>1, <1>9
    <3>4. CASE row.next = x /\ x # NoSecret /\ to = Promoted(row)
      <4>1. to.current = row.next /\ to.status = row.status  BY <3>4, <1>8, PromotedRow
      <4>2. row.current < row.next /\ row.current \in Nat /\ row.next \in Nat
        BY <3>4, <1>8, RowFields DEF Ordered
      <4>3. c = row.next  BY <4>2, <3>4, <2>1, <1>3, <1>8
      <4>4. Accepted(db', c)  BY <4>1, <4>3, <3>1, <1>8 DEF Accepted, Active
      <4> QED  BY <4>4, <1>9
    <3>5. CASE to = Revoked(row, "credential_reuse")
      <4>1. "credential_reuse" \in Reason  BY DEF Reason
      <4>2. to.reason = "credential_reuse"  BY <4>1, <3>5, <1>8, RevokedRow
      <4>3. SecretsAge'  BY DEF DeviceInv, Calm
      <4>4. d \in DOMAIN db'.device  BY <2>3, <1>8
      <4>5. db'.device[d].reason # "credential_reuse"  BY <4>3, <4>4 DEF SecretsAge
      <4> QED  BY <4>2, <4>5, <3>1
    <3> QED  BY <3>2, <3>3, <3>4, <3>5 DEF MovesTo
  <2> QED  BY <2>4, <2>5
<1> QED  BY <1>10, <1>11, <1>12, <1>13 DEF Effect

Loses == /\ Usable(db, store) /\ harm' = {} /\ ~Usable(db', store')
         /\ ~ \E d \in LiveDevices(db) : db'.device[d].reason \in {"owner_revoked", "replaced"}

LEMMA ServeLosesNothing ==
  ASSUME DeviceInv, DeviceInv', Serve
  PROVE  ~Loses
<1> SUFFICES ASSUME Loses PROVE FALSE  OBVIOUS
<1>1. harm' = harm /\ store' = store  BY DEF Serve, NoHarm
<1>2. harm = {} /\ Types /\ SecretsAge /\ RotationFits  BY <1>1 DEF Loses, DeviceInv, Calm
<1>3. Sent  BY DEF Serve
<1>4. PICK r : r = OnTheWay  OBVIOUS
<1>5. /\ r \in Requests(Known) /\ RequestFits(r) /\ r.secret = call.secret
      /\ r.fn \in {"rotate", "enroll"} => r.fn = call.at
  BY <1>2, <1>3, <1>4, OnTheWayFits
<1>6. PICK s \in Serving(r) : db' = s.db  BY <1>4 DEF Serve
<1>7. Effect(s, r)  BY <1>2, <1>5, KnownIsNat, ServingEffect DEF Known
<1>8. r.secret <= Stored /\ (r.fn = "rotate" => r.secret = Stored)
  BY <1>2, <1>5 DEF SecretsAge, RotationFits
<1> QED  BY <1>1, <1>2, <1>5, <1>6, <1>7, <1>8, AcceptedStays DEF Loses

LEMMA ArriveLateLosesNothing ==
  ASSUME DeviceInv, DeviceInv', NEW r \in late, ArriveLate(r)
  PROVE  ~Loses
<1> SUFFICES ASSUME Loses PROVE FALSE  OBVIOUS
<1>1. harm = {} /\ r.fn # "rotate" /\ store' = store
  BY DEF Loses, ArriveLate
<1>2. Types /\ SecretsAge  BY <1>1 DEF DeviceInv, Calm
<1>3. r \in Requests(Known) /\ RequestFits(r)  BY <1>2 DEF Types, Known
<1>4. PICK s \in Serving(r) : db' = s.db  BY DEF ArriveLate
<1>5. Effect(s, r)  BY <1>2, <1>3, KnownIsNat, ServingEffect DEF Known
<1>6. r.secret <= Stored
  <2>1. r.secret <= Working  BY <1>2 DEF SecretsAge
  <2>2. Working <= Stored /\ Working \in Nat /\ Stored \in Nat /\ r.secret \in Nat
    BY <1>2, <1>3, WorkingIs, KnownIsNat DEF Requests
  <2> QED  BY <2>1, <2>2
<1> QED  BY <1>1, <1>3, <1>4, <1>5, <1>6, AcceptedStays DEF Loses

LEMMA SameRowsUsable ==
  ASSUME db'.device = db.device, db'.made = db.made, NEW s, Usable(db, s)
  PROVE  Usable(db', s)
BY DEF Usable, Accepted

LEMMA ClientLosesNothing ==
  ASSUME DeviceInv, ClientStep(harm'), db' \in Database, db'.device = db.device, db'.made = db.made
  PROVE  ~Loses
<1> SUFFICES ASSUME Loses PROVE FALSE  OBVIOUS
<1>1. Usable(db, store')  BY DEF Loses, ClientStep
<1>2. Usable(db', store')  BY <1>1, SameRowsUsable
<1> QED  BY <1>2 DEF Loses

LEMMA RowLosesNothing ==
  ASSUME DeviceInv, NEW d \in DOMAIN db.device, NEW to, to.status = db.device[d].status,
         to.current = db.device[d].current, to.next = db.device[d].next,
         db' = [db EXCEPT !.device[d] = to], store' = store
  PROVE  ~Loses
<1> SUFFICES ASSUME Loses PROVE FALSE  OBVIOUS
<1>1. DatabaseFits(db) /\ Types  BY KnownIsNat DEF DeviceInv
<1>2. db'.device = [db.device EXCEPT ![d] = to] /\ db'.made = db.made
  BY <1>1 DEF DatabaseFits, Database
<1>3. ASSUME NEW c \in DOMAIN db.made, Accepted(db, c) PROVE Accepted(db', c)
  <2>1. db.made[c] \in DOMAIN db.device  BY <1>1, DatabaseFields
  <2>2. CASE db.made[c] # d
    <3>1. db'.device[db'.made[c]] = db.device[db.made[c]]  BY <2>1, <2>2, <1>2
    <3> QED  BY <3>1, <1>3 DEF Accepted
  <2>3. CASE db.made[c] = d
    <3>1. db'.device[db'.made[c]] = to  BY <2>1, <2>3, <1>2
    <3> QED  BY <3>1, <2>3, <1>3 DEF Accepted, Active
  <2> QED  BY <2>2, <2>3
<1>4. Read(store).secret \in DOMAIN db.made
  BY <1>1, KnownIsNat, UsableIs DEF Loses, NoSecret, Stored
<1>5. Usable(db', store')  BY <1>3, <1>4 DEF Loses, Usable
<1> QED  BY <1>5 DEF Loses

LEMMA OwnerRevokesLosesNothing ==
  ASSUME DeviceInv, NEW d \in DOMAIN db.device, OwnerRevokes(d)
  PROVE  ~Loses
<1>1. DatabaseFits(db)  BY KnownIsNat DEF DeviceInv
<1>2. PICK to : to = Revoked(db.device[d], "owner_revoked")  OBVIOUS
<1>3. db' = [db EXCEPT !.device[d] = to] /\ d \in LiveDevices(db)
  BY <1>2 DEF OwnerRevokes, LiveDevices
<1>4. to.reason = "owner_revoked"
  <2>1. "owner_revoked" \in Reason /\ db.device[d] \in Row  BY <1>1, DatabaseFields DEF Reason
  <2> QED  BY <2>1, <1>2, RevokedRow
<1>5. db'.device[d] = to
  <2>1. db'.device = [db.device EXCEPT ![d] = to]
    BY <1>1, <1>3 DEF DatabaseFits, Database
  <2> QED  BY <2>1
<1> QED  BY <1>3, <1>4, <1>5 DEF Loses

LEMMA TimeLosesNothing ==
  ASSUME DeviceInv, NEW d \in DOMAIN db.device, ComeDue(d) \/ GraceEnds(d)
  PROVE  ~Loses
<1>1. DatabaseFits(db) /\ store' = store  BY KnownIsNat DEF DeviceInv, ComeDue, GraceEnds
<1>2. PICK row : row = db.device[d]  OBVIOUS
<1>3. row \in Row  BY <1>1, <1>2, DatabaseFields
<1>4. CASE ComeDue(d)
  <2>1. PICK to : to = [row EXCEPT !.due = TRUE]  OBVIOUS
  <2>2. db' = [db EXCEPT !.device[d] = to]  BY <2>1, <1>2, <1>4 DEF ComeDue
  <2>3. to.status = row.status /\ to.current = row.current /\ to.next = row.next
    BY <2>1, <1>3 DEF Row
  <2> QED  BY <2>2, <2>3, <1>1, <1>2, RowLosesNothing
<1>5. CASE GraceEnds(d)
  <2>1. PICK to : to = [row EXCEPT !.grace = FALSE]  OBVIOUS
  <2>2. db' = [db EXCEPT !.device[d] = to]  BY <2>1, <1>2, <1>5 DEF GraceEnds
  <2>3. to.status = row.status /\ to.current = row.current /\ to.next = row.next
    BY <2>1, <1>3 DEF Row
  <2> QED  BY <2>2, <2>3, <1>1, <1>2, RowLosesNothing
<1> QED  BY <1>4, <1>5

LEMMA QuietLosesNothing ==
  ASSUME db' = db, store' = store
  PROVE  ~Loses
BY DEF Loses

LEMMA TicketLosesNothing ==
  ASSUME DeviceInv, NEW k \in Ticket, IssueFile(k) \/ Lapse(k)
  PROVE  ~Loses
<1>1. DatabaseFits(db) /\ store' = store  BY KnownIsNat DEF DeviceInv, IssueFile, Lapse
<1>2. PICK state \in TicketState : db' = [db EXCEPT !.ticket[k] = state]
  BY FileAndTicketStates DEF IssueFile, Lapse
<1>3. db' \in Database /\ db'.device = db.device /\ db'.made = db.made
  BY <1>1, <1>2, SetTicket
<1>4. Usable(db, store) => Usable(db', store')  BY <1>1, <1>3, SameRowsUsable
<1> QED  BY <1>4 DEF Loses

LEMMA NextLosesNothing ==
  ASSUME DeviceInv, DeviceInv', [Next]_vars
  PROVE  ~Loses
<1>0. db \in Database  BY KnownIsNat DEF DeviceInv, DatabaseFits
<1>1. ASSUME NEW p \in Process, Initialize(p) PROVE ~Loses
  <2>1. ClientStep(harm') /\ db' = db  BY <1>1, InitializeKeepsInv DEF Initialize
  <2> QED  BY <2>1, <1>0, ClientLosesNothing
<1>2. ASSUME NEW p \in Process, NEW k \in Ticket, EnrollTicket(p, k) PROVE ~Loses
  BY <1>2, EnrollTicketKeepsInv, ClientLosesNothing
<1>3. ASSUME NEW p \in Process, NEW op \in {"check", "run"}, SyncNow(p, op) PROVE ~Loses
  <2>1. ClientStep(harm') /\ db' = db  BY <1>3, SyncNowKeepsInv DEF SyncNow
  <2> QED  BY <2>1, <1>0, ClientLosesNothing
<1>4. ASSUME NEW p \in Process, LoadLocalState(p) PROVE ~Loses
  BY <1>4, QuietLosesNothing DEF LoadLocalState
<1>5. ASSUME NEW p \in Process, Receive(p) PROVE ~Loses
  <2>1. ClientStep(harm') /\ db' = db  BY <1>5, ReceiveKeepsInv DEF Receive
  <2> QED  BY <2>1, <1>0, ClientLosesNothing
<1>6. ASSUME NEW p \in Process, Die(p) PROVE ~Loses  BY <1>6, QuietLosesNothing DEF Die
<1>7. CASE Serve  BY <1>7, ServeLosesNothing
<1>8. CASE LoseAnswer  BY <1>8, QuietLosesNothing DEF LoseAnswer
<1>9. ASSUME NEW r \in late, ArriveLate(r) PROVE ~Loses  BY <1>9, ArriveLateLosesNothing
<1>10. ASSUME NEW k \in Ticket, IssueFile(k) \/ Lapse(k) PROVE ~Loses
  BY <1>10, TicketLosesNothing
<1>11. ASSUME NEW d \in DOMAIN db.device, OwnerRevokes(d) \/ ComeDue(d) \/ GraceEnds(d)
       PROVE  ~Loses
  BY <1>11, OwnerRevokesLosesNothing, TimeLosesNothing
<1>12. ASSUME NEW f \in {"main", "bak"}, Damage(f) PROVE ~Loses
  BY <1>12 DEF Damage, Loses
<1>13. CASE UNCHANGED vars  BY <1>13, QuietLosesNothing DEF vars
<1> QED
  BY <1>1, <1>2, <1>3, <1>4, <1>5, <1>6, <1>7, <1>8, <1>9, <1>10, <1>11, <1>12, <1>13 DEF Next

(* "Current stays valid until the new one is first used, so a crash loses    *)
(* nothing" (adr-017-zero-touch-enrollment.md:125): a usable secret on disk *)
(* stays usable, in every step, until the device is revoked or replaced, a  *)
(* file is damaged, or one of the two exceptions of CrashLosesNothing.     *)
THEOREM CrashesLoseNothing == Spec => CrashLosesNothing
<1>1. DeviceInv /\ DeviceInv' /\ [Next]_vars =>
        [Usable(db, store) /\ harm' = {} =>
            \/ Usable(db', store')
            \/ \E d \in LiveDevices(db) : db'.device[d].reason \in {"owner_revoked", "replaced"}]_vars
  BY NextLosesNothing DEF Loses
<1> QED  BY <1>1, DeviceInvariant, PTL DEF Spec, CrashLosesNothing
=============================================================================
