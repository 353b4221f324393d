-------------------------- MODULE Discovery_proofs --------------------------
(***************************************************************************)
(* Theorems about SapRemote and Discovery: the table of remote sources for *)
(* any number of nodes and sources, any size of the table and any timing,  *)
(* and the automatic subscription of the application on top of it.         *)
(*                                                                         *)
(* First what the code does to a table: removal, the sweep, which is a     *)
(* recursive function and needs induction, and the handling of a packet.   *)
(* Then the inductive invariant of SapRemote, its theorems, and those of   *)
(* Discovery, whose steps are steps of SapRemote.                          *)
(***************************************************************************)
EXTENDS Discovery, SequenceTheorems, FiniteSetTheorems, WellFoundedInduction, TLAPS

(* Tables of the code, the sources they hold, and how often.               *)
Entry == [key : Keys, age : Nat]
Held(t) == {t[i].key : i \in DOMAIN t}
Distinct(t) == \A i, j \in DOMAIN t : t[i].key = t[j].key => i = j
Count(t, k) == IF k \in Held(t) THEN 1 ELSE 0

Table(t) == t \in Seq(Entry) /\ Distinct(t)

(* Induction on the naturals, stated for a set.                            *)
LEMMA SetInduction ==
  ASSUME NEW S, 0 \in S, \A n \in Nat : n \in S => n + 1 \in S
  PROVE  Nat \subseteq S
<1> SUFFICES ASSUME Nat \ S # {}
             PROVE  FALSE
  OBVIOUS
<1>1. PICK n \in Nat \ S : \A m \in Nat \ S : ~(<<m, n>> \in OpToRel(<, Nat))
  BY NatLessThanWellFounded, WFMin
<1>2. n - 1 \in Nat /\ n = (n - 1) + 1
  OBVIOUS
<1>3. <<n - 1, n>> \in OpToRel(<, Nat)
  BY <1>2 DEF OpToRel
<1> QED BY <1>1, <1>2, <1>3

(* remove_remote: what is above the entry moves down by one.               *)
LEMMA RemoveAtMoves ==
  ASSUME NEW S, NEW t \in Seq(S), NEW i \in 1 .. Len(t)
  PROVE  /\ RemoveAt(t, i) \in Seq(S)
         /\ Len(RemoveAt(t, i)) = Len(t) - 1
         /\ \A j \in 1 .. Len(t) - 1 : RemoveAt(t, i)[j] = IF j < i THEN t[j] ELSE t[j + 1]
<1> DEFINE lo == SubSeq(t, 1, i - 1)
           hi == SubSeq(t, i + 1, Len(t))
<1>0. Len(t) \in Nat /\ \A j \in 1 .. Len(t) : t[j] \in S
  BY ElementOfSeq, LenProperties
<1>1. lo \in Seq(S) /\ Len(lo) = i - 1 /\ \A j \in 1 .. i - 1 : lo[j] = t[j]
  <2>1. \A j \in 1 .. i - 1 : t[j] \in S
    BY <1>0
  <2> QED BY <1>0, <2>1, SubSeqProperties
<1>2. hi \in Seq(S) /\ Len(hi) = Len(t) - i /\ \A j \in 1 .. Len(t) - i : hi[j] = t[i + j]
  <2>1. \A j \in i + 1 .. Len(t) : t[j] \in S
    BY <1>0
  <2>2. /\ hi \in Seq(S)
        /\ Len(hi) = IF i + 1 <= Len(t) THEN Len(t) - (i + 1) + 1 ELSE 0
        /\ \A j \in 1 .. Len(t) - (i + 1) + 1 : hi[j] = t[(i + 1) + j - 1]
    BY <1>0, <2>1, SubSeqProperties
  <2> QED BY <1>0, <2>2
<1> HIDE DEF lo, hi
<1>3. /\ lo \o hi \in Seq(S)
      /\ Len(lo \o hi) = Len(lo) + Len(hi)
      /\ \A j \in 1 .. Len(lo) + Len(hi) : (lo \o hi)[j] = IF j <= Len(lo) THEN lo[j] ELSE hi[j - Len(lo)]
  BY <1>1, <1>2, ConcatProperties
<1> DEFINE r == lo \o hi
<1>4. RemoveAt(t, i) = r
  BY DEF RemoveAt, lo, hi
<1>5. /\ r \in Seq(S) /\ Len(r) = Len(lo) + Len(hi)
      /\ \A j \in 1 .. Len(lo) + Len(hi) : r[j] = IF j <= Len(lo) THEN lo[j] ELSE hi[j - Len(lo)]
  BY <1>3
<1> HIDE DEF r
<1>6. Len(r) = Len(t) - 1
  BY <1>0, <1>1, <1>2, <1>5
<1>7. ASSUME NEW j \in 1 .. Len(t) - 1
      PROVE  r[j] = IF j < i THEN t[j] ELSE t[j + 1]
  <2>1. CASE j < i
    <3>1. j \in 1 .. i - 1 /\ j \in 1 .. Len(lo) + Len(hi) /\ j <= Len(lo)
      BY <1>0, <1>1, <1>2, <2>1
    <3>2. r[j] = lo[j] /\ lo[j] = t[j]
      BY <1>1, <1>5, <3>1
    <3> QED BY <2>1, <3>2
  <2>2. CASE j >= i
    <3>1. r[j] = hi[j - (i - 1)] /\ j - (i - 1) \in 1 .. Len(t) - i
      BY <1>0, <1>1, <1>2, <1>5, <2>2
    <3>2. hi[j - (i - 1)] = t[i + (j - (i - 1))] /\ i + (j - (i - 1)) = j + 1
      BY <1>0, <1>2, <3>1
    <3> QED BY <1>0, <2>2, <3>1, <3>2
  <2>3. j < i \/ j >= i
    BY <1>0
  <2> QED BY <2>1, <2>2, <2>3, Zenon
<1> QED BY <1>4, <1>5, <1>6, <1>7

(* A removal takes away the key it names and no other, and raises no       *)
(* entry.                                                                  *)
LEMMA RemovedKey ==
  ASSUME NEW t, Table(t), NEW i \in 1 .. Len(t)
  PROVE  /\ Table(RemoveAt(t, i))
         /\ Held(RemoveAt(t, i)) = Held(t) \ {t[i].key}
         /\ t[i].key \in Keys /\ t[i].key \in Held(t)
         /\ \A j \in DOMAIN RemoveAt(t, i) : \E l \in DOMAIN t : j <= l /\ RemoveAt(t, i)[j] = t[l]
         /\ \A l \in DOMAIN t : l # i => \E j \in DOMAIN RemoveAt(t, i) : RemoveAt(t, i)[j] = t[l]
<1> DEFINE r == RemoveAt(t, i)
<1>0. t \in Seq(Entry) /\ Len(t) \in Nat /\ DOMAIN t = 1 .. Len(t) /\ t[i] \in Entry
  BY DEF Table
<1>1. /\ r \in Seq(Entry) /\ Len(r) = Len(t) - 1 /\ DOMAIN r = 1 .. Len(t) - 1
      /\ \A j \in 1 .. Len(t) - 1 : r[j] = IF j < i THEN t[j] ELSE t[j + 1]
  <2>1. r \in Seq(Entry) /\ Len(r) = Len(t) - 1
    BY <1>0, RemoveAtMoves
  <2>2. \A j \in 1 .. Len(t) - 1 : r[j] = IF j < i THEN t[j] ELSE t[j + 1]
    BY <1>0, RemoveAtMoves
  <2> HIDE DEF r
  <2>3. DOMAIN r = 1 .. Len(t) - 1
    BY <2>1
  <2> QED BY <2>1, <2>2, <2>3
<1> HIDE DEF r
<1>2. \A j \in DOMAIN r : \E l \in DOMAIN t :
        j <= l /\ l # i /\ r[j] = t[l] /\ l = IF j < i THEN j ELSE j + 1
  BY <1>0, <1>1
<1>3. \A l \in DOMAIN t : l # i => \E j \in DOMAIN r : r[j] = t[l]
  <2> SUFFICES ASSUME NEW l \in DOMAIN t, l # i
               PROVE  \E j \in DOMAIN r : r[j] = t[l]
    OBVIOUS
  <2>1. CASE l < i
    BY <1>0, <1>1, <2>1
  <2>2. CASE l > i
    <3>1. l - 1 \in DOMAIN r /\ r[l - 1] = t[l]
      BY <1>0, <1>1, <2>2
    <3> QED BY <3>1
  <2> QED BY <1>0, <2>1, <2>2
<1>4. Distinct(r)
  <2> SUFFICES ASSUME NEW a \in DOMAIN r, NEW b \in DOMAIN r, r[a].key = r[b].key
               PROVE  a = b
    BY DEF Distinct
  <2>1. PICK la \in DOMAIN t : r[a] = t[la] /\ la = IF a < i THEN a ELSE a + 1
    BY <1>2
  <2>2. PICK lb \in DOMAIN t : r[b] = t[lb] /\ lb = IF b < i THEN b ELSE b + 1
    BY <1>2
  <2>3. la = lb
    BY <2>1, <2>2 DEF Table, Distinct
  <2> QED BY <1>1, <2>1, <2>2, <2>3
<1>5. Held(r) = Held(t) \ {t[i].key}
  <2>1. ASSUME NEW k \in Held(r)
        PROVE  k \in Held(t) \ {t[i].key}
    <3>1. PICK j \in DOMAIN r : k = r[j].key
      BY DEF Held
    <3>2. PICK l \in DOMAIN t : l # i /\ r[j] = t[l]
      BY <1>2
    <3> QED BY <1>0, <3>1, <3>2 DEF Held, Table, Distinct
  <2>2. ASSUME NEW k \in Held(t) \ {t[i].key}
        PROVE  k \in Held(r)
    <3>1. PICK l \in DOMAIN t : k = t[l].key /\ l # i
      BY DEF Held
    <3> QED BY <1>3, <3>1 DEF Held
  <2> QED BY <2>1, <2>2
<1> QED BY <1>0, <1>1, <1>2, <1>3, <1>4, <1>5 DEF r, Table, Entry, Held

(* What a table and its events may become when entries are swept: what is  *)
(* left moved down, if at all, and each that went was expired and reported *)
(* lost.                                                                   *)
Proper(o) ==
  /\ o = [table |-> o.table, events |-> o.events]
  /\ Table(o.table)
  /\ o.events \in [Keys -> Int]

Swept(o, u) ==
  /\ Proper(u)
  /\ Len(u.table) <= Len(o.table)
  /\ \A k \in Keys : u.events[k] - o.events[k] = Count(u.table, k) - Count(o.table, k)
  /\ \A j \in DOMAIN u.table : \E i \in DOMAIN o.table : j <= i /\ u.table[j] = o.table[i]
  /\ \A i \in DOMAIN o.table : Expired(o.table[i]) \/ \E j \in DOMAIN u.table : u.table[j] = o.table[i]

(* What a sweep that has come down to entry i has done.                    *)
SweptTo(o, u, i) ==
  /\ Swept(o, u)
  /\ Len(u.table) >= i - 1 /\ \A j \in 1 .. i - 1 : u.table[j] = o.table[j]
  /\ \A j \in DOMAIN u.table : j >= i => ~Expired(u.table[j])

(* One step of the loop in expire_remote_sources.                          *)
SweepStep(u, i) ==
  IF Expired(u.table[i])
  THEN [table  |-> RemoveAt(u.table, i),
        events |-> [u.events EXCEPT ![Removed(u.table, i)] = @ - 1]]
  ELSE u

(* One entry looked at, from above: those below it are as they were.       *)
LEMMA SweptToStep ==
  ASSUME NEW o, Proper(o), NEW u, NEW i \in 1 .. Len(o.table), SweptTo(o, u, i + 1)
  PROVE  SweptTo(o, SweepStep(u, i), i)
<1> DEFINE t == u.table
<1>0. /\ Proper(u) /\ Swept(o, u) /\ Len(o.table) \in Nat /\ Table(t) /\ t \in Seq(Entry) /\ Len(t) \in Nat
      /\ DOMAIN t = 1 .. Len(t) /\ DOMAIN o.table = 1 .. Len(o.table)
      /\ Len(t) >= i /\ i \in 1 .. Len(t) /\ (\A j \in 1 .. i : t[j] = o.table[j])
      /\ \A j \in DOMAIN t : j >= i + 1 => ~Expired(t[j])
      /\ Len(t) <= Len(o.table)
  BY DEF SweptTo, Swept, Proper, Table
<1>1. CASE ~Expired(t[i])
  <2>1. SweepStep(u, i) = u
    BY <1>1 DEF SweepStep
  <2>2. \A j \in DOMAIN t : j >= i => ~Expired(t[j])
    BY <1>0, <1>1
  <2>3. Len(t) >= i - 1 /\ \A j \in 1 .. i - 1 : t[j] = o.table[j]
    BY <1>0
  <2> QED BY <1>0, <2>1, <2>2, <2>3 DEF SweptTo
<1>2. CASE Expired(t[i])
  <2> DEFINE k == t[i].key
             r == RemoveAt(t, i)
             v == [table |-> r, events |-> [u.events EXCEPT ![k] = @ - 1]]
  <2>0. SweepStep(u, i) = v
    BY <1>2 DEF SweepStep, Removed
  <2>1. /\ Table(r) /\ Held(r) = Held(t) \ {k} /\ k \in Keys /\ k \in Held(t)
        /\ \A j \in DOMAIN r : \E l \in DOMAIN t : j <= l /\ r[j] = t[l]
        /\ \A l \in DOMAIN t : l # i => \E j \in DOMAIN r : r[j] = t[l]
    BY <1>0, RemovedKey
  <2>2. /\ r \in Seq(Entry) /\ Len(r) = Len(t) - 1
        /\ \A j \in 1 .. Len(t) - 1 : r[j] = IF j < i THEN t[j] ELSE t[j + 1]
    BY <1>0, RemoveAtMoves
  <2> HIDE DEF r, k
  <2>3. DOMAIN r = 1 .. Len(t) - 1
    BY <2>2
  <2>4. v.table = r /\ v.events = [u.events EXCEPT ![k] = @ - 1] /\ v = [table |-> v.table, events |-> v.events]
    OBVIOUS
  <2> HIDE DEF v
  <2>5. Proper(v)
    BY <1>0, <2>1, <2>4 DEF Proper
  <2>6. \A l \in Keys : v.events[l] - o.events[l] = Count(v.table, l) - Count(o.table, l)
    <3> SUFFICES ASSUME NEW l \in Keys
                 PROVE  v.events[l] - o.events[l] = Count(v.table, l) - Count(o.table, l)
      OBVIOUS
    <3>1. u.events[l] - o.events[l] = Count(t, l) - Count(o.table, l)
      BY <1>0 DEF Swept
    <3>2. u.events \in [Keys -> Int] /\ o.events \in [Keys -> Int]
      BY <1>0 DEF Proper
    <3>3. v.events[l] = IF l = k THEN u.events[l] - 1 ELSE u.events[l]
      BY <2>4, <3>2
    <3>4. Count(v.table, l) = IF l = k THEN Count(t, l) - 1 ELSE Count(t, l)
      BY <2>1, <2>4 DEF Count
    <3>5. Count(t, l) \in Int /\ Count(o.table, l) \in Int /\ u.events[l] \in Int /\ o.events[l] \in Int
      BY <3>2 DEF Count
    <3> QED BY <3>1, <3>3, <3>4, <3>5
  <2>7. \A j \in DOMAIN v.table : \E m \in DOMAIN o.table : j <= m /\ v.table[j] = o.table[m]
    <3> SUFFICES ASSUME NEW j \in DOMAIN r
                 PROVE  \E m \in DOMAIN o.table : j <= m /\ r[j] = o.table[m]
      BY <2>4
    <3>1. PICK l \in DOMAIN t : j <= l /\ r[j] = t[l]
      BY <2>1
    <3>2. PICK m \in DOMAIN o.table : l <= m /\ t[l] = o.table[m]
      BY <1>0 DEF Swept
    <3> QED BY <1>0, <2>3, <3>1, <3>2
  <2>8. \A m \in DOMAIN o.table : Expired(o.table[m]) \/ \E j \in DOMAIN v.table : v.table[j] = o.table[m]
    <3> SUFFICES ASSUME NEW m \in DOMAIN o.table, ~Expired(o.table[m])
                 PROVE  \E j \in DOMAIN r : r[j] = o.table[m]
      BY <2>4
    <3>1. PICK l \in DOMAIN t : t[l] = o.table[m]
      BY <1>0 DEF Swept
    <3>2. l # i
      BY <1>2, <3>1
    <3> QED BY <2>1, <3>1, <3>2
  <2>9. Swept(o, v)
    BY <1>0, <2>2, <2>4, <2>5, <2>6, <2>7, <2>8 DEF Swept
  <2>10. Len(v.table) >= i - 1 /\ \A j \in 1 .. i - 1 : v.table[j] = o.table[j]
    <3>1. ASSUME NEW j \in 1 .. i - 1
          PROVE  r[j] = o.table[j]
      <4>1. j \in 1 .. Len(t) - 1 /\ j < i /\ j \in 1 .. i
        BY <1>0
      <4> QED BY <1>0, <2>2, <4>1
    <3> QED BY <1>0, <2>2, <2>4, <3>1
  <2>11. \A j \in DOMAIN v.table : j >= i => ~Expired(v.table[j])
    <3> SUFFICES ASSUME NEW j \in 1 .. Len(t) - 1, j >= i
                 PROVE  ~Expired(r[j])
      BY <2>3, <2>4
    <3>1. r[j] = t[j + 1] /\ j + 1 \in DOMAIN t /\ j + 1 >= i + 1
      <4>1. ~(j < i)
        BY <1>0
      <4>2. r[j] = t[j + 1]
        BY <2>2, <4>1
      <4> QED BY <1>0, <4>2
    <3> QED BY <1>0, <3>1
  <2> QED BY <2>0, <2>9, <2>10, <2>11 DEF SweptTo
<1> QED BY <1>1, <1>2

(* The recursive function of a sweep exists ...                            *)
LEMMA SweepExists ==
  ASSUME NEW o, Len(o.table) \in Nat
  PROVE  \E down : down = [i \in 1 .. Len(o.table) + 1 |->
                          IF i = Len(o.table) + 1 THEN o ELSE SweepStep(down[i + 1], i)]
<1> DEFINE n == Len(o.table)
           Is(f, m) == f = [i \in n + 1 - m .. n + 1 |-> IF i = n + 1 THEN o ELSE SweepStep(f[i + 1], i)]
           S == {m \in Nat : m <= n => \E f : Is(f, m)}
<1> HIDE DEF n
<1>0. n \in Nat
  BY DEF n
<1>1. 0 \in S
  <2> DEFINE f == [i \in n + 1 .. n + 1 |-> o]
  <2>1. Is(f, 0)
    BY <1>0
  <2> QED BY <2>1
<1>2. ASSUME NEW m \in Nat, m \in S
      PROVE  m + 1 \in S
  <2> SUFFICES ASSUME m + 1 <= n
               PROVE  \E f : Is(f, m + 1)
    BY <1>2
  <2>1. PICK f : Is(f, m)
    BY <1>0, <1>2
  <2> DEFINE g == [i \in n - m .. n + 1 |-> IF i = n - m THEN SweepStep(f[i + 1], i) ELSE f[i]]
  <2>2. \A i \in n + 1 - m .. n + 1 : f[i] = IF i = n + 1 THEN o ELSE SweepStep(f[i + 1], i)
    BY <1>0, <2>1
  <2> HIDE DEF Is
  <2>3. \A i \in n - m .. n + 1 : g[i] = IF i = n + 1 THEN o ELSE SweepStep(g[i + 1], i)
    <3> SUFFICES ASSUME NEW i \in n - m .. n + 1
                 PROVE  g[i] = IF i = n + 1 THEN o ELSE SweepStep(g[i + 1], i)
      OBVIOUS
    <3>1. CASE i = n - m
      <4>1. i # n + 1 /\ i + 1 \in n - m .. n + 1 /\ i + 1 # n - m
        BY <1>0, <3>1
      <4>2. g[i + 1] = f[i + 1] /\ g[i] = SweepStep(f[i + 1], i)
        BY <3>1, <4>1
      <4> QED BY <4>1, <4>2
    <3>2. CASE i # n - m /\ i # n + 1
      <4>1. i \in n + 1 - m .. n + 1 /\ i + 1 \in n - m .. n + 1 /\ i + 1 # n - m
        BY <1>0, <3>2
      <4>2. g[i + 1] = f[i + 1] /\ g[i] = f[i]
        BY <3>2, <4>1
      <4>3. f[i] = SweepStep(f[i + 1], i)
        BY <2>2, <3>2, <4>1
      <4> QED BY <3>2, <4>2, <4>3
    <3>3. CASE i = n + 1
      <4>1. i \in n + 1 - m .. n + 1 /\ i # n - m
        BY <1>0, <3>3
      <4>2. g[i] = f[i]
        BY <4>1
      <4> QED BY <2>2, <3>3, <4>1, <4>2
    <3> QED BY <3>1, <3>2, <3>3
  <2>4. g = [i \in n - m .. n + 1 |-> g[i]]
    OBVIOUS
  <2> HIDE DEF g
  <2>5. g = [i \in n + 1 - (m + 1) .. n + 1 |-> IF i = n + 1 THEN o ELSE SweepStep(g[i + 1], i)]
    <3>1. n + 1 - (m + 1) = n - m
      BY <1>0
    <3>2. g = [i \in n - m .. n + 1 |-> IF i = n + 1 THEN o ELSE SweepStep(g[i + 1], i)]
      BY <2>3, <2>4
    <3> QED BY <3>1, <3>2
  <2> QED BY <2>5 DEF Is
<1> HIDE DEF Is
<1>3. n \in S
  <2>1. Nat \subseteq S
    <3> HIDE DEF S
    <3> QED BY <1>1, <1>2, SetInduction
  <2> QED BY <1>0, <2>1
<1>4. PICK f : Is(f, n)
  BY <1>0, <1>3
<1>5. n + 1 - n = 1
  BY <1>0
<1>6. f = [i \in 1 .. n + 1 |-> IF i = n + 1 THEN o ELSE SweepStep(f[i + 1], i)]
  BY <1>4, <1>5 DEF Is
<1> QED BY <1>6 DEF n

(* ... and has looked at every entry when it gets to the first one:        *)
(* expire_remote_sources leaves no expired entry, and drops no other.      *)
LEMMA SweepIsSound ==
  ASSUME NEW o, Proper(o)
  PROVE  /\ Swept(o, ExpireRemoteSources(o))
         /\ \A j \in DOMAIN ExpireRemoteSources(o).table : ~Expired(ExpireRemoteSources(o).table[j])
<1> DEFINE n == Len(o.table)
           down == CHOOSE f : f = [i \in 1 .. n + 1 |-> IF i = n + 1 THEN o ELSE SweepStep(f[i + 1], i)]
<1>0. n \in Nat /\ DOMAIN o.table = 1 .. n
  BY DEF Proper, Table
<1>1. ExpireRemoteSources(o) = down[1]
  BY DEF ExpireRemoteSources, SweepStep
<1>2. down = [i \in 1 .. n + 1 |-> IF i = n + 1 THEN o ELSE SweepStep(down[i + 1], i)]
  BY <1>0, SweepExists
<1> HIDE DEF down, n
<1>3. \A i \in 1 .. n + 1 : down[i] = IF i = n + 1 THEN o ELSE SweepStep(down[i + 1], i)
  BY <1>2
<1> DEFINE S == {m \in Nat : m <= n => SweptTo(o, down[n + 1 - m], n + 1 - m)}
<1>4. 0 \in S
  <2>1. n + 1 - 0 = n + 1 /\ down[n + 1] = o
    BY <1>0, <1>3
  <2>2. Swept(o, o)
    BY <1>0 DEF Swept, Proper, n, Count
  <2>3. SweptTo(o, o, n + 1)
    BY <1>0, <2>2 DEF SweptTo, n
  <2> QED BY <2>1, <2>3
<1>5. ASSUME NEW m \in Nat, m \in S
      PROVE  m + 1 \in S
  <2> SUFFICES ASSUME m + 1 <= n
               PROVE  SweptTo(o, down[n + 1 - (m + 1)], n + 1 - (m + 1))
    BY <1>5
  <2> DEFINE i == n + 1 - (m + 1)
  <2>1. i \in 1 .. n /\ i + 1 = n + 1 - m /\ i # n + 1 /\ i \in 1 .. n + 1
    BY <1>0
  <2>2. SweptTo(o, down[i + 1], i + 1)
    BY <1>0, <1>5, <2>1
  <2> HIDE DEF i
  <2>3. down[i] = SweepStep(down[i + 1], i)
    BY <1>3, <2>1
  <2>4. SweptTo(o, SweepStep(down[i + 1], i), i)
    BY <2>1, <2>2, SweptToStep DEF n
  <2>5. SweptTo(o, down[i], i)
    BY <2>3, <2>4
  <2> QED BY <2>5 DEF i
<1>6. n \in S
  <2>1. Nat \subseteq S
    <3> HIDE DEF S
    <3> QED BY <1>4, <1>5, SetInduction
  <2> QED BY <1>0, <2>1
<1>7. SweptTo(o, down[1], 1)
  <2>1. n + 1 - n = 1
    BY <1>0
  <2> QED BY <1>0, <1>6, <2>1
<1>8. \A j \in DOMAIN down[1].table : j >= 1
  BY <1>7 DEF SweptTo, Swept, Proper, Table
<1> QED BY <1>1, <1>7, <1>8 DEF SweptTo

(* What may be in the socket.                                              *)
Packet == [delete : BOOLEAN, key : Keys]

(* find_remote compares what identifies a source.                          *)
LEMMA SameKey ==
  ASSUME NEW e \in Entry, NEW k \in Keys
  PROVE  SameSource(e, k) <=> e.key = k
<1>1. e.key \in Keys
  BY DEF Entry
<1>2. e.key = [ip |-> e.key.ip, id |-> e.key.id] /\ k = [ip |-> k.ip, id |-> k.id]
  BY <1>1, SapRemoteAssumption
<1> QED BY <1>2, Zenon DEF SameSource

(* find_remote finds the entry of a source if there is one.                *)
LEMMA FindRemoteFinds ==
  ASSUME NEW t, Table(t), NEW k \in Keys
  PROVE  /\ k \in Held(t) => FindRemote(t, k) \in 1 .. Len(t) /\ t[FindRemote(t, k)].key = k
         /\ k \notin Held(t) => FindRemote(t, k) = 0
<1> DEFINE I == {i \in DOMAIN t : SameSource(t[i], k)}
<1>1. t \in Seq(Entry) /\ DOMAIN t = 1 .. Len(t) /\ Len(t) \in Nat
  BY DEF Table
<1>2. \A i \in DOMAIN t : SameSource(t[i], k) <=> t[i].key = k
  BY <1>1, SameKey
<1>3. FindRemote(t, k) = IF I = {} THEN 0 ELSE CHOOSE i \in I : TRUE
  BY DEF FindRemote
<1>4. I # {} => (CHOOSE i \in I : TRUE) \in I
  OBVIOUS
<1>5. k \in Held(t) <=> I # {}
  BY <1>2 DEF Held
<1> QED BY <1>1, <1>2, <1>3, <1>4, <1>5

(* What a packet does to a table: it touches no entry but its own, adds    *)
(* one at the end at most, and each event is a change of the table.        *)
HandledAs(t, d, k, o) ==
  /\ Proper(o)
  /\ Len(o.table) <= MaxRemote
  /\ \A l \in Keys : o.events[l] = Count(o.table, l) - Count(t, l)
  /\ \A l \in Keys : l # k => (l \in Held(t) <=> l \in Held(o.table))
  /\ d => k \notin Held(o.table)
  /\ ~d => (k \in Held(t) => k \in Held(o.table))
  /\ \A j \in DOMAIN o.table :
       \/ o.table[j].key = k /\ o.table[j].age = 0
       \/ o.table[j].key # k /\ \E i \in DOMAIN t : o.table[j] = t[i]
  /\ \A j \in DOMAIN o.table :
       \/ o.table[j].key \notin Held(t)
       \/ \E i \in DOMAIN t : j <= i /\ o.table[j].key = t[i].key

Handled(t, p, o) == HandledAs(t, p.delete, p.key, o)

(* handle_sap_rx does that in each of its cases.                           *)
LEMMA HandleIsSound ==
  ASSUME NEW t, Table(t), Len(t) <= MaxRemote, NEW p \in Packet
  PROVE  Handled(t, p, HandleSapRx(t, p))
<1> DEFINE o == HandleSapRx(t, p)
           k == p.key
           i == FindRemote(t, k)
           zero == [l \in Keys |-> 0]
<1> SUFFICES HandledAs(t, p.delete, k, o)
  BY DEF Handled
<1>0. /\ t \in Seq(Entry) /\ DOMAIN t = 1 .. Len(t) /\ Len(t) \in Nat /\ k \in Keys /\ p.delete \in BOOLEAN
      /\ MaxRemote \in Nat /\ \A j \in DOMAIN t : t[j] \in Entry
  BY SapRemoteAssumption DEF Table, Packet
<1>1. /\ k \in Held(t) => i \in 1 .. Len(t) /\ t[i].key = k
      /\ k \notin Held(t) => i = 0
  BY <1>0, FindRemoteFinds
<1>2. \A j \in DOMAIN t : t[j].key = k => k \in Held(t) /\ j = i
  BY <1>0, <1>1 DEF Held, Table, Distinct
<1>3. CASE p.delete /\ k \in Held(t)
  <2> DEFINE r == RemoveAt(t, i)
             v == [table |-> r, events |-> [l \in Keys |-> IF l = k THEN -1 ELSE 0]]
  <2>1. o = v
    BY <1>0, <1>1, <1>3 DEF HandleSapRx, Outcome, Removed
  <2>2. /\ Table(r) /\ Held(r) = Held(t) \ {k}
        /\ \A j \in DOMAIN r : \E l \in DOMAIN t : j <= l /\ r[j] = t[l]
    BY <1>1, <1>3, RemovedKey
  <2>3. Len(r) = Len(t) - 1
    BY <1>0, <1>1, <1>3, RemoveAtMoves
  <2> HIDE DEF r
  <2>4. v.table = r /\ v = [table |-> v.table, events |-> v.events] /\ v.events \in [Keys -> Int]
        /\ \A l \in Keys : v.events[l] = IF l = k THEN -1 ELSE 0
    OBVIOUS
  <2> HIDE DEF v, i
  <2>5. Proper(v) /\ Len(v.table) <= MaxRemote
    BY <1>0, <2>2, <2>3, <2>4 DEF Proper
  <2>6. \A l \in Keys : v.events[l] = Count(v.table, l) - Count(t, l)
    BY <1>3, <2>2, <2>4 DEF Count
  <2>7. \A j \in DOMAIN r : r[j].key # k
    BY <2>2 DEF Held
  <2> HIDE DEF o
  <2>8. /\ \A l \in Keys : (l # k => (l \in Held(t) <=> l \in Held(v.table)))
        /\ p.delete /\ k \notin Held(v.table)
    BY <1>3, <2>2, <2>4
  <2>9. \A j \in DOMAIN v.table : \E l \in DOMAIN t : v.table[j].key # k /\ j <= l /\ v.table[j] = t[l]
    BY <2>2, <2>4, <2>7
  <2> HIDE DEF k
  <2>10. HandledAs(t, p.delete, k, v)
    BY <2>5, <2>6, <2>8, <2>9 DEF HandledAs
  <2> QED BY <2>1, <2>10
<1>4. CASE ~p.delete /\ k \in Held(t)
  <2> DEFINE r == [t EXCEPT ![i].age = 0]
             v == [table |-> r, events |-> zero]
  <2>1. o = v
    BY <1>0, <1>1, <1>4 DEF HandleSapRx, Nothing
  <2>2. r = [j \in 1 .. Len(t) |-> IF j = i THEN [key |-> k, age |-> 0] ELSE t[j]]
    <3>1. [t[i] EXCEPT !.age = 0] = [key |-> k, age |-> 0]
      BY <1>0, <1>1, <1>4 DEF Entry
    <3>2. t = [j \in 1 .. Len(t) |-> t[j]]
      BY <1>0
    <3>3. r = [t EXCEPT ![i] = [t[i] EXCEPT !.age = 0]]
      BY Zenon
    <3> QED BY <1>0, <1>1, <1>4, <3>1, <3>2, <3>3
  <2> HIDE DEF r
  <2>3. /\ DOMAIN r = 1 .. Len(t)
        /\ \A j \in 1 .. Len(t) : r[j] = IF j = i THEN [key |-> k, age |-> 0] ELSE t[j]
    BY <2>2
  <2>4. /\ r \in Seq(Entry) /\ Len(r) = Len(t)
    <3>1. \A j \in 1 .. Len(t) : r[j] \in Entry
      BY <1>0, <2>3 DEF Entry
    <3> QED BY <1>0, <2>2, <3>1, IsASeq
  <2>5. \A j \in 1 .. Len(t) :
          r[j].key = t[j].key /\ (t[j].key = k => r[j].age = 0) /\ (t[j].key # k => r[j] = t[j])
    BY <1>0, <1>1, <1>2, <1>4, <2>3
  <2>6. Table(r) /\ Held(r) = Held(t)
    <3>1. Held(r) = Held(t)
      BY <1>0, <2>3, <2>5 DEF Held
    <3>2. Distinct(r)
      BY <1>0, <2>3, <2>5 DEF Distinct, Table
    <3> QED BY <2>4, <3>1, <3>2 DEF Table
  <2>7. v.table = r /\ v = [table |-> v.table, events |-> v.events] /\ v.events \in [Keys -> Int]
        /\ \A l \in Keys : v.events[l] = 0
    OBVIOUS
  <2> HIDE DEF v, i
  <2>8. Proper(v) /\ Len(v.table) <= MaxRemote
    BY <1>0, <2>4, <2>6, <2>7 DEF Proper
  <2>9. \A l \in Keys : v.events[l] = Count(v.table, l) - Count(t, l)
    BY <2>6, <2>7 DEF Count
  <2>10. \A j \in DOMAIN r :
          /\ \/ r[j].key = k /\ r[j].age = 0
             \/ r[j].key # k /\ \E l \in DOMAIN t : r[j] = t[l]
          /\ \E l \in DOMAIN t : j <= l /\ r[j].key = t[l].key
    <3> SUFFICES ASSUME NEW j \in DOMAIN r
                 PROVE  /\ \/ r[j].key = k /\ r[j].age = 0
                           \/ r[j].key # k /\ \E l \in DOMAIN t : r[j] = t[l]
                        /\ \E l \in DOMAIN t : j <= l /\ r[j].key = t[l].key
      OBVIOUS
    <3>1. j \in DOMAIN t /\ j <= j
      BY <1>0, <2>3
    <3>2. r[j].key = t[j].key /\ (t[j].key = k => r[j].age = 0) /\ (t[j].key # k => r[j] = t[j])
      BY <1>0, <2>5, <3>1
    <3> QED BY <3>1, <3>2
  <2> HIDE DEF o
  <2>11. Held(v.table) = Held(t) /\ ~p.delete
    BY <1>4, <2>6, <2>7
  <2>12. \A j \in DOMAIN v.table :
          /\ \/ v.table[j].key = k /\ v.table[j].age = 0
             \/ v.table[j].key # k /\ \E l \in DOMAIN t : v.table[j] = t[l]
          /\ \E l \in DOMAIN t : j <= l /\ v.table[j].key = t[l].key
    BY <2>7, <2>10
  <2> HIDE DEF k
  <2>13. HandledAs(t, p.delete, k, v)
    BY <2>8, <2>9, <2>11, <2>12 DEF HandledAs
  <2> QED BY <2>1, <2>13
<1>5. CASE k \notin Held(t) /\ (p.delete \/ TableFull(t))
  <2> DEFINE v == [table |-> t, events |-> zero]
  <2>1. o = v
    BY <1>0, <1>1, <1>5 DEF HandleSapRx, Nothing
  <2>2. v.table = t /\ v = [table |-> v.table, events |-> v.events] /\ v.events \in [Keys -> Int]
        /\ \A l \in Keys : v.events[l] = 0
    OBVIOUS
  <2> HIDE DEF v
  <2>3. Proper(v) /\ \A l \in Keys : v.events[l] = Count(v.table, l) - Count(t, l)
    BY <2>2 DEF Proper, Count
  <2>4. \A j \in DOMAIN t : t[j].key # k /\ j <= j
    BY <1>0, <1>2, <1>5
  <2> HIDE DEF o
  <2>5. Held(v.table) = Held(t) /\ Len(v.table) <= MaxRemote /\ k \notin Held(v.table)
    BY <1>5, <2>2
  <2>6. \A j \in DOMAIN v.table : v.table[j].key # k /\ \E l \in DOMAIN t : j <= l /\ v.table[j] = t[l]
    BY <2>2, <2>4
  <2> HIDE DEF k
  <2>7. HandledAs(t, p.delete, k, v)
    BY <2>3, <2>5, <2>6 DEF HandledAs
  <2> QED BY <2>1, <2>7
<1>6. CASE k \notin Held(t) /\ ~p.delete /\ ~TableFull(t)
  <2> DEFINE e == [key |-> k, age |-> 0]
             r == Append(t, e)
             v == [table |-> r, events |-> [l \in Keys |-> IF l = k THEN 1 ELSE 0]]
  <2>1. o = v
    BY <1>0, <1>1, <1>6 DEF HandleSapRx, Outcome
  <2>2. e \in Entry /\ e.key = k /\ e.age = 0
    BY <1>0 DEF Entry
  <2> HIDE DEF e
  <2>3. /\ r \in Seq(Entry) /\ Len(r) = Len(t) + 1 /\ (\A j \in 1 .. Len(t) : r[j] = t[j])
        /\ r[Len(t) + 1] = e
    BY <1>0, <2>2, AppendProperties
  <2> HIDE DEF r
  <2>4. DOMAIN r = 1 .. Len(t) + 1
    BY <1>0, <2>3
  <2>5. \A j \in DOMAIN r : (j \in DOMAIN t /\ r[j] = t[j]) \/ (j = Len(t) + 1 /\ r[j] = e)
    BY <1>0, <2>3, <2>4
  <2>6. DOMAIN t \subseteq DOMAIN r /\ Len(t) + 1 \in DOMAIN r
    BY <1>0, <2>4
  <2>7. Held(r) = Held(t) \cup {k}
    <3>1. Held(r) \subseteq Held(t) \cup {k}
      BY <2>2, <2>5 DEF Held
    <3>2. Held(t) \subseteq Held(r)
      BY <1>0, <2>3, <2>6 DEF Held
    <3>3. k \in Held(r)
      BY <2>2, <2>3, <2>6 DEF Held
    <3> QED BY <3>1, <3>2, <3>3
  <2>8. Distinct(r)
    <3> SUFFICES ASSUME NEW a \in DOMAIN r, NEW b \in DOMAIN r, r[a].key = r[b].key
                 PROVE  a = b
      BY DEF Distinct
    <3>1. \A j \in DOMAIN t : t[j].key # k
      BY <1>2, <1>6
    <3> QED BY <1>6, <2>2, <2>5, <3>1 DEF Table, Distinct
  <2>9. v.table = r /\ v = [table |-> v.table, events |-> v.events] /\ v.events \in [Keys -> Int]
        /\ \A l \in Keys : v.events[l] = IF l = k THEN 1 ELSE 0
    OBVIOUS
  <2> HIDE DEF v, i
  <2>10. Proper(v) /\ Len(v.table) <= MaxRemote
    BY <1>0, <1>6, <2>3, <2>8, <2>9 DEF Proper, Table, TableFull
  <2>11. \A l \in Keys : v.events[l] = Count(v.table, l) - Count(t, l)
    BY <1>6, <2>7, <2>9 DEF Count
  <2>12. \A j \in DOMAIN r :
          /\ \/ r[j].key = k /\ r[j].age = 0
             \/ r[j].key # k /\ \E l \in DOMAIN t : r[j] = t[l]
          /\ \/ r[j].key \notin Held(t)
             \/ \E l \in DOMAIN t : j <= l /\ r[j].key = t[l].key
    <3> SUFFICES ASSUME NEW j \in DOMAIN r
                 PROVE  /\ \/ r[j].key = k /\ r[j].age = 0
                           \/ r[j].key # k /\ \E l \in DOMAIN t : r[j] = t[l]
                        /\ \/ r[j].key \notin Held(t)
                           \/ \E l \in DOMAIN t : j <= l /\ r[j].key = t[l].key
      OBVIOUS
    <3>1. CASE j \in DOMAIN t /\ r[j] = t[j]
      <4>1. r[j].key # k /\ j <= j
        BY <1>0, <1>2, <1>6, <3>1
      <4> QED BY <3>1, <4>1
    <3>2. CASE r[j] = e
      BY <1>6, <2>2, <3>2
    <3> QED BY <2>5, <3>1, <3>2
  <2> HIDE DEF o
  <2>13. Held(v.table) = Held(t) \cup {k} /\ ~p.delete
    BY <1>6, <2>7, <2>9
  <2>14. \A j \in DOMAIN v.table :
          /\ \/ v.table[j].key = k /\ v.table[j].age = 0
             \/ v.table[j].key # k /\ \E l \in DOMAIN t : v.table[j] = t[l]
          /\ \/ v.table[j].key \notin Held(t)
             \/ \E l \in DOMAIN t : j <= l /\ v.table[j].key = t[l].key
    BY <2>9, <2>12
  <2> HIDE DEF k
  <2>15. HandledAs(t, p.delete, k, v)
    BY <2>10, <2>11, <2>13, <2>14 DEF HandledAs
  <2> QED BY <2>1, <2>15
<1>7. \/ p.delete /\ k \in Held(t)
      \/ ~p.delete /\ k \in Held(t)
      \/ k \notin Held(t) /\ (p.delete \/ TableFull(t))
      \/ k \notin Held(t) /\ ~p.delete /\ ~TableFull(t)
  BY Zenon
<1> HIDE DEF i, o, k
<1> QED BY <1>3, <1>4, <1>5, <1>6, <1>7, Zenon

(* What a table is made of.                                                *)
LEMMA TableFacts ==
  ASSUME NEW t, Table(t)
  PROVE  /\ t \in Seq(Entry) /\ Len(t) \in Nat /\ DOMAIN t = 1 .. Len(t)
         /\ \A i \in DOMAIN t : t[i] \in Entry /\ t[i].key \in Keys /\ t[i].age \in Nat
<1>1. t \in Seq(Entry) /\ Len(t) \in Nat /\ DOMAIN t = 1 .. Len(t)
  BY DEF Table
<1>2. \A i \in DOMAIN t : t[i] \in Entry
  BY <1>1, ElementOfSeq
<1> QED BY <1>1, <1>2 DEF Entry

(* What the packets of P, at most one, and the sweep make of a table. *)
Received(t, P, o) ==
  /\ Proper(o)
  /\ Len(o.table) <= MaxRemote
  /\ \A l \in Keys : o.events[l] = Count(o.table, l) - Count(t, l)
  /\ \A j \in DOMAIN o.table : ~Expired(o.table[j])
  /\ \A j \in DOMAIN o.table :
       \/ \E p \in P : o.table[j].key = p.key /\ o.table[j].age = 0
       \/ (\A p \in P : o.table[j].key # p.key) /\ \E i \in DOMAIN t : o.table[j] = t[i]
  /\ \A j \in DOMAIN o.table :
       \/ o.table[j].key \notin Held(t)
       \/ \E i \in DOMAIN t : j <= i /\ o.table[j].key = t[i].key
  /\ \A l \in Held(o.table) : l \in Held(t) \/ \E p \in P : ~p.delete /\ l = p.key
  /\ \A i \in DOMAIN t : t[i].key \notin Held(o.table) =>
       \/ Expired(t[i]) /\ \A p \in P : t[i].key # p.key
       \/ \E p \in P : p.delete /\ t[i].key = p.key

(* sap_rx_task with a packet: it is handled, and the table swept.          *)
LEMMA PacketIsReceived ==
  ASSUME NEW t, Table(t), Len(t) <= MaxRemote, NEW p \in Packet
  PROVE  Received(t, {p}, ExpireRemoteSources(HandleSapRx(t, p)))
<1> DEFINE h == HandleSapRx(t, p)
           o == ExpireRemoteSources(h)
           d == p.delete
           k == p.key
           P == {p}
<1>1. HandledAs(t, d, k, h)
  BY HandleIsSound DEF Handled
<1>2. Proper(h)
  BY <1>1 DEF HandledAs
<1>3. Swept(h, o) /\ \A j \in DOMAIN o.table : ~Expired(o.table[j])
  <2> HIDE DEF h
  <2> QED BY <1>2, SweepIsSound
<1>0. k \in Keys
  BY DEF Packet
<1> SUFFICES Received(t, P, o)
  OBVIOUS
<1>4. \A q \in P : q.delete = d /\ q.key = k
  OBVIOUS
<1>5. p \in P
  OBVIOUS
<1> HIDE DEF h, o, d, k, P
<1>6. /\ Proper(o) /\ Table(o.table) /\ Table(h.table) /\ Table(t)
      /\ Len(o.table) \in Nat /\ Len(h.table) \in Nat /\ Len(t) \in Nat
      /\ DOMAIN o.table = 1 .. Len(o.table) /\ DOMAIN h.table = 1 .. Len(h.table) /\ DOMAIN t = 1 .. Len(t)
      /\ \A j \in DOMAIN h.table : h.table[j].key \in Keys
  <2>1. Proper(o) /\ Table(o.table) /\ Table(h.table)
    BY <1>2, <1>3 DEF Swept, Proper
  <2> QED BY <2>1, TableFacts
<1>7. Len(o.table) <= MaxRemote
  BY <1>1, <1>3, <1>6, SapRemoteAssumption DEF HandledAs, Swept
<1>8. \A l \in Keys : o.events[l] = Count(o.table, l) - Count(t, l)
  <2> SUFFICES ASSUME NEW l \in Keys
               PROVE  o.events[l] = Count(o.table, l) - Count(t, l)
    OBVIOUS
  <2>1. h.events[l] = Count(h.table, l) - Count(t, l)
    BY <1>1 DEF HandledAs
  <2>2. o.events[l] - h.events[l] = Count(o.table, l) - Count(h.table, l)
    BY <1>3 DEF Swept
  <2>3. o.events[l] \in Int /\ h.events[l] \in Int
    BY <1>2, <1>6 DEF Proper
  <2>4. Count(o.table, l) \in Int /\ Count(h.table, l) \in Int /\ Count(t, l) \in Int
    BY DEF Count
  <2> QED BY <2>1, <2>2, <2>3, <2>4
<1>9. \A j \in DOMAIN o.table : \E i \in DOMAIN h.table : j <= i /\ o.table[j] = h.table[i]
  BY <1>3 DEF Swept
<1>10. \A i \in DOMAIN h.table : Expired(h.table[i]) \/ \E j \in DOMAIN o.table : o.table[j] = h.table[i]
  BY <1>3 DEF Swept
<1>11. \A j \in DOMAIN h.table :
         \/ h.table[j].key = k /\ h.table[j].age = 0
         \/ h.table[j].key # k /\ \E i \in DOMAIN t : h.table[j] = t[i]
  BY <1>1 DEF HandledAs
<1>12. \A j \in DOMAIN o.table :
       \/ \E q \in P : o.table[j].key = q.key /\ o.table[j].age = 0
       \/ (\A q \in P : o.table[j].key # q.key) /\ \E i \in DOMAIN t : o.table[j] = t[i]
  <2> TAKE j \in DOMAIN o.table
  <2>1. PICK m \in DOMAIN h.table : o.table[j] = h.table[m]
    BY <1>9
  <2>2. \/ o.table[j].key = k /\ o.table[j].age = 0
        \/ o.table[j].key # k /\ \E i \in DOMAIN t : o.table[j] = t[i]
    BY <1>11, <2>1
  <2> QED BY <1>4, <1>5, <2>2
<1>13. \A j \in DOMAIN o.table :
       \/ o.table[j].key \notin Held(t)
       \/ \E i \in DOMAIN t : j <= i /\ o.table[j].key = t[i].key
  <2> TAKE j \in DOMAIN o.table
  <2>1. PICK m \in DOMAIN h.table : j <= m /\ o.table[j] = h.table[m]
    BY <1>9
  <2>2. \/ h.table[m].key \notin Held(t)
        \/ \E i \in DOMAIN t : m <= i /\ h.table[m].key = t[i].key
    BY <1>1 DEF HandledAs
  <2> QED BY <1>6, <2>1, <2>2
<1>14. Held(o.table) \subseteq Held(h.table)
  BY <1>9 DEF Held
<1>15. \A l \in Held(o.table) : l \in Held(t) \/ \E q \in P : ~q.delete /\ l = q.key
  <2> TAKE l \in Held(o.table)
  <2>1. l \in Held(h.table) /\ l \in Keys
    BY <1>6, <1>14 DEF Held
  <2>2. l # k => l \in Held(t)
    BY <1>1, <2>1 DEF HandledAs
  <2>3. l = k => ~d
    BY <1>1, <2>1 DEF HandledAs
  <2> QED BY <1>4, <1>5, <2>2, <2>3
<1>16. \A i \in DOMAIN t : t[i].key \notin Held(o.table) =>
       \/ Expired(t[i]) /\ \A q \in P : t[i].key # q.key
       \/ \E q \in P : q.delete /\ t[i].key = q.key
  <2> SUFFICES ASSUME NEW i \in DOMAIN t, t[i].key \notin Held(o.table), ~(t[i].key = k /\ d)
               PROVE  Expired(t[i]) /\ t[i].key # k
    BY <1>4, <1>5
  <2>0. t[i].key \in Held(t) /\ t[i].key \in Keys
    BY TableFacts DEF Held
  <2>1. t[i].key \in Held(h.table)
    BY <1>1, <2>0 DEF HandledAs
  <2>2. PICK j \in DOMAIN h.table : h.table[j].key = t[i].key
    BY <2>1 DEF Held
  <2>3. Expired(h.table[j])
    BY <1>10, <2>2 DEF Held
  <2>4. ~(h.table[j].age = 0)
    BY <2>3, SapRemoteAssumption DEF Expired
  <2>5. h.table[j].key # k /\ \E m \in DOMAIN t : h.table[j] = t[m]
    BY <1>11, <2>4
  <2>6. PICK m \in DOMAIN t : h.table[j] = t[m]
    BY <2>5
  <2>7. m = i
    BY <1>6, <2>2, <2>6 DEF Table, Distinct
  <2> QED BY <2>2, <2>3, <2>5, <2>6, <2>7
<1> QED BY <1>3, <1>6, <1>7, <1>8, <1>12, <1>13, <1>15, <1>16 DEF Received

(* sap_rx_task when nothing came: the table is swept.                      *)
LEMMA SilenceIsReceived ==
  ASSUME NEW t, Table(t), Len(t) <= MaxRemote
  PROVE  Received(t, {}, ExpireRemoteSources(Nothing(t)))
<1> DEFINE h == Nothing(t)
           o == ExpireRemoteSources(h)
<1>1. h.table = t /\ h = [table |-> h.table, events |-> h.events] /\ h.events \in [Keys -> Int]
      /\ \A l \in Keys : h.events[l] = 0
  BY DEF Nothing
<1> HIDE DEF h
<1>2. Proper(h)
  BY <1>1 DEF Proper
<1>3. Swept(h, o) /\ \A j \in DOMAIN o.table : ~Expired(o.table[j])
  BY <1>2, SweepIsSound
<1> SUFFICES Received(t, {}, o)
  BY DEF h
<1> HIDE DEF o
<1>4. /\ Proper(o) /\ Table(o.table)
      /\ Len(o.table) \in Nat /\ Len(t) \in Nat /\ Len(o.table) <= Len(t)
      /\ DOMAIN o.table = 1 .. Len(o.table) /\ DOMAIN t = 1 .. Len(t)
      /\ MaxRemote \in Nat
  BY <1>1, <1>3, SapRemoteAssumption DEF Swept, Proper, Table
<1>5. \A l \in Keys : o.events[l] = Count(o.table, l) - Count(t, l)
  <2> SUFFICES ASSUME NEW l \in Keys
               PROVE  o.events[l] = Count(o.table, l) - Count(t, l)
    OBVIOUS
  <2>1. o.events[l] - h.events[l] = Count(o.table, l) - Count(t, l) /\ h.events[l] = 0 /\ o.events[l] \in Int
    BY <1>1, <1>3, <1>4 DEF Swept, Proper
  <2> QED BY <2>1
<1>6. \A j \in DOMAIN o.table : \E i \in DOMAIN t : j <= i /\ o.table[j] = t[i]
  BY <1>1, <1>3 DEF Swept
<1>7. \A i \in DOMAIN t : Expired(t[i]) \/ \E j \in DOMAIN o.table : o.table[j] = t[i]
  BY <1>1, <1>3 DEF Swept
<1>8. Held(o.table) \subseteq Held(t)
  BY <1>6 DEF Held
<1>9. \A i \in DOMAIN t : t[i].key \notin Held(o.table) => Expired(t[i])
  BY <1>7 DEF Held
<1>10. Len(o.table) <= MaxRemote
  BY <1>4
<1>11. \A j \in DOMAIN o.table : \E i \in DOMAIN t : j <= i /\ o.table[j].key = t[i].key
  BY <1>6
<1> QED BY <1>3, <1>4, <1>5, <1>6, <1>8, <1>9, <1>10, <1>11 DEF Received

(* SetToSeq lists the members of a finite set, all of them.                *)
LEMMA SetToSeqLists ==
  ASSUME NEW S, IsFiniteSet(S)
  PROVE  SetToSeq(S) \in Seq(S) /\ {SetToSeq(S)[i] : i \in DOMAIN SetToSeq(S)} = S
<1> DEFINE n == Cardinality(S)
           f == SetToSeq(S)
<1>1. n \in Nat /\ ExistsBijection(1 .. n, S)
  BY FS_CardinalityType
<1>2. \E g \in [1 .. n -> S] : IsInjective(g)
  BY <1>1 DEF ExistsBijection, Bijection, Injection
<1>3. f \in [1 .. n -> S] /\ IsInjective(f)
  BY <1>2 DEF SetToSeq
<1> HIDE DEF f
<1>4. f \in Injection(1 .. n, S)
  BY <1>3 DEF Injection
<1>5. Cardinality(1 .. n) = n
  BY <1>1, FS_Interval
<1>6. f \in Surjection(1 .. n, S)
  BY <1>4, <1>5, FS_Injection
<1>7. f \in Seq(S) /\ DOMAIN f = 1 .. n
  BY <1>1, <1>3
<1>8. {f[i] : i \in DOMAIN f} = S
  BY <1>3, <1>6, <1>7 DEF Surjection
<1> QED BY <1>7, <1>8 DEF f

(* The packets in the socket; and how old a source that is announced may   *)
(* be: an interval for each announcement it missed, and as long as its     *)
(* node has waited since, or an interval if an announcement waits to be    *)
(* received.                                                               *)
InSocket == {inbox[i] : i \in DOMAIN inbox}

Budget(k) ==
  missed[k] * TxInterval + (IF Announce(k) \in InSocket THEN TxInterval ELSE tx_wait[k.ip])

(* What the inductive invariant says of the variables ...                  *)
SapType ==
  /\ Table(remote)
  /\ waited \in 0 .. SelectTimeout
  /\ balance \in [Keys -> Int]
  /\ sender \in [Keys -> {"new", "announced", "removed"}]
  /\ tx_wait \in [Nodes -> 0 .. TxInterval]
  /\ missed \in [Keys -> Nat]
  /\ inbox \in Seq(Packet)

(* ... of the table, its events and its ages ...                           *)
TableInv ==
  /\ Len(remote) <= MaxRemote
  /\ \A k \in Keys : balance[k] = Count(remote, k)
  /\ \A i \in DOMAIN remote : remote[i].age < Timeout + waited

(* ... of sources that are not announced yet or not any more ...           *)
SenderInv ==
  /\ \A k \in Keys : sender[k] = "new" => k \notin Held(remote) /\ Announce(k) \notin InSocket
  /\ \A k \in Keys : Delete(k) \in InSocket => sender[k] = "removed"

(* ... and of those that are.                                              *)
AgeInv ==
  \A k \in On : \A i \in DOMAIN remote : remote[i].key = k => remote[i].age <= Budget(k)

SapInv == SapType /\ TableInv /\ SenderInv /\ AgeInv

(* The constants are what they should be.                                  *)
LEMMA ConstantFacts ==
  /\ MaxRemote \in Nat /\ MaxRemote > 0 /\ TxInterval \in Nat /\ TxInterval > 0
  /\ SelectTimeout \in Nat /\ Timeout \in Nat /\ Timeout > 0
  /\ IsFiniteSet(Keys) /\ \A k \in Keys : k.ip \in Nodes
BY SapRemoteAssumption

(* Announcements and deletions differ, and each names its source.          *)
LEMMA PacketFacts ==
  /\ \A k \in Keys : Announce(k) \in Packet /\ Announce(k).key = k /\ ~Announce(k).delete
  /\ \A k \in Keys : Delete(k) \in Packet /\ Delete(k).key = k /\ Delete(k).delete
  /\ \A k, l \in Keys : Announce(k) # Delete(l)
  /\ \A k, l \in Keys : Announce(k) = Announce(l) => k = l
  /\ \A k, l \in Keys : Delete(k) = Delete(l) => k = l
<1>1. \A k \in Keys : Announce(k) \in Packet /\ Announce(k).key = k /\ ~Announce(k).delete
  BY DEF Announce, Packet
<1>2. \A k \in Keys : Delete(k) \in Packet /\ Delete(k).key = k /\ Delete(k).delete
  BY DEF Delete, Packet
<1> QED BY <1>1, <1>2

(* There are no other packets.                                             *)
LEMMA PacketIs ==
  ASSUME NEW p \in Packet
  PROVE  p.key \in Keys /\ (p.delete => p = Delete(p.key)) /\ (~p.delete => p = Announce(p.key))
<1>1. p.delete \in BOOLEAN /\ p.key \in Keys /\ p = [delete |-> p.delete, key |-> p.key]
  BY DEF Packet
<1>2. p.delete => p.delete = TRUE
  BY <1>1
<1>3. ~p.delete => p.delete = FALSE
  BY <1>1
<1> QED BY <1>1, <1>2, <1>3, Zenon DEF Delete, Announce

(* What arrives is in the socket, with what was there.                     *)
LEMMA Arrives ==
  ASSUME NEW ps \in Seq(Packet), inbox \in Seq(Packet), Arrive(ps)
  PROVE  inbox' \in Seq(Packet) /\ InSocket' = InSocket \cup {ps[i] : i \in DOMAIN ps}
<1> DEFINE q == inbox \o ps
<1>1. /\ q \in Seq(Packet) /\ Len(q) = Len(inbox) + Len(ps)
      /\ \A i \in 1 .. Len(inbox) + Len(ps) : q[i] = IF i <= Len(inbox) THEN inbox[i] ELSE ps[i - Len(inbox)]
  BY ConcatProperties
<1>2. inbox' = q
  BY DEF Arrive
<1> HIDE DEF q
<1>3. Len(inbox) \in Nat /\ Len(ps) \in Nat /\ DOMAIN inbox = 1 .. Len(inbox) /\ DOMAIN ps = 1 .. Len(ps)
  OBVIOUS
<1>4. DOMAIN q = 1 .. Len(inbox) + Len(ps)
  BY <1>1
<1>5. {q[i] : i \in DOMAIN q} = InSocket \cup {ps[i] : i \in DOMAIN ps}
  <2>1. ASSUME NEW i \in DOMAIN q
        PROVE  q[i] \in InSocket \cup {ps[j] : j \in DOMAIN ps}
    <3>1. CASE i <= Len(inbox)
      <4>1. i \in DOMAIN inbox /\ q[i] = inbox[i]
        BY <1>1, <1>3, <1>4, <3>1
      <4> QED BY <4>1 DEF InSocket
    <3>2. CASE i > Len(inbox)
      <4>1. i - Len(inbox) \in DOMAIN ps /\ q[i] = ps[i - Len(inbox)]
        BY <1>1, <1>3, <1>4, <3>2
      <4> QED BY <4>1
    <3> QED BY <1>3, <1>4, <3>1, <3>2
  <2>2. ASSUME NEW i \in DOMAIN inbox
        PROVE  \E j \in DOMAIN q : q[j] = inbox[i]
    BY <1>1, <1>3, <1>4
  <2>3. ASSUME NEW i \in DOMAIN ps
        PROVE  \E j \in DOMAIN q : q[j] = ps[i]
    <3>1. i + Len(inbox) \in DOMAIN q /\ ~(i + Len(inbox) <= Len(inbox)) /\ i + Len(inbox) - Len(inbox) = i
      BY <1>3, <1>4
    <3>2. q[i + Len(inbox)] = ps[i]
      BY <1>1, <1>4, <3>1
    <3> QED BY <3>1, <3>2
  <2> QED BY <2>1, <2>2, <2>3 DEF InSocket
<1> QED BY <1>1, <1>2, <1>5 DEF InSocket

(* What is taken from the socket was there; the rest still is.             *)
LEMMA Takes ==
  ASSUME inbox \in Seq(Packet), inbox # <<>>, inbox' = Tail(inbox)
  PROVE  inbox' \in Seq(Packet) /\ InSocket = {Head(inbox)} \cup InSocket' /\ Head(inbox) \in Packet
<1>1. /\ Head(inbox) \in Packet /\ Tail(inbox) \in Seq(Packet) /\ Len(Tail(inbox)) = Len(inbox) - 1
      /\ \A i \in 1 .. Len(Tail(inbox)) : Tail(inbox)[i] = inbox[i + 1]
  BY HeadTailProperties
<1>2. Head(inbox) = inbox[1] /\ Len(inbox) \in Nat /\ Len(inbox) > 0 /\ DOMAIN inbox = 1 .. Len(inbox)
  OBVIOUS
<1> DEFINE q == Tail(inbox)
<1> HIDE DEF q
<1>3. DOMAIN q = 1 .. Len(inbox) - 1 /\ \A i \in 1 .. Len(inbox) - 1 : q[i] = inbox[i + 1]
  BY <1>1, <1>2 DEF q
<1>4. InSocket = {inbox[1]} \cup {q[i] : i \in DOMAIN q}
  <2>1. ASSUME NEW i \in DOMAIN inbox, i # 1
        PROVE  \E j \in DOMAIN q : q[j] = inbox[i]
    <3>1. i - 1 \in DOMAIN q /\ q[i - 1] = inbox[i]
      BY <1>2, <1>3, <2>1
    <3> QED BY <3>1
  <2>2. \A j \in DOMAIN q : j + 1 \in DOMAIN inbox /\ q[j] = inbox[j + 1]
    BY <1>2, <1>3
  <2>3. 1 \in DOMAIN inbox
    BY <1>2
  <2> QED BY <2>1, <2>2, <2>3 DEF InSocket
<1>5. inbox' = q
  BY DEF q
<1> QED BY <1>1, <1>2, <1>4, <1>5 DEF InSocket, q

(* Of a round of announcements those arrive that are not lost.             *)
LEMMA Transmits ==
  ASSUME inbox \in Seq(Packet), missed \in [Keys -> Nat],
         NEW ks \in SUBSET Keys, NEW lost \in SUBSET ks, Transmit(ks, lost)
  PROVE  /\ inbox' \in Seq(Packet) /\ InSocket' = InSocket \cup {Announce(k) : k \in ks \ lost}
         /\ missed' \in [Keys -> Nat]
         /\ \A k \in Keys : missed'[k] = IF k \in lost THEN missed[k] + 1 ELSE missed[k]
<1> DEFINE T == {Announce(k) : k \in ks \ lost}
           f == [k \in ks \ lost |-> Announce(k)]
<1>1. IsFiniteSet(ks \ lost)
  BY ConstantFacts, FS_Subset
<1>2. f \in Surjection(ks \ lost, T)
  BY DEF Surjection
<1>3. IsFiniteSet(T)
  <2> HIDE DEF T, f
  <2> QED BY <1>1, <1>2, FS_Surjection
<1>4. T \subseteq Packet
  BY PacketFacts
<1>5. Arrive(SetToSeq(T))
  BY DEF Transmit
<1> HIDE DEF T
<1>6. SetToSeq(T) \in Seq(T) /\ {SetToSeq(T)[i] : i \in DOMAIN SetToSeq(T)} = T
  BY <1>3, SetToSeqLists
<1>7. SetToSeq(T) \in Seq(Packet)
  BY <1>4, <1>6
<1>8. inbox' \in Seq(Packet) /\ InSocket' = InSocket \cup T
  BY <1>5, <1>6, <1>7, Arrives
<1>9. missed' = [k \in Keys |-> IF k \in lost THEN missed[k] + 1 ELSE missed[k]]
  BY DEF Transmit
<1> QED BY <1>8, <1>9 DEF T

(* The table, the events and the socket after sap_rx_task woke up for the  *)
(* packets of P.                                                           *)
WakesUp(P, o) ==
  /\ Received(remote, P, o)
  /\ remote' = o.table
  /\ balance' = [k \in Keys |-> balance[k] + o.events[k]]
  /\ waited' = 0
  /\ \/ P = {} /\ UNCHANGED <<net, inbox>>
     \/ /\ inbox # <<>> /\ P = {Head(inbox)} /\ inbox' = Tail(inbox)
        /\ missed' = [missed EXCEPT ![Head(inbox).key] = 0]
        /\ UNCHANGED <<sender, tx_wait>>

(* What sap_rx_task does when it wakes up, whatever woke it up.            *)
LEMMA Receives ==
  ASSUME SapType, Len(remote) <= MaxRemote, RxPacket \/ RxTimeout
  PROVE  \E P \in SUBSET Packet : \E o : WakesUp(P, o)
<1>1. CASE RxTimeout
  <2> DEFINE o == ExpireRemoteSources(Nothing(remote))
  <2>1. Received(remote, {}, o)
    BY SilenceIsReceived DEF SapType
  <2> HIDE DEF o
  <2>2. Update(o) /\ waited' = 0 /\ UNCHANGED <<net, inbox>>
    BY <1>1 DEF RxTimeout, o
  <2> QED BY <2>1, <2>2 DEF Update, WakesUp
<1>2. CASE RxPacket
  <2> DEFINE p == Head(inbox)
             o == ExpireRemoteSources(HandleSapRx(remote, p))
  <2>1. p \in Packet
    BY <1>2, HeadTailProperties DEF SapType, RxPacket
  <2>2. Received(remote, {p}, o)
    <3> HIDE DEF p
    <3> QED BY <2>1, PacketIsReceived DEF SapType
  <2> HIDE DEF o
  <2>3. /\ Update(o) /\ waited' = 0 /\ inbox # <<>> /\ inbox' = Tail(inbox)
        /\ missed' = [missed EXCEPT ![p.key] = 0] /\ UNCHANGED <<sender, tx_wait>>
    BY <1>2 DEF RxPacket, o
  <2> QED BY <2>1, <2>2, <2>3 DEF Update, WakesUp
<1> QED BY <1>1, <1>2

(* The invariant holds at the start.                                       *)
LEMMA InitKeeps == Init => SapInv
<1> SUFFICES ASSUME Init
             PROVE  SapInv
  OBVIOUS
<1>1. /\ remote = <<>> /\ waited = 0 /\ inbox = <<>> /\ balance = [k \in Keys |-> 0]
      /\ sender = [k \in Keys |-> "new"] /\ missed = [k \in Keys |-> 0]
      /\ tx_wait \in [Nodes -> 0 .. TxInterval]
  BY DEF Init
<1>2. SapType
  BY <1>1, ConstantFacts DEF SapType, Table, Distinct
<1>3. Held(remote) = {} /\ InSocket = {}
  BY <1>1 DEF Held, InSocket
<1>4. TableInv
  BY <1>1, <1>3, ConstantFacts DEF TableInv, Count
<1>5. SenderInv
  BY <1>1, <1>3 DEF SenderInv
<1>6. AgeInv
  BY <1>1 DEF AgeInv
<1> QED BY <1>2, <1>4, <1>5, <1>6 DEF SapInv

(* A wake-up of sap_rx_task keeps it.                                      *)
LEMMA RxKeeps ==
  ASSUME SapInv, RxPacket \/ RxTimeout
  PROVE  SapInv'
<1>0. SapType /\ TableInv /\ SenderInv /\ AgeInv /\ Len(remote) <= MaxRemote
  BY DEF SapInv, TableInv
<1>p. PICK P \in SUBSET Packet : \E o : WakesUp(P, o)
  BY <1>0, Receives
<1>w. PICK o : WakesUp(P, o)
  BY <1>p
<1>1. /\ Received(remote, P, o)
      /\ remote' = o.table
      /\ balance' = [k \in Keys |-> balance[k] + o.events[k]]
      /\ waited' = 0
      /\ \/ P = {} /\ UNCHANGED <<net, inbox>>
         \/ /\ inbox # <<>> /\ P = {Head(inbox)} /\ inbox' = Tail(inbox)
            /\ missed' = [missed EXCEPT ![Head(inbox).key] = 0]
            /\ UNCHANGED <<sender, tx_wait>>
  BY <1>w DEF WakesUp
<1>2. /\ inbox' \in Seq(Packet) /\ InSocket' \subseteq InSocket /\ InSocket \subseteq InSocket' \cup P
      /\ P \subseteq InSocket
  <2>1. CASE P = {} /\ UNCHANGED <<net, inbox>>
    BY <1>0, <2>1 DEF SapType, InSocket
  <2>2. CASE inbox # <<>> /\ P = {Head(inbox)} /\ inbox' = Tail(inbox)
    <3>1. inbox' \in Seq(Packet) /\ InSocket = {Head(inbox)} \cup InSocket'
      BY <1>0, <2>2, Takes DEF SapType
    <3> QED BY <2>2, <3>1
  <2> QED BY <1>1, <2>1, <2>2
<1>3. /\ sender' = sender /\ tx_wait' = tx_wait /\ missed' \in [Keys -> Nat]
      /\ \A k \in Keys : (\A p \in P : p.key # k) => missed'[k] = missed[k]
  <2>1. CASE P = {} /\ UNCHANGED <<net, inbox>>
    BY <1>0, <2>1 DEF SapType, net
  <2>2. CASE /\ P = {Head(inbox)} /\ missed' = [missed EXCEPT ![Head(inbox).key] = 0]
             /\ UNCHANGED <<sender, tx_wait>>
    BY <1>0, <2>2 DEF SapType
  <2> QED BY <1>1, <2>1, <2>2
<1>4. Proper(o) /\ Table(remote') /\ Len(remote') <= MaxRemote /\ o.events \in [Keys -> Int]
  BY <1>1 DEF Received, Proper
<1>5. SapType'
  BY <1>0, <1>1, <1>2, <1>3, <1>4, ConstantFacts DEF SapType
<1>6. TableInv'
  <2>1. ASSUME NEW k \in Keys
        PROVE  balance'[k] = Count(remote', k)
    <3>1. balance'[k] = balance[k] + o.events[k] /\ balance[k] = Count(remote, k)
      BY <1>0, <1>1 DEF TableInv
    <3>2. o.events[k] = Count(remote', k) - Count(remote, k)
      BY <1>1 DEF Received
    <3>3. Count(remote', k) \in Int /\ Count(remote, k) \in Int
      BY DEF Count
    <3> QED BY <3>1, <3>2, <3>3
  <2>2. ASSUME NEW i \in DOMAIN remote'
        PROVE  remote'[i].age < Timeout + waited'
    <3>1. ~(remote'[i].age >= Timeout)
      BY <1>1 DEF Received, Expired
    <3>2. remote'[i].age \in Nat
      BY <1>4, TableFacts
    <3> QED BY <1>1, <3>1, <3>2, ConstantFacts
  <2> QED BY <1>4, <2>1, <2>2 DEF TableInv
<1>7. SenderInv'
  <2>1. ASSUME NEW k \in Keys, sender'[k] = "new"
        PROVE  k \notin Held(remote') /\ Announce(k) \notin InSocket'
    <3>1. k \notin Held(remote) /\ Announce(k) \notin InSocket
      BY <1>0, <1>3, <2>1 DEF SenderInv
    <3>2. \A p \in P : ~p.delete => p.key # k
      BY <1>2, <3>1, PacketIs
    <3> QED BY <1>1, <1>2, <3>1, <3>2 DEF Received
  <2>2. ASSUME NEW k \in Keys, Delete(k) \in InSocket'
        PROVE  sender'[k] = "removed"
    BY <1>0, <1>2, <1>3, <2>2 DEF SenderInv
  <2> QED BY <2>1, <2>2 DEF SenderInv
<1>8. AgeInv'
  <2> SUFFICES ASSUME NEW k \in On', NEW i \in DOMAIN remote', remote'[i].key = k
               PROVE  remote'[i].age <= Budget(k)'
    BY DEF AgeInv
  <2>1. k \in Keys /\ k \in On /\ k.ip \in Nodes
    BY <1>3, ConstantFacts DEF On
  <2>2. missed'[k] * TxInterval \in Nat /\ tx_wait'[k.ip] \in Nat /\ TxInterval \in Nat
    <3>1. missed'[k] \in Nat /\ TxInterval \in Nat
      BY <1>3, <2>1, ConstantFacts
    <3>2. missed'[k] * TxInterval \in Nat
      BY <3>1
    <3>3. tx_wait'[k.ip] \in Nat
      BY <1>5, <2>1, ConstantFacts DEF SapType
    <3> QED BY <3>1, <3>2, <3>3
  <2>3. CASE remote'[i].age = 0
    <3> DEFINE b == missed'[k] * TxInterval
               w == IF Announce(k) \in InSocket' THEN TxInterval ELSE tx_wait'[k.ip]
    <3>1. b \in Nat /\ w \in Nat
      BY <2>2
    <3>2. Budget(k)' = b + w
      BY DEF Budget
    <3> HIDE DEF b, w
    <3> QED BY <2>3, <3>1, <3>2
  <2>4. CASE (\A p \in P : k # p.key) /\ \E j \in DOMAIN remote : remote'[i] = remote[j]
    <3>1. PICK j \in DOMAIN remote : remote'[i] = remote[j]
      BY <2>4
    <3>2. remote[j].age <= Budget(k)
      BY <1>0, <2>1, <3>1 DEF AgeInv
    <3>3. missed'[k] = missed[k]
      BY <1>3, <2>1, <2>4
    <3>4. Announce(k) \in InSocket' <=> Announce(k) \in InSocket
      BY <1>2, <2>1, <2>4, PacketFacts
    <3>5. Budget(k)' = Budget(k)
      BY <1>3, <3>3, <3>4 DEF Budget
    <3> QED BY <3>1, <3>2, <3>5
  <2>5. \/ \E p \in P : k = p.key /\ remote'[i].age = 0
        \/ (\A p \in P : k # p.key) /\ \E j \in DOMAIN remote : remote'[i] = remote[j]
    BY <1>1 DEF Received
  <2> QED BY <2>3, <2>4, <2>5
<1> QED BY <1>5, <1>6, <1>7, <1>8 DEF SapInv

(* The bound on the age of a source is a number, within one interval of    *)
(* what its missed announcements account for ...                           *)
LEMMA BudgetType ==
  ASSUME SapType, NEW k \in Keys
  PROVE  /\ missed[k] \in Nat /\ tx_wait[k.ip] \in 0 .. TxInterval
         /\ missed[k] * TxInterval \in Nat /\ Budget(k) \in Nat
         /\ Budget(k) <= missed[k] * TxInterval + TxInterval
<1>1. missed[k] \in Nat /\ tx_wait[k.ip] \in 0 .. TxInterval /\ TxInterval \in Nat
  BY ConstantFacts DEF SapType
<1>2. missed[k] * TxInterval \in Nat
  BY <1>1
<1> DEFINE b == missed[k] * TxInterval
           w == IF Announce(k) \in InSocket THEN TxInterval ELSE tx_wait[k.ip]
<1>3. Budget(k) = b + w /\ w \in Nat /\ w <= TxInterval /\ b \in Nat
  BY <1>1, <1>2 DEF Budget
<1>4. b + w \in Nat /\ b + w <= b + TxInterval
  <2> HIDE DEF b, w
  <2> QED BY <1>1, <1>3
<1> QED BY <1>1, <1>2, <1>3, <1>4

(* The same as a state predicate.                                          *)
BudgetOk == \A k \in Keys :
  /\ missed[k] \in Nat /\ tx_wait[k.ip] \in 0 .. TxInterval
  /\ missed[k] * TxInterval \in Nat /\ Budget(k) \in Nat
  /\ Budget(k) <= missed[k] * TxInterval + TxInterval

(* ... and so it is after a step.                                          *)
LEMMA BudgetTypeNext == SapType' => BudgetOk'
<1>1. SapType => BudgetOk
  BY BudgetType DEF BudgetOk
<1> QED BY <1>1, PTL

(* The ages stay bounded when no bound shrinks.                            *)
LEMMA AgeHolds ==
  ASSUME SapInv, SapType', remote' = remote,
         \A k \in On' : k \in Held(remote) => k \in On /\ Budget(k) <= Budget(k)'
  PROVE  AgeInv'
<1> SUFFICES ASSUME NEW k \in On', NEW i \in DOMAIN remote, remote[i].key = k
             PROVE  remote[i].age <= Budget(k)'
  BY DEF AgeInv
<1>1. k \in Held(remote) /\ remote[i].age \in Nat /\ k \in Keys
  BY TableFacts DEF Held, SapInv, SapType
<1>2. k \in On /\ Budget(k) <= Budget(k)'
  BY <1>1
<1>3. remote[i].age <= Budget(k)
  BY <1>2 DEF SapInv, AgeInv
<1>4. Budget(k) \in Nat /\ Budget(k)' \in Nat
  BY <1>1, BudgetType, BudgetTypeNext DEF SapInv, BudgetOk
<1> QED BY <1>1, <1>2, <1>3, <1>4

(* A new source keeps the invariant: it was in no table.                   *)
LEMMA AddSourceKeeps ==
  ASSUME SapInv, NEW a \in Keys, AddSource(a)
  PROVE  SapInv'
<1>0. SapType /\ TableInv /\ SenderInv
  BY DEF SapInv
<1>1. /\ sender[a] = "new" /\ sender' = [sender EXCEPT ![a] = "announced"]
      /\ remote' = remote /\ waited' = waited /\ balance' = balance /\ tx_wait' = tx_wait
  BY DEF AddSource, rx
<1>2. PICK lost \in SUBSET {a} : Transmit({a}, lost)
  BY DEF AddSource
<1>3. /\ inbox' \in Seq(Packet) /\ InSocket' = InSocket \cup {Announce(k) : k \in {a} \ lost}
      /\ missed' \in [Keys -> Nat]
      /\ \A k \in Keys : missed'[k] = IF k \in lost THEN missed[k] + 1 ELSE missed[k]
  <2>1. PICK c \in SUBSET Keys : c = {a}
    OBVIOUS
  <2>2. lost \in SUBSET c /\ Transmit(c, lost)
    BY <1>2, <2>1
  <2>3. /\ inbox' \in Seq(Packet) /\ InSocket' = InSocket \cup {Announce(k) : k \in c \ lost}
        /\ missed' \in [Keys -> Nat]
        /\ \A k \in Keys : missed'[k] = IF k \in lost THEN missed[k] + 1 ELSE missed[k]
    BY <1>0, <2>2, Transmits DEF SapType
  <2> QED BY <2>1, <2>3
<1>4. SapType'
  BY <1>0, <1>1, <1>3 DEF SapType
<1>5. TableInv'
  BY <1>0, <1>1 DEF TableInv
<1>6. /\ sender'[a] = "announced" /\ \A k \in Keys : k # a => sender'[k] = sender[k]
      /\ a \notin Held(remote)
  BY <1>0, <1>1 DEF SapType, SenderInv
<1>7. SenderInv'
  <2>1. ASSUME NEW k \in Keys, sender'[k] = "new"
        PROVE  k \notin Held(remote') /\ Announce(k) \notin InSocket'
    <3>1. k # a /\ sender[k] = "new"
      BY <1>6, <2>1
    <3>2. k \notin Held(remote) /\ Announce(k) \notin InSocket
      BY <1>0, <3>1 DEF SenderInv
    <3> QED BY <1>1, <1>3, <3>1, <3>2, PacketFacts
  <2>2. ASSUME NEW k \in Keys, Delete(k) \in InSocket'
        PROVE  sender'[k] = "removed"
    <3>1. Delete(k) \in InSocket
      BY <1>3, <2>2, PacketFacts
    <3>2. sender[k] = "removed"
      BY <1>0, <3>1 DEF SenderInv
    <3> QED BY <1>1, <1>6, <3>2
  <2> QED BY <2>1, <2>2 DEF SenderInv
<1>8. AgeInv'
  <2>1. ASSUME NEW k \in On', k \in Held(remote)
        PROVE  k \in On /\ Budget(k) <= Budget(k)'
    <3>1. k \in Keys /\ k # a /\ k \in On /\ missed'[k] = missed[k]
      BY <1>2, <1>3, <1>6, <2>1 DEF On
    <3>2. Announce(k) \in InSocket' <=> Announce(k) \in InSocket
      BY <1>3, <3>1, PacketFacts
    <3>3. Budget(k)' = Budget(k) /\ Budget(k) \in Nat
      BY <1>0, <1>1, <3>1, <3>2, BudgetType DEF Budget
    <3> QED BY <3>1, <3>3
  <2> QED BY <1>1, <1>4, <2>1, AgeHolds
<1> QED BY <1>4, <1>5, <1>7, <1>8 DEF SapInv

(* A round of announcements keeps it: each source is in the socket         *)
(* afterwards or has missed one more.                                      *)
LEMMA TxRoundKeeps ==
  ASSUME SapInv, NEW n \in Nodes, TxRound(n)
  PROVE  SapInv'
<1> DEFINE ks == {k \in On : k.ip = n}
<1>0. SapType /\ TableInv /\ SenderInv
  BY DEF SapInv
<1>1. /\ tx_wait[n] = TxInterval /\ tx_wait' = [tx_wait EXCEPT ![n] = 0]
      /\ remote' = remote /\ waited' = waited /\ balance' = balance /\ sender' = sender
  BY DEF TxRound, rx
<1>2. PICK lost \in SUBSET ks : Transmit(ks, lost)
  BY DEF TxRound
<1>3. /\ inbox' \in Seq(Packet) /\ InSocket' = InSocket \cup {Announce(k) : k \in ks \ lost}
      /\ missed' \in [Keys -> Nat]
      /\ \A k \in Keys : missed'[k] = IF k \in lost THEN missed[k] + 1 ELSE missed[k]
  <2>1. ks \in SUBSET Keys
    BY DEF On
  <2>2. PICK c \in SUBSET Keys : c = ks
    BY <2>1
  <2>3. lost \in SUBSET c /\ Transmit(c, lost)
    BY <1>2, <2>2
  <2>4. /\ inbox' \in Seq(Packet) /\ InSocket' = InSocket \cup {Announce(k) : k \in c \ lost}
        /\ missed' \in [Keys -> Nat]
        /\ \A k \in Keys : missed'[k] = IF k \in lost THEN missed[k] + 1 ELSE missed[k]
    BY <1>0, <2>3, Transmits DEF SapType
  <2> QED BY <2>2, <2>4
<1>4. SapType'
  <2>1. tx_wait' \in [Nodes -> 0 .. TxInterval]
    BY <1>0, <1>1, ConstantFacts DEF SapType
  <2> QED BY <1>0, <1>1, <1>3, <2>1 DEF SapType
<1>5. TableInv'
  BY <1>0, <1>1 DEF TableInv
<1>6. SenderInv'
  <2>1. ASSUME NEW k \in Keys, sender'[k] = "new"
        PROVE  k \notin Held(remote') /\ Announce(k) \notin InSocket'
    <3>1. k \notin Held(remote) /\ Announce(k) \notin InSocket
      BY <1>0, <1>1, <2>1 DEF SenderInv
    <3>2. \A l \in ks : l \in Keys /\ l # k
      BY <1>1, <2>1 DEF On
    <3> HIDE DEF ks
    <3> QED BY <1>1, <1>3, <3>1, <3>2, PacketFacts
  <2>2. ASSUME NEW k \in Keys, Delete(k) \in InSocket'
        PROVE  sender'[k] = "removed"
    <3>1. \A l \in ks : l \in Keys
      BY DEF On
    <3>2. Delete(k) \in InSocket
      BY <1>3, <2>2, <3>1, PacketFacts
    <3> QED BY <1>0, <1>1, <3>2 DEF SenderInv
  <2> QED BY <2>1, <2>2 DEF SenderInv
<1>7. AgeInv'
  <2>1. ASSUME NEW k \in On', k \in Held(remote)
        PROVE  k \in On /\ Budget(k) <= Budget(k)'
    <3>0. k \in Keys /\ k \in On
      BY <1>1, <2>1 DEF On
    <3> DEFINE M == missed[k] * TxInterval
               M1 == missed'[k] * TxInterval
    <3>1. /\ missed[k] \in Nat /\ TxInterval \in Nat /\ M \in Nat /\ M1 \in Nat /\ M <= M1
      <4>1. missed[k] \in Nat /\ TxInterval \in Nat /\ (missed'[k] = missed[k] \/ missed'[k] = missed[k] + 1)
        BY <1>0, <1>3, <3>0, ConstantFacts DEF SapType
      <4>2. (missed[k] + 1) * TxInterval = M + TxInterval /\ M \in Nat
        BY <4>1
      <4> HIDE DEF M
      <4>3. M1 = M \/ M1 = M + TxInterval
        BY <4>1, <4>2 DEF M
      <4> HIDE DEF M1
      <4> QED BY <4>1, <4>2, <4>3
    <3>2. /\ Budget(k) = M + (IF Announce(k) \in InSocket THEN TxInterval ELSE tx_wait[k.ip])
          /\ Budget(k)' = M1 + (IF Announce(k) \in InSocket' THEN TxInterval ELSE tx_wait'[k.ip])
      BY DEF Budget
    <3>3. Budget(k) <= M + TxInterval
      BY <1>0, <3>0, BudgetType
    <3>4. Budget(k) \in Nat /\ tx_wait'[k.ip] \in Nat
      BY <1>0, <1>4, <3>0, BudgetType, BudgetTypeNext DEF BudgetOk
    <3>5. CASE Announce(k) \in InSocket'
      <4>1. Budget(k)' = M1 + TxInterval
        BY <3>2, <3>5
      <4> HIDE DEF M, M1
      <4> QED BY <3>0, <3>1, <3>3, <3>4, <4>1
    <3>6. CASE Announce(k) \notin InSocket'
      <4>1. Budget(k)' = M1 + tx_wait'[k.ip]
        BY <3>2, <3>6
      <4>2. Announce(k) \notin InSocket
        BY <1>3, <3>6
      <4>3. CASE k.ip = n
        <5>1. k \in lost
          BY <1>3, <3>0, <3>6, <4>3
        <5>2. M1 = M + TxInterval
          <6>1. missed'[k] = missed[k] + 1
            BY <1>3, <3>0, <5>1
          <6> QED BY <3>1, <6>1
        <5> HIDE DEF M, M1
        <5> QED BY <3>0, <3>1, <3>3, <3>4, <4>1, <5>2
      <4>4. CASE k.ip # n
        <5>1. k \notin lost /\ missed'[k] = missed[k]
          BY <1>2, <1>3, <3>0, <4>4
        <5>2. tx_wait'[k.ip] = tx_wait[k.ip]
          BY <1>0, <1>1, <3>0, <4>4, ConstantFacts DEF SapType
        <5>3. Budget(k)' = Budget(k)
          BY <3>2, <3>6, <4>2, <5>1, <5>2
        <5> QED BY <3>0, <3>4, <5>3
      <4> QED BY <4>3, <4>4
    <3> QED BY <3>5, <3>6
  <2> QED BY <1>1, <1>4, <2>1, AgeHolds
<1> QED BY <1>4, <1>5, <1>6, <1>7 DEF SapInv

(* A source that goes keeps it: nothing is claimed of it any more.         *)
LEMMA RemoveSourceKeeps ==
  ASSUME SapInv, NEW a \in Keys, RemoveSource(a)
  PROVE  SapInv'
<1>0. SapType /\ TableInv /\ SenderInv
  BY DEF SapInv
<1>1. /\ a \in On /\ sender' = [sender EXCEPT ![a] = "removed"] /\ missed' = [missed EXCEPT ![a] = 0]
      /\ remote' = remote /\ waited' = waited /\ balance' = balance /\ tx_wait' = tx_wait
  BY DEF RemoveSource, rx
<1>2. PICK ps \in {<<>>, <<Delete(a)>>, <<Delete(a), Announce(a)>>} : Arrive(ps)
  BY DEF RemoveSource
<1>3. ps \in Seq(Packet) /\ {ps[i] : i \in DOMAIN ps} \subseteq {Delete(a), Announce(a)}
  <2>1. Delete(a) \in Packet /\ Announce(a) \in Packet
    BY PacketFacts
  <2>2. CASE ps = <<>>
    BY <2>2
  <2>3. CASE ps = <<Delete(a)>>
    BY <2>1, <2>3
  <2>4. CASE ps = <<Delete(a), Announce(a)>>
    BY <2>1, <2>4
  <2> QED BY <2>2, <2>3, <2>4
<1>4. /\ inbox' \in Seq(Packet) /\ InSocket \subseteq InSocket'
      /\ InSocket' \subseteq InSocket \cup {Delete(a), Announce(a)}
  BY <1>0, <1>2, <1>3, Arrives DEF SapType
<1>5. SapType'
  BY <1>0, <1>1, <1>4 DEF SapType
<1>6. TableInv'
  BY <1>0, <1>1 DEF TableInv
<1>7. sender'[a] = "removed" /\ \A k \in Keys : k # a => sender'[k] = sender[k] /\ missed'[k] = missed[k]
  BY <1>0, <1>1 DEF SapType
<1>8. SenderInv'
  <2>1. ASSUME NEW k \in Keys, sender'[k] = "new"
        PROVE  k \notin Held(remote') /\ Announce(k) \notin InSocket'
    <3>1. k # a /\ sender[k] = "new"
      BY <1>7, <2>1
    <3>2. k \notin Held(remote) /\ Announce(k) \notin InSocket
      BY <1>0, <3>1 DEF SenderInv
    <3> QED BY <1>1, <1>4, <3>1, <3>2, PacketFacts
  <2>2. ASSUME NEW k \in Keys, Delete(k) \in InSocket'
        PROVE  sender'[k] = "removed"
    <3>1. CASE k = a
      BY <1>7, <3>1
    <3>2. CASE k # a
      <4>1. Delete(k) \in InSocket
        BY <1>4, <2>2, <3>2, PacketFacts
      <4> QED BY <1>0, <1>7, <3>2, <4>1 DEF SenderInv
    <3> QED BY <3>1, <3>2
  <2> QED BY <2>1, <2>2 DEF SenderInv
<1>9. AgeInv'
  <2>1. ASSUME NEW k \in On', k \in Held(remote)
        PROVE  k \in On /\ Budget(k) <= Budget(k)'
    <3>1. k \in Keys /\ k # a /\ k \in On /\ missed'[k] = missed[k]
      BY <1>7, <2>1 DEF On
    <3>2. Announce(k) \in InSocket' <=> Announce(k) \in InSocket
      BY <1>4, <3>1, PacketFacts
    <3>3. Budget(k)' = Budget(k) /\ Budget(k) \in Nat
      BY <1>0, <1>1, <3>1, <3>2, BudgetType DEF Budget
    <3> QED BY <3>1, <3>3
  <2> QED BY <1>1, <1>5, <2>1, AgeHolds
<1> QED BY <1>5, <1>6, <1>8, <1>9 DEF SapInv

(* Time makes each entry older, and does nothing else to the table.        *)
LEMMA TickHolds ==
  ASSUME SapType, Tick
  PROVE  /\ DOMAIN remote' = DOMAIN remote /\ Len(remote') = Len(remote)
         /\ \A i \in DOMAIN remote : remote'[i].key = remote[i].key /\ remote'[i].age = remote[i].age + 1
         /\ Table(remote') /\ Held(remote') = Held(remote)
<1>2. remote' = [i \in DOMAIN remote |-> [remote[i] EXCEPT !.age = @ + 1]]
  BY DEF Tick
<1>3. /\ remote \in Seq(Entry) /\ Len(remote) \in Nat /\ DOMAIN remote = 1 .. Len(remote)
      /\ \A i \in DOMAIN remote : remote[i] \in Entry /\ remote[i].key \in Keys /\ remote[i].age \in Nat
  BY TableFacts DEF SapType
<1>4. /\ DOMAIN remote' = DOMAIN remote
      /\ \A i \in DOMAIN remote : remote'[i] \in Entry /\ remote'[i].key = remote[i].key
                                  /\ remote'[i].age = remote[i].age + 1
  <2>1. ASSUME NEW i \in DOMAIN remote
        PROVE  remote'[i] \in Entry /\ remote'[i].key = remote[i].key /\ remote'[i].age = remote[i].age + 1
    <3>1. remote'[i] = [remote[i] EXCEPT !.age = @ + 1]
      BY <1>2
    <3>2. remote[i] \in [key : Keys, age : Nat]
      BY <1>3 DEF Entry
    <3>3. [remote[i] EXCEPT !.age = @ + 1] = [key |-> remote[i].key, age |-> remote[i].age + 1]
      BY <3>2
    <3> QED BY <1>3, <3>1, <3>3 DEF Entry
  <2> QED BY <1>2, <2>1
<1>5. remote' \in Seq(Entry) /\ Len(remote') = Len(remote)
  <2>1. remote' = [i \in 1 .. Len(remote) |-> remote'[i]]
    BY <1>2, <1>3, <1>4
  <2>2. \A i \in 1 .. Len(remote) : remote'[i] \in Entry
    BY <1>3, <1>4
  <2> QED BY <1>3, <2>1, <2>2, IsASeq
<1>6. Table(remote') /\ Held(remote') = Held(remote)
  <2>1. Distinct(remote')
    BY <1>4 DEF SapType, Table, Distinct
  <2>2. Held(remote') = Held(remote)
    BY <1>4 DEF Held
  <2> QED BY <1>5, <2>1, <2>2 DEF Table
<1> QED BY <1>4, <1>5, <1>6

(* Time keeps the invariant: nobody is late, and every node waited as long *)
(* as its sources aged.                                                    *)
LEMMA TickKeeps ==
  ASSUME SapInv, Tick
  PROVE  SapInv'
<1>0. SapType /\ TableInv /\ SenderInv /\ AgeInv
  BY DEF SapInv
<1>1. /\ inbox = <<>> /\ waited < SelectTimeout /\ (\A n \in Nodes : tx_wait[n] < TxInterval)
      /\ waited' = waited + 1 /\ tx_wait' = [n \in Nodes |-> tx_wait[n] + 1]
      /\ balance' = balance /\ sender' = sender /\ missed' = missed /\ inbox' = inbox
  BY DEF Tick
<1>3. \A i \in DOMAIN remote : remote[i].key \in Keys /\ remote[i].age \in Nat
  BY <1>0, TableFacts DEF SapType
<1>4. /\ DOMAIN remote' = DOMAIN remote /\ Len(remote') = Len(remote)
      /\ \A i \in DOMAIN remote : remote'[i].key = remote[i].key /\ remote'[i].age = remote[i].age + 1
  BY <1>0, TickHolds
<1>6. Table(remote') /\ Held(remote') = Held(remote)
  BY <1>0, TickHolds
<1>7. SapType'
  <2>1. waited' \in 0 .. SelectTimeout
    BY <1>0, <1>1, ConstantFacts DEF SapType
  <2>2. tx_wait' \in [Nodes -> 0 .. TxInterval]
    BY <1>0, <1>1, ConstantFacts DEF SapType
  <2> QED BY <1>0, <1>1, <1>6, <2>1, <2>2 DEF SapType
<1>8. TableInv'
  <2>1. \A k \in Keys : balance'[k] = Count(remote', k)
    BY <1>0, <1>1, <1>6 DEF TableInv, Count
  <2>2. ASSUME NEW i \in DOMAIN remote'
        PROVE  remote'[i].age < Timeout + waited'
    <3>1. remote[i].age < Timeout + waited /\ waited \in Nat
      BY <1>0, <1>4, ConstantFacts DEF TableInv, SapType
    <3> QED BY <1>1, <1>3, <1>4, <3>1, ConstantFacts
  <2> QED BY <1>0, <1>4, <2>1, <2>2 DEF TableInv
<1>9. InSocket = {} /\ InSocket' = {}
  BY <1>1 DEF InSocket
<1>10. SenderInv'
  BY <1>0, <1>1, <1>6, <1>9 DEF SenderInv
<1>11. AgeInv'
  <2> SUFFICES ASSUME NEW k \in On, NEW i \in DOMAIN remote, remote[i].key = k
               PROVE  remote[i].age + 1 <= Budget(k)'
    BY <1>1, <1>4 DEF AgeInv, On
  <2> DEFINE M == missed[k] * TxInterval
  <2>1. k \in Keys /\ k.ip \in Nodes /\ M \in Nat /\ tx_wait[k.ip] \in 0 .. TxInterval
    BY <1>0, <1>3, BudgetType, ConstantFacts
  <2>2. remote[i].age <= M + tx_wait[k.ip]
    BY <1>0, <1>9 DEF AgeInv, Budget
  <2>3. Budget(k)' = M + (tx_wait[k.ip] + 1)
    BY <1>1, <1>9, <2>1 DEF Budget
  <2>4. remote[i].age \in Nat
    BY <1>3
  <2> HIDE DEF M
  <2> QED BY <2>1, <2>2, <2>3, <2>4
<1> QED BY <1>7, <1>8, <1>10, <1>11 DEF SapInv

(* So does a step of another part.                                         *)
LEMMA StutterKeeps ==
  ASSUME SapInv, UNCHANGED vars
  PROVE  SapInv'
<1>1. /\ remote' = remote /\ waited' = waited /\ balance' = balance /\ sender' = sender
      /\ tx_wait' = tx_wait /\ missed' = missed /\ inbox' = inbox
  BY DEF vars, rx, net
<1> QED BY <1>1 DEF SapInv, SapType, TableInv, SenderInv, AgeInv, InSocket, Budget, On

(* Every step keeps it.                                                    *)
LEMMA SapStep == SapInv /\ [Next]_vars => SapInv'
BY RxKeeps, AddSourceKeeps, TxRoundKeeps, RemoveSourceKeeps, TickKeeps, StutterKeeps DEF Next

(* The inductive invariant of SapRemote.                                   *)
THEOREM SapInvariant == Spec => []SapInv
BY InitKeeps, SapStep, PTL DEF Spec

(* For any set of sources, size of the table and timing: the events of the *)
(* callback add up to the table, which holds no source twice and never     *)
(* outgrows its array (EventsMatchTable: handle_sap_rx,                    *)
(* expire_remote_sources).                                                 *)
THEOREM EventsMatch == Spec => []EventsMatchTable
<1>1. SapInv => EventsMatchTable
  <2> SUFFICES ASSUME SapInv
               PROVE  EventsMatchTable
    OBVIOUS
  <2>1. SapType /\ TableInv
    BY DEF SapInv
  <2>2. ASSUME NEW k \in Keys
        PROVE  balance[k] = Cardinality({i \in DOMAIN remote : remote[i].key = k}) /\ balance[k] <= 1
    <3> DEFINE I == {i \in DOMAIN remote : remote[i].key = k}
    <3>1. balance[k] = Count(remote, k)
      BY <2>1 DEF TableInv
    <3>2. CASE k \in Held(remote)
      <4>1. PICK i \in DOMAIN remote : remote[i].key = k
        BY <3>2 DEF Held
      <4>2. I = {i}
        BY <2>1, <4>1 DEF SapType, Table, Distinct
      <4>3. Cardinality(I) = 1
        BY <4>2, FS_Singleton
      <4> QED BY <3>1, <3>2, <4>3 DEF Count
    <3>3. CASE k \notin Held(remote)
      <4>1. I = {}
        BY <3>3 DEF Held
      <4>2. Cardinality(I) = 0
        BY <4>1, FS_EmptySet
      <4> QED BY <3>1, <3>3, <4>2 DEF Count
    <3> QED BY <3>2, <3>3
  <2> QED BY <2>1, <2>2 DEF TableInv, EventsMatchTable
<1> QED BY <1>1, SapInvariant, PTL

(* No entry grows older than the timeout and one select()                  *)
(* (SilenceIsNoticed: sap_rx_task sweeps whenever it wakes up).            *)
THEOREM SilenceNoticed == Spec => []SilenceIsNoticed
<1>1. SapInv => SilenceIsNoticed
  <2> SUFFICES ASSUME SapInv, NEW i \in DOMAIN remote
               PROVE  remote[i].age <= Timeout + SelectTimeout
    BY DEF SilenceIsNoticed
  <2>1. /\ remote[i].age < Timeout + waited /\ waited \in 0 .. SelectTimeout
        /\ remote[i].age \in Nat
    BY TableFacts DEF SapInv, SapType, TableInv
  <2> QED BY <2>1, ConstantFacts
<1> QED BY <1>1, SapInvariant, PTL

(* From a bound on a product to one on the quotient.                       *)
LEMMA Quotient ==
  ASSUME NEW a \in Nat, NEW b \in Nat, b > 0, NEW m \in Nat, a <= m * b + b
  PROVE  m >= a \div b - 1
<1> DEFINE q == a \div b
<1>1. q \in Int /\ a % b \in 0 .. b - 1 /\ a = b * q + (a % b)
  OBVIOUS
<1> HIDE DEF q
<1>2. b * q <= b * (m + 1)
  BY <1>1
<1>3. ASSUME q > m + 1
      PROVE  FALSE
  <2>1. PICK d \in Nat : q = (m + 1) + 1 + d
    <3>1. q - (m + 1) - 1 \in Nat /\ q = (m + 1) + 1 + (q - (m + 1) - 1)
      BY <1>1, <1>3
    <3> QED BY <3>1
  <2>2. b * q = b * (m + 1) + b + b * d /\ b * d \in Nat /\ b * (m + 1) \in Nat
    BY <2>1
  <2> QED BY <1>2, <2>2
<1>4. q <= m + 1
  BY <1>1, <1>3
<1> QED BY <1>1, <1>4 DEF q

(* Only a wake-up drops a source; one that is announced was not deleted,   *)
(* so it expired, and each interval it aged is a missed announcement.      *)
LEMMA LossIsLate ==
  ASSUME SapInv, Next, NEW k \in On, k \in Held(remote), k \notin Held(remote')
  PROVE  missed[k] >= Timeout \div TxInterval - 1
<1>0. SapType /\ SenderInv /\ AgeInv /\ Len(remote) <= MaxRemote /\ k \in Keys
  BY DEF SapInv, TableInv, On
<1>1. CASE RxPacket \/ RxTimeout
  <2>p. PICK P \in SUBSET Packet : \E o : WakesUp(P, o)
    BY <1>0, <1>1, Receives
  <2>0. PICK o : WakesUp(P, o)
    BY <2>p
  <2>1. Received(remote, P, o) /\ remote' = o.table
    BY <2>0 DEF WakesUp
  <2>t. P # {} => inbox # <<>> /\ P = {Head(inbox)} /\ inbox' = Tail(inbox)
    BY <2>0 DEF WakesUp
  <2>2. PICK i \in DOMAIN remote : remote[i].key = k
    BY DEF Held
  <2>3. \A p \in P : p.delete => p.key # k
    <3> SUFFICES ASSUME NEW p \in P, p.delete
                 PROVE  p.key # k
      OBVIOUS
    <3>1. p \in InSocket
      BY <1>0, <2>t, Takes DEF SapType
    <3>2. Delete(p.key) \in InSocket /\ p.key \in Keys
      BY <3>1, PacketIs
    <3>3. sender[p.key] = "removed"
      BY <1>0, <3>2 DEF SenderInv
    <3> QED BY <3>3 DEF On
  <2>4. Expired(remote[i])
    BY <2>1, <2>2, <2>3 DEF Received
  <2>5. remote[i].age <= Budget(k) /\ remote[i].age \in Nat
    BY <1>0, <2>2, TableFacts DEF AgeInv, SapType
  <2>6. /\ Budget(k) \in Nat /\ Budget(k) <= missed[k] * TxInterval + TxInterval /\ missed[k] \in Nat
        /\ missed[k] * TxInterval \in Nat
    BY <1>0, BudgetType
  <2>7. Timeout <= missed[k] * TxInterval + TxInterval
    <3> DEFINE M == missed[k] * TxInterval
    <3> HIDE DEF M
    <3>1. M \in Nat /\ Budget(k) <= M + TxInterval
      BY <2>6 DEF M
    <3>2. Timeout <= M + TxInterval
      BY <2>4, <2>5, <2>6, <3>1, ConstantFacts DEF Expired
    <3> QED BY <3>2 DEF M
  <2> QED BY <2>6, <2>7, ConstantFacts, Quotient
<1>2. CASE \E a \in Keys : AddSource(a) \/ RemoveSource(a)
  BY <1>2 DEF AddSource, RemoveSource, rx
<1>3. CASE \E n \in Nodes : TxRound(n)
  BY <1>3 DEF TxRound, rx
<1>4. CASE Tick
  <2>1. Held(remote') = Held(remote)
    BY <1>0, <1>4, TickHolds
  <2> QED BY <2>1
<1> QED BY <1>1, <1>2, <1>3, <1>4 DEF Next

(* A source whose node still announces it is never dropped before as many  *)
(* announcements in a row were lost as the timeout has room for            *)
(* (NoFalseLoss: SAP_TIMEOUT_MS against SAP_TX_INTERVAL_MS).               *)
THEOREM NoLossTooEarly == Spec => NoFalseLoss
<1>1. SapInv /\ [Next]_vars =>
        [\A k \in On \cap KnownKeys : k \notin KnownKeys' => missed[k] >= Timeout \div TxInterval - 1]_vars
  <2> SUFFICES ASSUME SapInv, Next, NEW k \in On \cap KnownKeys, k \notin KnownKeys'
               PROVE  missed[k] >= Timeout \div TxInterval - 1
    OBVIOUS
  <2>1. KnownKeys = Held(remote) /\ KnownKeys' = Held(remote')
    BY DEF KnownKeys, Held
  <2> QED BY <2>1, LossIsLate
<1> QED BY <1>1, SapInvariant, PTL DEF Spec, NoFalseLoss

(* What the application does is a step of SapRemote or nothing to it.      *)
LEMMA DiscoveryStepsAre == [DiscoveryNext]_allVars => [Next]_vars
<1> SUFFICES ASSUME [DiscoveryNext]_allVars
             PROVE  Next \/ UNCHANGED vars
  OBVIOUS
<1>1. CASE SapRx
  BY <1>1 DEF SapRx, Next
<1>2. ASSUME NEW t \in Tasks, Fails(t) \/ AddSink(t) \/ SetPacketTime(t) \/ AddOwnSource(t)
      PROVE  UNCHANGED vars
  BY <1>2 DEF Fails, AddSink, SetPacketTime, AddOwnSource
<1>3. CASE Register \/ GetRemoteCount \/ GetRemote \/ LoopEnds
  BY <1>3 DEF Register, GetRemoteCount, GetRemote, LoopEnds
<1>4. CASE TimePasses
  BY <1>4 DEF TimePasses, Next
<1>5. CASE Network
  BY <1>5 DEF Network, Next
<1>6. CASE UNCHANGED allVars
  BY <1>6 DEF allVars
<1> QED BY <1>1, <1>2, <1>3, <1>4, <1>5, <1>6 DEF DiscoveryNext

(* The composition implements SapRemote, so that everything proved of it   *)
(* holds with the application on top.                                      *)
THEOREM DiscoveryIsSapRemote == DiscoverySpec => Spec
<1>1. DiscoveryInit => Init
  BY DEF DiscoveryInit
<1> QED BY <1>1, DiscoveryStepsAre, PTL DEF DiscoverySpec, Spec

(* A callback that has added its sink and goes on.                         *)
Busy(t) == cb[t].at \in {"set", "source"}

(* What app_main and the callbacks may be doing.                           *)
AppState == [at : {"starting", "registered", "loop", "done"}, i : Nat \ {0}, n : Nat]
CbState  == [at : {"idle", "add", "set", "source"}, key : Keys \cup {None}]

CbType ==
  /\ app \in AppState
  /\ cb \in [Tasks -> CbState]
  /\ sinks \in Nat
  /\ matched \in BOOLEAN

(* Between the two callbacks: while there is no sink none has got further  *)
(* than deciding to add one; once there is one, at most one other is about *)
(* to add a second; then none is.                                          *)
CbInv ==
  /\ sinks = 0 => \A t \in Tasks : ~Busy(t)
  /\ sinks = 1 =>
       /\ \A t, u \in Tasks : cb[t].at = "add" /\ cb[u].at = "add" => t = u
       /\ \A t, u \in Tasks : Busy(t) /\ Busy(u) => t = u
       /\ \A t \in Tasks : cb[t].at = "source" => ptime = cb[t].key
  /\ sinks < 2 => matched = TRUE
  /\ sinks >= 2 => sinks = 2 /\ \A t \in Tasks : cb[t].at # "add"

(* Between app_main and sap_rx_task: what the loop has behind it, and what *)
(* was added above the entries it counted, was offered.                    *)
LoopInv ==
  sinks = 0 =>
    /\ app.at = "loop" =>
         \A j \in DOMAIN remote : j < app.i \/ j > app.n => remote[j].key \in offered
    /\ app.at = "done" => Held(remote) \subseteq offered
    /\ app.at \in {"starting", "registered"} => app.i = 1

(* There are two tasks that call sap_discovery_cb.                         *)
LEMMA TwoTasks == \A t, u, v \in Tasks : t # u /\ t # v => u = v
BY DEF Tasks

(* A callback that is not running.                                         *)
LEMMA IdleIs == Idle \in CbState /\ Idle.at = "idle" /\ Idle.key = None
BY DEF Idle, CbState

(* One callback moves on, the other stays ...                              *)
LEMMA CbGets ==
  ASSUME CbType, NEW t \in Tasks, NEW c \in CbState, cb' = [cb EXCEPT ![t] = c]
  PROVE  cb' \in [Tasks -> CbState] /\ cb'[t] = c /\ \A u \in Tasks : u # t => cb'[u] = cb[u]
BY DEF CbType

(* ... also when only where it is changes.                                 *)
LEMMA CbMoves ==
  ASSUME CbType, NEW t \in Tasks, NEW a \in {"idle", "add", "set", "source"},
         cb' = [cb EXCEPT ![t].at = a]
  PROVE  /\ cb' \in [Tasks -> CbState] /\ cb'[t].at = a /\ cb'[t].key = cb[t].key
         /\ \A u \in Tasks : u # t => cb'[u] = cb[u]
<1>0. cb \in [Tasks -> CbState] /\ cb[t] \in [at : {"idle", "add", "set", "source"}, key : Keys \cup {None}]
  BY DEF CbType, CbState
<1> DEFINE c == [cb[t] EXCEPT !.at = a]
<1>1. c = [at |-> a, key |-> cb[t].key]
  BY <1>0
<1>2. c \in CbState /\ c.at = a /\ c.key = cb[t].key
  BY <1>0, <1>1 DEF CbState
<1>3. cb' = [cb EXCEPT ![t] = c]
  BY Zenon
<1> HIDE DEF c
<1> QED BY <1>0, <1>2, <1>3

(* A callback that fails goes back to where it was not running.            *)
LEMMA FailsKeeps ==
  ASSUME CbType, CbInv, NEW t \in Tasks, Fails(t)
  PROVE  CbType' /\ CbInv'
<1>1. /\ cb' = [cb EXCEPT ![t] = Idle] /\ app' = app /\ sinks' = sinks /\ ptime' = ptime
      /\ matched' = matched
  BY DEF Fails
<1>2. cb' \in [Tasks -> CbState] /\ cb'[t] = Idle /\ \A u \in Tasks : u # t => cb'[u] = cb[u]
  BY <1>1, IdleIs, CbGets
<1>3. \A u \in Tasks : cb'[u].at = "idle" \/ cb'[u] = cb[u]
  BY <1>2, IdleIs
<1>4. CbType'
  BY <1>1, <1>2 DEF CbType
<1>5. CbInv'
  BY <1>1, <1>3 DEF CbInv, Busy
<1> QED BY <1>4, <1>5

(* Both callbacks may add a sink, as both may have found none, but no      *)
(* third.                                                                  *)
LEMMA AddSinkKeeps ==
  ASSUME CbType, CbInv, NEW t \in Tasks, AddSink(t)
  PROVE  CbType' /\ CbInv'
<1>1. /\ cb[t].at = "add" /\ cb' = [cb EXCEPT ![t].at = "set"] /\ app' = app /\ sinks' = sinks + 1
      /\ matched' = matched
  BY DEF AddSink
<1>2. /\ cb' \in [Tasks -> CbState] /\ cb'[t].at = "set" /\ cb'[t].key = cb[t].key
      /\ \A u \in Tasks : u # t => cb'[u] = cb[u]
  BY <1>1, CbMoves
<1>3. sinks \in Nat
  BY DEF CbType
<1>4. CbType'
  BY <1>1, <1>2, <1>3 DEF CbType
<1>5. sinks < 2
  BY <1>1, <1>3 DEF CbInv
<1>6. CASE sinks = 0
  <2>1. \A u \in Tasks : u # t => ~(cb'[u].at \in {"set", "source"})
    BY <1>2, <1>6 DEF CbInv, Busy
  <2>2. \A u \in Tasks : cb'[u].at \in {"set", "source"} => u = t
    BY <2>1
  <2>3. \A u \in Tasks : cb'[u].at = "add" => u # t
    BY <1>2
  <2>4. \A u, v \in Tasks : cb'[u].at = "add" /\ cb'[v].at = "add" => u = v
    BY <2>3, TwoTasks
  <2>5. \A u \in Tasks : cb'[u].at # "source"
    BY <1>2, <2>2
  <2> QED BY <1>1, <1>4, <1>6, <2>2, <2>4, <2>5 DEF CbInv, Busy
<1>7. CASE sinks = 1
  <2>1. \A u \in Tasks : cb'[u].at # "add"
    BY <1>1, <1>2, <1>7 DEF CbInv
  <2> QED BY <1>1, <1>4, <1>7, <2>1 DEF CbInv
<1> QED BY <1>3, <1>5, <1>6, <1>7

(* The packet time is that of the one sink there is.                       *)
LEMMA SetPacketTimeKeeps ==
  ASSUME CbType, CbInv, NEW t \in Tasks, SetPacketTime(t)
  PROVE  CbType' /\ CbInv'
<1>1. /\ cb[t].at = "set" /\ cb' = [cb EXCEPT ![t].at = "source"] /\ app' = app /\ sinks' = sinks
      /\ matched' = matched /\ ptime' = cb[t].key
  BY DEF SetPacketTime
<1>2. /\ cb' \in [Tasks -> CbState] /\ cb'[t].at = "source" /\ cb'[t].key = cb[t].key
      /\ \A u \in Tasks : u # t => cb'[u] = cb[u]
  BY <1>1, CbMoves
<1>3. CbType'
  BY <1>1, <1>2 DEF CbType
<1>4. sinks # 0
  BY <1>1 DEF CbInv, Busy
<1>5. \A u \in Tasks : /\ cb'[u].at = "add" <=> cb[u].at = "add"
                       /\ cb'[u].at \in {"set", "source"} <=> cb[u].at \in {"set", "source"}
  BY <1>1, <1>2
<1>6. sinks = 1 => \A u \in Tasks : cb'[u].at = "source" => ptime' = cb'[u].key
  <2> SUFFICES ASSUME sinks = 1, NEW u \in Tasks, cb'[u].at = "source"
               PROVE  u = t
    BY <1>1, <1>2
  <2>1. cb[u].at \in {"set", "source"}
    BY <1>5
  <2> QED BY <1>1, <2>1 DEF CbInv, Busy
<1>7. CbInv'
  BY <1>1, <1>4, <1>5, <1>6 DEF CbInv, Busy
<1> QED BY <1>3, <1>7

(* The source is added with that packet time while there is one sink.      *)
LEMMA AddOwnSourceKeeps ==
  ASSUME CbType, CbInv, NEW t \in Tasks, AddOwnSource(t)
  PROVE  CbType' /\ CbInv'
<1>1. /\ cb[t].at = "source" /\ cb' = [cb EXCEPT ![t] = Idle] /\ app' = app /\ sinks' = sinks
  BY DEF AddOwnSource
<1>2. cb' \in [Tasks -> CbState] /\ cb'[t] = Idle /\ \A u \in Tasks : u # t => cb'[u] = cb[u]
  BY <1>1, IdleIs, CbGets
<1>3. \A u \in Tasks : cb'[u].at = "idle" \/ cb'[u] = cb[u]
  BY <1>2, IdleIs
<1>4. sinks \in Nat /\ sinks # 0
  BY <1>1 DEF CbType, CbInv, Busy
<1>5. sinks = 1 => ptime = cb[t].key /\ matched = TRUE
  BY <1>1 DEF CbInv
<1>6. matched' \in {matched, matched /\ ptime = cb[t].key}
  BY DEF AddOwnSource
<1>7. matched' \in BOOLEAN /\ (sinks = 1 => matched' = TRUE)
  <2>1. matched \in BOOLEAN
    BY DEF CbType
  <2>2. matched' = matched \/ matched' = (matched /\ ptime = cb[t].key)
    BY <1>6, Zenon
  <2>3. sinks = 1 => matched' = TRUE
    BY <1>5, <2>2
  <2>4. matched' \in BOOLEAN
    BY <2>1, <2>2
  <2> QED BY <2>3, <2>4
<1>8. CbType'
  BY <1>1, <1>2, <1>4, <1>7 DEF CbType
<1>9. sinks = 1 => \A u \in Tasks : cb'[u].at # "source"
  <2> SUFFICES ASSUME sinks = 1, NEW u \in Tasks, cb'[u].at = "source"
               PROVE  FALSE
    OBVIOUS
  <2>1. cb[u].at = "source" /\ u # t
    BY <1>2, <1>3, IdleIs
  <2> QED BY <1>1, <2>1 DEF CbInv, Busy
<1>10. CbInv'
  BY <1>1, <1>3, <1>4, <1>7, <1>9 DEF CbInv, Busy
<1> QED BY <1>8, <1>10

(* A callback that starts when there is a sink does nothing.               *)
LEMMA CalledKeeps ==
  ASSUME CbType, CbInv, NEW t \in Tasks, cb[t] = Idle, NEW k \in Keys, Called(t, k),
         sinks' = sinks, ptime' = ptime, matched' = matched
  PROVE  cb' \in [Tasks -> CbState] /\ CbInv'
<1>1. CASE sinks > 0
  <2>1. cb' = cb
    BY <1>1 DEF Called, s_sink_added
  <2> QED BY <2>1 DEF CbType, CbInv, Busy
<1>2. CASE sinks = 0
  <2> DEFINE c == [at |-> "add", key |-> k]
  <2>1. c \in CbState /\ c.at = "add"
    BY DEF CbState
  <2>2. cb' = [cb EXCEPT ![t] = c]
    BY <1>2 DEF Called, s_sink_added
  <2> HIDE DEF c
  <2>3. cb' \in [Tasks -> CbState] /\ cb'[t] = c /\ \A u \in Tasks : u # t => cb'[u] = cb[u]
    BY <2>1, <2>2, CbGets
  <2>4. \A u \in Tasks : cb'[u].at = "add" \/ cb'[u] = cb[u]
    BY <2>1, <2>3
  <2>5. CbInv'
    BY <1>2, <2>4 DEF CbInv, Busy
  <2> QED BY <2>3, <2>5
<1>3. sinks \in Nat
  BY DEF CbType
<1> QED BY <1>1, <1>2, <1>3

(* The fields of app.                                                      *)
LEMMA AppIs ==
  ASSUME app \in AppState
  PROVE  /\ app = [at |-> app.at, i |-> app.i, n |-> app.n]
         /\ app.at \in {"starting", "registered", "loop", "done"} /\ app.i \in Nat \ {0} /\ app.n \in Nat
BY DEF AppState

(* Two of them change.                                                     *)
LEMMA AppGets ==
  ASSUME NEW a, NEW i, NEW n, NEW x, NEW m, NEW c, NEW d,
         c = [at |-> a, i |-> i, n |-> n], d = [c EXCEPT !.at = x, !.n = m]
  PROVE  d = [at |-> x, i |-> i, n |-> m]
BY Zenon

DiscInv == SapInv /\ CbType /\ CbInv /\ LoopInv

(* Unless they overlapped, only one callback at a time is about to add a   *)
(* sink, and only while there is none.                                     *)
OneInv ==
  /\ overlapped \in BOOLEAN
  /\ overlapped = FALSE =>
       /\ sinks \in {0, 1}
       /\ \A t \in Tasks : cb[t].at = "add" =>
            sinks = 0 /\ \A u \in Tasks : cb[u].at = "add" => u = t

(* The known sources are those the table holds.                            *)
LEMMA KnownAreHeld == KnownKeys = Held(remote) /\ KnownKeys' = Held(remote')
BY DEF KnownKeys, Held

(* app_main registers the callback.                                        *)
LEMMA RegisterKeeps ==
  ASSUME CbType, CbInv, LoopInv, Register
  PROVE  CbType' /\ CbInv' /\ LoopInv'
<1>1. /\ app.at = "starting" /\ app' = [app EXCEPT !.at = "registered"]
      /\ cb' = cb /\ sinks' = sinks /\ ptime' = ptime /\ matched' = matched
      /\ offered' = offered /\ remote' = remote
  BY DEF Register, vars, rx
<1>2. app' \in AppState /\ app'.at = "registered" /\ app'.i = app.i
  BY <1>1 DEF CbType, AppState
<1>3. CbType'
  BY <1>1, <1>2 DEF CbType
<1>4. CbInv'
  BY <1>1 DEF CbInv, Busy
<1>5. LoopInv'
  BY <1>1, <1>2 DEF LoopInv
<1> QED BY <1>3, <1>4, <1>5

(* The loop of app_main starts with all it has counted before it.          *)
LEMMA GetRemoteCountKeeps ==
  ASSUME CbType, CbInv, LoopInv, Table(remote), GetRemoteCount
  PROVE  CbType' /\ CbInv' /\ LoopInv'
<1>1. /\ app.at = "registered" /\ app' = [app EXCEPT !.at = "loop", !.n = Len(remote)]
      /\ cb' = cb /\ sinks' = sinks /\ ptime' = ptime /\ matched' = matched
      /\ offered' = offered /\ remote' = remote
  BY DEF GetRemoteCount, vars, rx
<1>2. Len(remote) \in Nat /\ DOMAIN remote = 1 .. Len(remote)
  BY TableFacts
<1>3. app' = [at |-> "loop", i |-> app.i, n |-> Len(remote)]
  <2>1. app = [at |-> app.at, i |-> app.i, n |-> app.n]
    BY AppIs DEF CbType
  <2> QED BY <1>1, <2>1, AppGets, Zenon
<1>4. app' \in AppState /\ app'.at = "loop" /\ app'.i = app.i /\ app'.n = Len(remote)
  BY <1>2, <1>3, AppIs DEF CbType, AppState
<1>5. CbType'
  BY <1>1, <1>4 DEF CbType
<1>6. CbInv'
  BY <1>1 DEF CbInv, Busy
<1>7. LoopInv'
  <2> SUFFICES ASSUME sinks = 0, NEW j \in DOMAIN remote, j < app.i \/ j > Len(remote)
               PROVE  FALSE
    BY <1>1, <1>4 DEF LoopInv
  <2>1. app.i = 1
    BY <1>1 DEF LoopInv
  <2> QED BY <1>2, <2>1
<1> QED BY <1>5, <1>6, <1>7

(* It offers the entry it looks at, if there still is one.                 *)
LEMMA GetRemoteKeeps ==
  ASSUME CbType, CbInv, LoopInv, Table(remote), GetRemote
  PROVE  CbType' /\ CbInv' /\ LoopInv'
<1>1. /\ app.at = "loop" /\ cb["app_main"] = Idle /\ app.i <= app.n /\ ~s_sink_added
      /\ app' = [app EXCEPT !.i = @ + 1]
      /\ sinks' = sinks /\ ptime' = ptime /\ matched' = matched /\ remote' = remote
  BY DEF GetRemote, vars, rx
<1>2. /\ Len(remote) \in Nat /\ DOMAIN remote = 1 .. Len(remote)
      /\ \A i \in DOMAIN remote : remote[i].key \in Keys
  BY TableFacts
<1>3. /\ app' \in AppState /\ app'.at = "loop" /\ app'.i = app.i + 1 /\ app'.n = app.n
      /\ app.i \in Nat /\ app.n \in Nat
  BY <1>1, AppIs DEF CbType, AppState
<1>4. sinks = 0
  BY <1>1 DEF CbType, s_sink_added
<1>t. "app_main" \in Tasks
  BY DEF Tasks
<1>5. CASE app.i <= Len(remote) /\ app.i >= 1
  <2> DEFINE k == remote[app.i].key
  <2>1. Called("app_main", k) /\ offered' = offered \cup {k} /\ k \in Keys
    BY <1>2, <1>3, <1>5 DEF GetRemote
  <2> HIDE DEF k
  <2>2. PICK l \in Keys : l = k
    BY <2>1
  <2>3. cb' \in [Tasks -> CbState] /\ CbInv'
    BY <1>1, <1>t, <2>1, <2>2, CalledKeeps
  <2>4. CbType'
    BY <1>1, <1>3, <2>3 DEF CbType
  <2>5. LoopInv'
    <3> SUFFICES ASSUME NEW j \in DOMAIN remote, j < app.i + 1 \/ j > app.n
                 PROVE  remote[j].key \in offered'
      BY <1>1, <1>3 DEF LoopInv
    <3>1. CASE j = app.i
      BY <2>1, <3>1 DEF k
    <3>2. CASE j # app.i
      <4>1. j < app.i \/ j > app.n
        BY <1>2, <1>3, <3>2
      <4>2. remote[j].key \in offered
        BY <1>1, <1>4, <4>1 DEF LoopInv
      <4> QED BY <2>1, <4>2
    <3> QED BY <3>1, <3>2
  <2> QED BY <2>3, <2>4, <2>5
<1>6. CASE ~(app.i <= Len(remote))
  <2>1. cb' = cb /\ offered' = offered
    BY <1>6 DEF GetRemote
  <2>2. CbType'
    BY <1>1, <1>3, <2>1 DEF CbType
  <2>3. CbInv'
    BY <1>1, <2>1 DEF CbInv, Busy
  <2>4. LoopInv'
    <3> SUFFICES ASSUME NEW j \in DOMAIN remote
                 PROVE  remote[j].key \in offered
      BY <1>1, <1>3, <2>1 DEF LoopInv
    <3>1. j < app.i
      BY <1>2, <1>3, <1>6
    <3> QED BY <1>1, <1>4, <3>1 DEF LoopInv
  <2> QED BY <2>2, <2>3, <2>4
<1>7. app.i >= 1
  BY AppIs DEF CbType
<1> QED BY <1>2, <1>3, <1>5, <1>6, <1>7

(* When it ends, all that is in the table was offered.                     *)
LEMMA LoopEndsKeeps ==
  ASSUME CbType, CbInv, LoopInv, Table(remote), LoopEnds
  PROVE  CbType' /\ CbInv' /\ LoopInv'
<1>1. /\ app.at = "loop" /\ (app.i > app.n \/ s_sink_added)
      /\ app' = [at |-> "done", i |-> 1, n |-> 0]
      /\ cb' = cb /\ sinks' = sinks /\ ptime' = ptime /\ matched' = matched
      /\ offered' = offered /\ remote' = remote
  BY DEF LoopEnds, vars, rx
<1>2. app' \in AppState /\ app'.at = "done"
  BY <1>1 DEF AppState
<1>3. CbType'
  BY <1>1, <1>2 DEF CbType
<1>4. CbInv'
  BY <1>1 DEF CbInv, Busy
<1>5. LoopInv'
  <2> SUFFICES ASSUME sinks = 0, NEW k \in Held(remote)
               PROVE  k \in offered
    BY <1>1, <1>2 DEF LoopInv
  <2>1. PICK j \in DOMAIN remote : remote[j].key = k
    BY DEF Held
  <2>2. app.i > app.n /\ app.i \in Nat /\ app.n \in Nat /\ j \in Nat
    BY <1>1, <2>1, AppIs, TableFacts DEF s_sink_added, CbType
  <2>3. j < app.i \/ j > app.n
    BY <2>2
  <2> QED BY <1>1, <2>1, <2>3 DEF LoopInv
<1> QED BY <1>3, <1>4, <1>5

(* What sap_rx_task reports discovered is one source at most, and in the   *)
(* table; what else is in the table was there, no lower than it is now.    *)
LEMMA DiscoveredIs ==
  ASSUME SapInv, RxPacket \/ RxTimeout
  PROVE  /\ Discovered \subseteq Keys
         /\ \A k, l \in Discovered : k = l
         /\ \A k \in Held(remote') : k \in Keys /\ (k \notin Held(remote) => k \in Discovered)
         /\ \A j \in DOMAIN remote' : remote'[j].key \in Held(remote) =>
              \E i \in DOMAIN remote : j <= i /\ remote'[j].key = remote[i].key
<1>0. SapType /\ Len(remote) <= MaxRemote
  BY DEF SapInv, TableInv
<1>p. PICK P \in SUBSET Packet : \E o : WakesUp(P, o)
  BY <1>0, Receives
<1>w. PICK o : WakesUp(P, o)
  BY <1>p
<1>1. /\ Received(remote, P, o) /\ remote' = o.table
      /\ balance' = [k \in Keys |-> balance[k] + o.events[k]]
      /\ P = {} \/ P = {Head(inbox)}
  BY <1>w DEF WakesUp
<1>2. \A k \in Keys : balance[k] \in Int /\ o.events[k] \in Int
                      /\ o.events[k] = Count(remote', k) - Count(remote, k)
  BY <1>0, <1>1 DEF SapType, Received, Proper
<1>3. \A k \in Keys : k \in Discovered <=> k \in Held(remote') /\ k \notin Held(remote)
  <2> TAKE k \in Keys
  <2>1. balance'[k] > balance[k] <=> o.events[k] > 0
    BY <1>1, <1>2
  <2>2. o.events[k] > 0 <=> k \in Held(remote') /\ k \notin Held(remote)
    BY <1>2 DEF Count
  <2> QED BY <2>1, <2>2 DEF Discovered
<1>4. \A k \in Held(remote') : k \in Keys
  BY <1>1, TableFacts DEF Received, Proper, Held
<1>5. Discovered \subseteq Keys
  BY DEF Discovered
<1>6. \A k \in Discovered : \E p \in P : k = p.key
  BY <1>1, <1>3, <1>5 DEF Received
<1>7. \A k, l \in Discovered : k = l
  BY <1>1, <1>6
<1>8. \A j \in DOMAIN remote' : remote'[j].key \in Held(remote) =>
              \E i \in DOMAIN remote : j <= i /\ remote'[j].key = remote[i].key
  BY <1>1 DEF Received
<1> QED BY <1>3, <1>4, <1>5, <1>7, <1>8

Indexed == \A j \in DOMAIN remote : j \in Nat

(* The entries are numbered after a step as well.                          *)
LEMMA TableNext == SapInv' => Indexed'
<1>1. SapInv => Indexed
  BY TableFacts DEF SapInv, SapType, Indexed
<1> QED BY <1>1, PTL

(* sap_rx_task offers what it adds above the entries app_main counted;     *)
(* what it moves down either stays ahead of the loop, stays behind it or   *)
(* slides past.                                                            *)
LEMMA SapRxKeeps ==
  ASSUME DiscInv, SapRx
  PROVE  CbType' /\ CbInv' /\ LoopInv'
<1>0. SapInv /\ CbType /\ CbInv /\ LoopInv /\ Table(remote)
  BY DEF DiscInv, SapInv, SapType
<1>1. /\ cb["sap_rx"] = Idle /\ (RxPacket \/ RxTimeout)
      /\ app' = app /\ sinks' = sinks /\ ptime' = ptime /\ matched' = matched
  BY DEF SapRx
<1>2. \/ (~Registered \/ Discovered = {}) /\ Offered({}) /\ cb' = cb
      \/ Registered /\ \E k \in Discovered : Called("sap_rx", k) /\ Offered({k})
  BY DEF SapRx
<1>3. /\ Discovered \subseteq Keys
      /\ \A k, l \in Discovered : k = l
      /\ \A k \in Held(remote') : k \in Keys /\ (k \notin Held(remote) => k \in Discovered)
      /\ \A j \in DOMAIN remote' : remote'[j].key \in Held(remote) =>
              \E i \in DOMAIN remote : j <= i /\ remote'[j].key = remote[i].key
  BY <1>0, <1>1, DiscoveredIs
<1>4. cb' \in [Tasks -> CbState] /\ CbInv'
  <2>1. CASE cb' = cb
    BY <1>0, <1>1, <2>1 DEF CbType, CbInv, Busy
  <2>2. ASSUME NEW k \in Discovered, Called("sap_rx", k)
        PROVE  cb' \in [Tasks -> CbState] /\ CbInv'
    <3>1. "sap_rx" \in Tasks /\ k \in Keys
      BY <1>3 DEF Tasks
    <3> QED BY <1>0, <1>1, <2>2, <3>1, CalledKeeps
  <2> QED BY <1>2, <2>1, <2>2
<1>5. CbType'
  BY <1>0, <1>1, <1>4 DEF CbType
<1>6. LoopInv'
  <2> SUFFICES ASSUME sinks = 0
               PROVE  LoopInv'
    BY <1>1 DEF LoopInv
  <2>1. ~s_sink_added
    BY DEF s_sink_added
  <2>2. PICK ks : /\ offered' = ((offered \cup SlidPast) \cap KnownKeys') \cup ks
                  /\ Registered => Discovered \subseteq ks
    <3>1. CASE ~Registered \/ Discovered = {}
      BY <1>2, <2>1, <3>1 DEF Offered
    <3>2. CASE Registered /\ \E k \in Discovered : Offered({k})
      <4>1. PICK k \in Discovered : Offered({k})
        BY <3>2
      <4>2. Discovered \subseteq {k}
        BY <1>3, <4>1
      <4> QED BY <2>1, <4>1, <4>2 DEF Offered
    <3> QED BY <1>2, <3>1, <3>2
  <2>3. ASSUME NEW k \in Held(remote'), k \in offered \/ k \in SlidPast
        PROVE  k \in offered'
    BY <2>2, <2>3, KnownAreHeld
  <2>4. ASSUME NEW k \in Held(remote'), k \notin Held(remote), Registered
        PROVE  k \in offered'
    BY <1>3, <2>2, <2>4
  <2>5. CASE app.at = "loop"
    <3> SUFFICES ASSUME NEW j \in DOMAIN remote', j < app.i \/ j > app.n
                 PROVE  remote'[j].key \in offered'
      BY <1>1, <2>5 DEF LoopInv
    <3>0. /\ remote'[j].key \in Held(remote') /\ Registered /\ app.i \in Nat /\ app.n \in Nat
      BY <1>0, <2>5, AppIs DEF Held, Registered, CbType
    <3>d. \A i \in DOMAIN remote : i \in Nat
      BY <1>0, TableFacts
    <3>1. CASE remote'[j].key \notin Held(remote)
      BY <2>4, <3>0, <3>1
    <3>2. CASE remote'[j].key \in Held(remote)
      <4>1. PICK i \in DOMAIN remote : j <= i /\ remote'[j].key = remote[i].key
        BY <1>3, <3>2
      <4>2. CASE i < app.i \/ i > app.n
        <5>1. remote[i].key \in offered
          BY <1>0, <2>5, <4>2 DEF LoopInv
        <5> QED BY <2>3, <3>0, <4>1, <5>1
      <4>3. CASE ~(i < app.i \/ i > app.n)
        <5>1. j \in Nat
          BY SapStep, <1>0, <1>1, TableNext DEF Next, Indexed
        <5>2. i >= app.i /\ j < app.i
          BY <3>0, <3>d, <4>1, <4>3, <5>1
        <5>3. remote'[j].key \in KnownKeys
          BY <3>2, KnownAreHeld
        <5>4. remote'[j].key \in SlidPast
          BY <2>5, <4>1, <5>2, <5>3 DEF SlidPast
        <5> QED BY <2>3, <3>0, <5>4
      <4> QED BY <4>2, <4>3
    <3> QED BY <3>1, <3>2
  <2>6. CASE app.at = "done"
    <3> SUFFICES ASSUME NEW k \in Held(remote')
                 PROVE  k \in offered'
      BY <1>1, <2>6 DEF LoopInv
    <3>1. CASE k \in Held(remote)
      BY <1>0, <2>3, <2>6, <3>1 DEF LoopInv
    <3>2. CASE k \notin Held(remote)
      BY <2>4, <2>6, <3>2 DEF Registered
    <3> QED BY <3>1, <3>2
  <2>7. CASE app.at \in {"starting", "registered"}
    BY <1>0, <1>1, <2>7 DEF LoopInv
  <2>8. app.at \in {"starting", "registered", "loop", "done"}
    BY <1>0, AppIs DEF CbType
  <2> QED BY <2>5, <2>6, <2>7, <2>8
<1> QED BY <1>4, <1>5, <1>6

(* Steps the application has no part in.                                   *)
LEMMA RestKeeps ==
  ASSUME DiscInv, \/ TimePasses \/ Network \/ UNCHANGED allVars
  PROVE  CbType' /\ CbInv' /\ LoopInv'
<1>0. SapType /\ CbType /\ CbInv /\ LoopInv
  BY DEF DiscInv, SapInv
<1>1. /\ app' = app /\ cb' = cb /\ sinks' = sinks /\ ptime' = ptime /\ matched' = matched
      /\ offered' = offered
  BY DEF TimePasses, Network, appVars, allVars
<1>2. CbType' /\ CbInv'
  BY <1>0, <1>1 DEF CbType, CbInv, Busy
<1>3. CASE TimePasses
  <2>1. Held(remote') = Held(remote) /\ app.at = "done"
    BY <1>0, <1>3, TickHolds DEF TimePasses
  <2> QED BY <1>0, <1>1, <1>2, <2>1 DEF LoopInv
<1>4. CASE remote' = remote
  BY <1>0, <1>1, <1>2, <1>4 DEF LoopInv
<1>5. Network \/ UNCHANGED allVars => remote' = remote
  BY DEF Network, AddSource, RemoveSource, TxRound, rx, allVars, vars
<1> QED BY <1>3, <1>4, <1>5

(* Every step keeps the invariant of the composition.                      *)
LEMMA DiscStep == DiscInv /\ [DiscoveryNext]_allVars => DiscInv'
<1> SUFFICES ASSUME DiscInv, [DiscoveryNext]_allVars
             PROVE  DiscInv'
  OBVIOUS
<1>0. SapInv /\ CbType /\ CbInv /\ LoopInv /\ Table(remote)
  BY DEF DiscInv, SapInv, SapType
<1>1. SapInv'
  BY <1>0, DiscoveryStepsAre, SapStep
<1>2. CbType' /\ CbInv' /\ LoopInv'
  <2>1. CASE SapRx
    BY <2>1, SapRxKeeps
  <2>2. ASSUME NEW t \in Tasks, Fails(t) \/ AddSink(t) \/ SetPacketTime(t) \/ AddOwnSource(t)
        PROVE  CbType' /\ CbInv' /\ LoopInv'
    <3>1. CbType' /\ CbInv'
      BY <1>0, <2>2, FailsKeeps, AddSinkKeeps, SetPacketTimeKeeps, AddOwnSourceKeeps
    <3>2. CASE AddSink(t)
      <4>1. sinks' # 0
        BY <1>0, <3>2 DEF AddSink, CbType
      <4> QED BY <3>1, <4>1 DEF LoopInv
    <3>3. CASE Fails(t) \/ SetPacketTime(t) \/ AddOwnSource(t)
      <4>1. remote' = remote /\ app' = app /\ sinks' = sinks /\ offered' = offered
        BY <3>3 DEF Fails, SetPacketTime, AddOwnSource, vars, rx
      <4> QED BY <1>0, <3>1, <4>1 DEF LoopInv
    <3> QED BY <2>2, <3>2, <3>3
  <2>3. CASE Register \/ GetRemoteCount \/ GetRemote \/ LoopEnds
    BY <1>0, <2>3, RegisterKeeps, GetRemoteCountKeeps, GetRemoteKeeps, LoopEndsKeeps
  <2>4. CASE TimePasses \/ Network \/ UNCHANGED allVars
    BY <2>4, RestKeeps
  <2> QED BY <2>1, <2>2, <2>3, <2>4 DEF DiscoveryNext
<1> QED BY <1>1, <1>2 DEF DiscInv

(* It holds at the start.                                                  *)
LEMMA DiscInit == DiscoveryInit => DiscInv
<1> SUFFICES ASSUME DiscoveryInit
             PROVE  DiscInv
  OBVIOUS
<1>1. /\ Init /\ app = [at |-> "starting", i |-> 1, n |-> 0] /\ cb = [t \in Tasks |-> Idle]
      /\ sinks = 0 /\ matched = TRUE /\ offered = {}
  BY DEF DiscoveryInit
<1>2. app \in AppState /\ app.at = "starting" /\ app.i = 1
  BY <1>1 DEF AppState
<1>3. \A t \in Tasks : cb[t].at = "idle"
  BY <1>1, IdleIs
<1>4. CbType
  BY <1>1, <1>2, IdleIs DEF CbType
<1>5. CbInv
  BY <1>1, <1>3 DEF CbInv, Busy
<1>6. LoopInv
  BY <1>1, <1>2 DEF LoopInv
<1> QED BY <1>1, <1>4, <1>5, <1>6, InitKeeps DEF DiscInv

(* The inductive invariant of Discovery.                                   *)
THEOREM DiscoveryInvariant == DiscoverySpec => []DiscInv
BY DiscInit, DiscStep, PTL DEF DiscoverySpec

(* Once app_main is through with its loop and as long as there is no sink, *)
(* the callback was called for every source in the table, by sap_rx_task   *)
(* or by app_main, but for one that slid past the loop (NoneIsMissed).     *)
THEOREM NoSourceIsMissed == DiscoverySpec => []NoneIsMissed
<1>1. DiscInv => NoneIsMissed
  <2> SUFFICES ASSUME DiscInv, app.at = "done", ~s_sink_added
               PROVE  KnownKeys \subseteq offered
    BY DEF NoneIsMissed
  <2>1. sinks = 0
    BY DEF DiscInv, CbType, s_sink_added
  <2> QED BY <2>1, KnownAreHeld DEF DiscInv, LoopInv
<1> QED BY <1>1, DiscoveryInvariant, PTL

(* The steps of a callback, ... *)
LEMMA CallbackKeepsOne ==
  ASSUME CbType, OneInv, NEW t \in Tasks,
         Fails(t) \/ AddSink(t) \/ SetPacketTime(t) \/ AddOwnSource(t)
  PROVE  OneInv'
<1>1. overlapped' = overlapped
  BY DEF Fails, AddSink, SetPacketTime, AddOwnSource
<1>2. ASSUME \A u \in Tasks : cb'[u].at = "add" => cb[u].at = "add", sinks' = sinks
      PROVE  OneInv'
  BY <1>1, <1>2 DEF OneInv
<1>3. CASE Fails(t) \/ AddOwnSource(t)
  <2>1. cb' = [cb EXCEPT ![t] = Idle] /\ sinks' = sinks
    BY <1>3 DEF Fails, AddOwnSource
  <2>2. cb'[t] = Idle /\ \A u \in Tasks : u # t => cb'[u] = cb[u]
    BY <2>1, IdleIs, CbGets
  <2> QED BY <1>2, <2>1, <2>2, IdleIs
<1>4. CASE SetPacketTime(t)
  <2>1. cb' = [cb EXCEPT ![t].at = "source"] /\ sinks' = sinks
    BY <1>4 DEF SetPacketTime
  <2>2. cb'[t].at = "source" /\ \A u \in Tasks : u # t => cb'[u] = cb[u]
    BY <2>1, CbMoves
  <2> QED BY <1>2, <2>1, <2>2
<1>5. CASE AddSink(t)
  <2>1. cb[t].at = "add" /\ cb' = [cb EXCEPT ![t].at = "set"] /\ sinks' = sinks + 1
    BY <1>5 DEF AddSink
  <2>2. cb'[t].at = "set" /\ \A u \in Tasks : u # t => cb'[u] = cb[u]
    BY <2>1, CbMoves
  <2> QED BY <1>1, <2>1, <2>2 DEF OneInv
<1> QED BY <1>3, <1>4, <1>5

(* ... and its call, which is an overlap if the other is about to add one. *)
LEMMA CalledKeepsOne ==
  ASSUME CbType, OneInv, NEW t \in Tasks, NEW k \in Keys, Called(t, k), sinks' = sinks
  PROVE  OneInv'
<1>1. CASE s_sink_added
  <2>1. cb' = cb /\ overlapped' = (overlapped \/ FALSE)
    BY <1>1 DEF Called
  <2>2. overlapped' = overlapped
    BY <2>1 DEF OneInv
  <2> QED BY <2>1, <2>2 DEF OneInv
<1>2. CASE ~s_sink_added
  <2> DEFINE c == [at |-> "add", key |-> k]
             meets == \E u \in Tasks \ {t} : cb[u].at = "add"
  <2>1. c \in CbState /\ c.at = "add"
    BY DEF CbState
  <2>2. cb' = [cb EXCEPT ![t] = c] /\ overlapped' = (overlapped \/ meets)
    BY <1>2 DEF Called
  <2> HIDE DEF c
  <2>3. cb'[t] = c /\ \A u \in Tasks : u # t => cb'[u] = cb[u]
    BY <2>1, <2>2, CbGets
  <2>4. sinks = 0
    BY <1>2 DEF s_sink_added, CbType
  <2>5. overlapped' \in BOOLEAN /\ (overlapped' = FALSE => ~meets)
    BY <2>2
  <2>6. ~meets => \A u \in Tasks : cb'[u].at = "add" => u = t
    BY <2>3
  <2> QED BY <2>4, <2>5, <2>6 DEF OneInv
<1> QED BY <1>1, <1>2

(* Every step keeps it. *)
LEMMA NextOne == DiscInv /\ OneInv /\ [DiscoveryNext]_allVars => OneInv'
<1> SUFFICES ASSUME DiscInv, OneInv, [DiscoveryNext]_allVars
             PROVE  OneInv'
  OBVIOUS
<1>1. CbType
  BY DEF DiscInv
<1>2. ASSUME UNCHANGED <<cb, sinks, overlapped>>
      PROVE  OneInv'
  BY <1>2 DEF OneInv
<1>3. CASE SapRx
  <2>1. CASE UNCHANGED <<cb, overlapped>>
    BY <1>2, <1>3, <2>1 DEF SapRx
  <2>2. CASE \E k \in Keys : Called("sap_rx", k)
    BY <1>1, <1>3, <2>2, CalledKeepsOne DEF SapRx, Tasks
  <2> QED BY <1>3, <2>1, <2>2 DEF SapRx, Discovered
<1>4. CASE GetRemote
  <2>1. CASE UNCHANGED <<cb, overlapped>>
    BY <1>2, <1>4, <2>1 DEF GetRemote
  <2>2. CASE Called("app_main", remote[app.i].key) /\ app.i <= Len(remote)
    <3>1. remote[app.i].key \in Keys
      <4>1. Table(remote)
        BY DEF DiscInv, SapInv, SapType
      <4>2. Len(remote) \in Nat /\ \A i \in 1 .. Len(remote) : remote[i].key \in Keys
        BY <4>1, TableFacts
      <4>3. app.i \in 1 .. Len(remote)
        BY <1>1, <2>2, <4>2, AppIs DEF CbType, AppState
      <4> QED BY <4>2, <4>3
    <3> QED BY <1>1, <1>4, <2>2, <3>1, CalledKeepsOne DEF GetRemote, Tasks
  <2> QED BY <1>4, <2>1, <2>2 DEF GetRemote
<1>5. CASE \E t \in Tasks : Fails(t) \/ AddSink(t) \/ SetPacketTime(t) \/ AddOwnSource(t)
  BY <1>1, <1>5, CallbackKeepsOne
<1>6. CASE Register \/ GetRemoteCount \/ LoopEnds \/ TimePasses \/ Network \/ UNCHANGED allVars
  BY <1>2, <1>6 DEF Register, GetRemoteCount, LoopEnds, TimePasses, Network, allVars, appVars
<1> QED BY <1>3, <1>4, <1>5, <1>6 DEF DiscoveryNext

(* There is one sink at most, unless the callback found none in one task   *)
(* while it made one in the other, when there are two at most; and as long *)
(* as there is one, every source of this device has its packet time.       *)
THEOREM FirstSourceWins == DiscoverySpec => []FirstOneWins
<1>1. ASSUME DiscInv, OneInv
      PROVE  FirstOneWins
  <2>1. ~overlapped => sinks <= 1
    BY <1>1 DEF OneInv
  <2>2. (sinks <= 1 => matched) /\ sinks <= 2
    BY <1>1 DEF DiscInv, CbType, CbInv
  <2> QED BY <2>1, <2>2 DEF FirstOneWins
<1>2. DiscoveryInit => OneInv
  BY IdleIs DEF DiscoveryInit, OneInv
<1> QED BY <1>1, <1>2, NextOne, DiscoveryInvariant, PTL DEF DiscoverySpec
=============================================================================
